------------------------------ MODULE MailAuth ------------------------------
(***************************************************************************)
(* What happens to a message on the public port between its final dot and  *)
(* the reply (serve_inbound): hop count, SPF, DKIM over the bytes as       *)
(* received, DMARC, the aggregate row, and delivery; and the worker that   *)
(* turns a window's rows into reports (dmarc_report.rs).                   *)
(*                                                                         *)
(* The SPF result is a choice here: module Spf models how it comes about.  *)
(* A DNS name is a spelling; Lower gives the name that is asked for.       *)
(***************************************************************************)
EXTENDS Dkim, Bags

CONSTANTS
    Spellings, Lower, OrgOf,    \* spellings of domains, lowercased, and their registrable domain
    Confs,                      \* [resolver, spf, dmarc : BOOLEAN] the server may run with
    Signers, Profiles,          \* who signs, and [h, c, l, expired] of a signature
    DmarcZones,                 \* what DNS may publish at _dmarc: names to sequences of TXT
    MAX_RECEIVED_HOPS,
    MaxSteps                    \* bound: messages, signatures, changes on the way and of policy

ASSUME AuthAssumption ==
    /\ MAX_RECEIVED_HOPS \in Nat /\ MaxSteps \in Nat
    /\ Signers \subseteq Spellings /\ \A p \in Profiles : p.h \in Seq(STRING)
    /\ Confs \subseteq [resolver : BOOLEAN, spf : BOOLEAN, dmarc : BOOLEAN]
    /\ "" \notin Spellings /\ Lower \in [Spellings -> Spellings]
    /\ OrgOf \in [{Lower[s] : s \in Spellings} -> Spellings]
    /\ \A s \in Spellings : Lower[Lower[s]] = Lower[s]

VARIABLES
    conf,               \* resolver present, SPF and DMARC enforced
    zone,               \* the DMARC records published now
    msg,                \* the message on its way here, or NoMsg
    auth,               \* the connection's results so far, or NoAuth
    last,               \* history: the last message and the reply it got
    agg,                \* DmarcAggregator: the open report of each policy domain
    drained,            \* drained[d]: taken from the window and not yet handed on
    evaluated, reported, lost,  \* history: bags of rows per policy domain
    steps               \* of the bound MaxSteps

authVars == <<conf, zone, msg, auth, last, agg, drained, evaluated, reported, lost, steps>>
history == <<evaluated, reported, lost>>

NoMsg  == [fields |-> <<>>, body |-> <<>>]
NoAuth == [msg |-> NoMsg, from |-> "", spf |-> "None", spfdom |-> "", pass |-> {}, truth |-> {}]
NoLast == [reply |-> "none", msg |-> NoMsg, authentic |-> FALSE, policy |-> "absent", pct |-> 100, trouble |-> FALSE]
---------------------------------------------------------------------------
(* DMARC records and their evaluation *)

NoRecord == [policy |-> "absent", sp |-> "absent", adkim |-> "r", aspf |-> "r", pct |-> 100, rua |-> "absent"]
DmarcPolicy == {"none", "quarantine", "reject"}

\* DmarcRecord::parse(): v= and p= are required, a bad sp= or pct= is ignored.
Valid(t) == t.v = "DMARC1" /\ t.p \in DmarcPolicy
Parsed(t) ==
    [policy |-> t.p, sp |-> IF t.sp \in DmarcPolicy THEN t.sp ELSE "absent",
     adkim |-> IF t.adkim = "s" THEN "s" ELSE "r", aspf |-> IF t.aspf = "s" THEN "s" ELSE "r",
     pct |-> IF t.pct \in 0 .. 100 THEN t.pct ELSE 100, rua |-> t.rua]

\* lookup_dmarc(): the first TXT that parses.
lookup(d) ==
    LET ts == SelectSeq(zone[Lower[d]], Valid)
    IN IF ts = <<>> THEN NoRecord ELSE Parsed(Head(ts))

organizational_domain(d) == OrgOf[Lower[d]]
aligned(a, from, mode) ==
    /\ a # ""
    /\ IF mode = "s" THEN Lower[a] = Lower[from]
       ELSE organizational_domain(a) = organizational_domain(from)

\* apply_pct(): one step milder for the share of the mail that is not sampled.
Milder(p) == CASE p = "reject" -> "quarantine" [] OTHER -> "none"
apply_pct(p, pct) ==
    CASE pct = 100 -> {p}
      [] pct = 0   -> {Milder(p)}
      [] OTHER     -> {p, Milder(p)}

NoResult == [pass |-> FALSE, spf |-> FALSE, dkim |-> FALSE, disposition |-> "none",
             domain |-> "", rec |-> NoRecord]

\* A subdomain judged by the policy of its parent itself.
evaluate_p(a, own, org) ==
    LET rec == IF own # NoRecord THEN own ELSE org
        spf == a.spf = "Pass" /\ aligned(a.spfdom, a.from, rec.aspf)
        dkim == \E d \in a.pass : aligned(d, a.from, rec.adkim)
    IN IF rec = NoRecord THEN {NoResult}
       ELSE {[pass |-> spf \/ dkim, spf |-> spf, dkim |-> dkim, disposition |-> p,
              domain |-> IF own # NoRecord THEN a.from ELSE organizational_domain(a.from),
              rec |-> rec] : p \in IF spf \/ dkim THEN {"none"} ELSE apply_pct(rec.policy, rec.pct)}

\* evaluate(): the From domain's own record, else the organisation's, whose
\* subdomain policy then applies; passes with one aligned identifier.
evaluate(a, own, org) ==
    LET rec == IF own # NoRecord THEN own ELSE org
        spf == a.spf = "Pass" /\ aligned(a.spfdom, a.from, rec.aspf)
        dkim == \E d \in a.pass : aligned(d, a.from, rec.adkim)
        policy == IF own = NoRecord /\ rec.sp # "absent" THEN rec.sp ELSE rec.policy
    IN IF rec = NoRecord THEN {NoResult}
       ELSE {[pass |-> spf \/ dkim, spf |-> spf, dkim |-> dkim, disposition |-> p,
              domain |-> IF own # NoRecord THEN a.from ELSE organizational_domain(a.from),
              rec |-> rec] : p \in IF spf \/ dkim THEN {"none"} ELSE apply_pct(policy, rec.pct)}

---------------------------------------------------------------------------
(* The aggregator *)

NoReport == [rua |-> "absent", policy |-> "absent", rows |-> EmptyBag]
Row(r, from) == SetToBag({<<Lower[from], r.disposition, r.dkim, r.spf>>})

\* record(): the first row of a window fixes the policy and the address.
record(g, r, from) ==
    IF r.rec.rua \in {"absent", "empty"} \/ r.domain = "" THEN g
    ELSE LET e == IF g[r.domain] = NoReport
                  THEN [rua |-> r.rec.rua, policy |-> r.rec.policy, rows |-> EmptyBag] ELSE g[r.domain]
         IN [g EXCEPT ![r.domain] = [e EXCEPT !.rows = @ (+) Row(r, from)]]

---------------------------------------------------------------------------
AuthInit ==
    /\ conf \in Confs
    /\ zone \in DmarcZones
    /\ msg = NoMsg /\ auth = NoAuth /\ last = NoLast
    /\ agg = [d \in Spellings |-> NoReport] /\ drained = agg
    /\ evaluated = [d \in Spellings |-> EmptyBag] /\ reported = evaluated /\ lost = evaluated
    /\ steps = 0

Step == steps < MaxSteps /\ steps' = steps + 1
OnTheWay == msg # NoMsg /\ UNCHANGED <<conf, zone, auth, last, agg, drained, history>>

(* The world outside: senders, signers, forwarders, DNS operators (external) *)

Compose ==
    /\ msg = NoMsg /\ auth = NoAuth /\ Step
    /\ \E d \in Spellings :
          msg' = [fields |-> <<Field("from", d), Field("subject", "s")>>,
                  body |-> <<[text |-> "hello", ws |-> Plain]>>]
    /\ last' = NoLast
    /\ UNCHANGED <<conf, zone, auth, agg, drained, history>>

AddSignature ==
    /\ OnTheWay /\ Step
    /\ \E d \in Signers, p \in Profiles : msg' = Sign(msg, d, p)

\* Fields are put on top, folded or changed, lines are added, blanks change.
Forward ==
    /\ OnTheWay /\ Step
    /\ \/ \E f \in {Field("received", "r"), Field("subject", "x"), Field("dkim-signature", "?"),
                    Field("authentication-results", "pass")}
                   \cup {Field("from", d) : d \in Signers} :
             msg' = [msg EXCEPT !.fields = <<f>> \o @]
       \/ \E i \in DOMAIN msg.fields : msg' \in {[msg EXCEPT !.fields[i].ws = "spaced"],
                                                 [msg EXCEPT !.fields[i].text = "forged"]}
       \/ \E x \in {EmptyLine, <<"", "spaced">>, <<"footer", Plain>>} :
             msg' = [msg EXCEPT !.body = Append(@, [text |-> x[1], ws |-> x[2]])]

\* A forwarder, or a rule of the recipient's, sends what was delivered here again.
ComeBack ==
    /\ msg = NoMsg /\ auth = NoAuth /\ last.msg # NoMsg /\ Step
    /\ msg' = last.msg /\ last' = NoLast
    /\ UNCHANGED <<conf, zone, auth, agg, drained, history>>

PolicyChanges ==
    /\ Step
    /\ zone' \in DmarcZones \ {zone}
    /\ UNCHANGED <<conf, msg, auth, last, agg, drained, history>>
---------------------------------------------------------------------------
(* The connection *)

FieldsNamed(n) == {i \in DOMAIN msg.fields : msg.fields[i].name = n}
FromDomain == LET d == msg.fields[Min(FieldsNamed("from"))].text IN IF d \in Spellings THEN Lower[d] ELSE ""

hops == Cardinality(FieldsNamed("received"))

Replies(r) == last' = [NoLast EXCEPT !.reply = r] /\ auth' = NoAuth

\* What is delivered: the results, SPF's own field and the trace hop, each put
\* on top of what came.
Stamped(a, token) ==
    [a.msg EXCEPT !.fields =
        <<Field("received", "here")>>
        \o (IF a.spf = "None" THEN <<>> ELSE <<Field("received-spf", a.spf)>>)
        \o <<Field("authentication-results", token)>> \o @]

\* Refused before any evaluation: no recipient or no parse, or a mail loop.
Refuse ==
    /\ msg # NoMsg
    /\ Replies(IF hops >= MAX_RECEIVED_HOPS THEN "554 loop" ELSE "554")
    /\ msg' = NoMsg
    /\ UNCHANGED <<conf, zone, agg, drained, history, steps>>

\* SPF, then DKIM over the message as it came; without a resolver neither.
Authenticate ==
    /\ msg # NoMsg /\ hops < MAX_RECEIVED_HOPS
    /\ \E r \in {"Pass", "Fail"}, d \in Signers, key \in KeyStates :
          LET spf == IF conf.resolver THEN r ELSE "None"
              seen == verify(msg.fields, msg.body, [s \in Signers |-> key])
          IN IF spf = "Fail" /\ conf.spf
             THEN Replies("550 spf")
             ELSE /\ auth' = [msg |-> msg, from |-> FromDomain, spf |-> spf, spfdom |-> d,
                              pass |-> IF conf.resolver
                                       THEN {seen[k].domain : k \in {x \in DOMAIN seen : seen[x].result = "Pass"}}
                                       ELSE {},
                              truth |-> IF key = "good"
                                        THEN {msg.fields[i].sig.d : i \in
                                                 {x \in Signatures(msg.fields) : Intact(msg.fields, x, msg.body)}}
                                        ELSE {}]
                  /\ UNCHANGED last
    /\ msg' = NoMsg
    /\ UNCHANGED <<conf, zone, agg, drained, history, steps>>

\* What the zone says about a From domain, and who really vouches for it.
TrueRecord(from) == IF lookup(from) # NoRecord THEN lookup(from) ELSE lookup(organizational_domain(from))
TruePolicy(from) ==
    LET r == TrueRecord(from)
    IN IF r # lookup(from) /\ r.sp # "absent" THEN r.sp ELSE r.policy
Authentic(a) ==
    LET r == TrueRecord(a.from)
    IN \/ a.spf = "Pass" /\ aligned(a.spfdom, a.from, r.aspf)
       \/ \E d \in a.truth : aligned(d, a.from, r.adkim)

Token(r) == IF r.rec = NoRecord THEN "none" ELSE IF r.pass THEN "pass" ELSE "fail"
refused(r) == conf.dmarc /\ r.disposition = "reject"

\* DMARC, the aggregate row, and the reply; each lookup may fail, which looks
\* like an absent record.
Judge ==
    /\ auth # NoAuth
    /\ IF ~conf.resolver \/ auth.from = ""
       THEN /\ last' = [NoLast EXCEPT !.reply = "250", !.msg = Stamped(auth, "absent")]
            /\ auth' = NoAuth
            /\ UNCHANGED <<agg, evaluated>>
       ELSE \E own \in {lookup(auth.from), NoRecord},
               org \in {lookup(organizational_domain(auth.from)), NoRecord} :
            \E r \in evaluate(auth, own, IF organizational_domain(auth.from) = auth.from THEN NoRecord ELSE org) :
              /\ agg' = record(agg, r, auth.from)
              /\ evaluated' = IF agg' = agg THEN evaluated ELSE [evaluated EXCEPT ![r.domain] = @ (+) Row(r, auth.from)]
              /\ auth' = NoAuth
              /\ last' = [reply |-> IF refused(r) THEN "550 dmarc" ELSE "250",
                          msg |-> IF refused(r) THEN NoMsg ELSE Stamped(auth, Token(r)),
                          authentic |-> Authentic(auth), policy |-> TruePolicy(auth.from),
                          pct |-> TrueRecord(auth.from).pct,
                          trouble |-> own # lookup(auth.from)
                                      \/ (own = NoRecord /\ org # lookup(organizational_domain(auth.from)))]
    /\ UNCHANGED <<conf, zone, msg, drained, reported, lost, steps>>
---------------------------------------------------------------------------
(* The report worker *)

Open(g) == {d \in Spellings : g[d] # NoReport}

\* A drain that copies the window and clears it when the reports are out.
drain_copy ==
    /\ Open(drained) = {} /\ Open(agg) # {}
    /\ drained' = agg
    /\ UNCHANGED <<agg, conf, zone, msg, auth, last, history, steps>>

\* drain(): all rows leave the window at once.
drain ==
    /\ Open(drained) = {} /\ Open(agg) # {}
    /\ drained' = agg
    /\ agg' = [d \in Spellings |-> NoReport]
    /\ UNCHANGED <<conf, zone, msg, auth, last, history, steps>>

\* Some(message) or None: there must be a mailto: address among the URIs, and the
\* message then lists every row with its count.
parse_rua(rua) == rua = "mailto"
build_report(e) == IF parse_rua(e.rua) THEN {e.rows} ELSE {}

\* flush_reports(): a report is queued, or skipped because its address is not
\* usable, or given up because the queue refuses it; nothing is put back.
SendReport ==
    \E d \in Open(drained) :
        /\ drained' = [drained EXCEPT ![d] = NoReport]
        /\ \/ \E rows \in build_report(drained[d]) :
                  reported' = [reported EXCEPT ![d] = @ (+) rows] /\ UNCHANGED lost
           \/ lost' = [lost EXCEPT ![d] = @ (+) drained[d].rows] /\ UNCHANGED reported
        /\ UNCHANGED <<conf, zone, msg, auth, last, agg, evaluated, steps>>

\* The process ends: window and drained reports are in memory only.
Restart ==
    /\ steps > 0
    /\ lost' = [d \in Spellings |-> lost[d] (+) agg[d].rows (+) drained[d].rows]
    /\ agg' = [d \in Spellings |-> NoReport] /\ drained' = agg'
    /\ msg' = NoMsg /\ auth' = NoAuth /\ last' = NoLast
    /\ UNCHANGED <<conf, zone, evaluated, reported, steps>>

Worker == drain \/ SendReport
AuthNext ==
    \/ Compose \/ AddSignature \/ Forward \/ ComeBack \/ PolicyChanges
    \/ Refuse \/ Authenticate \/ Judge
    \/ Worker \/ Restart

AuthSpec == AuthInit /\ [][AuthNext]_authVars
---------------------------------------------------------------------------
\* A signature counts for its domain exactly when nothing it covers was
\* changed on the way, whatever fields were put on top of the message, and its
\* key is good.
DkimRight == (auth # NoAuth /\ conf.resolver) => auth.pass = auth.truth

\* With enforcement, a message whose From domain asks for rejection and that
\* nobody vouches for is not delivered, and nothing that somebody vouches for
\* is refused, unless DNS failed while it was judged.
PolicyEnforced ==
    ~last.trouble =>
        /\ last.reply = "550 dmarc" => conf.dmarc /\ ~last.authentic /\ last.policy = "reject"
        /\ (last.reply = "250" /\ last.policy = "reject" /\ last.pct = 100 /\ conf.dmarc) => last.authentic

\* A delivered message has this server's own hop on top, so that one that keeps
\* coming back is refused after MAX_RECEIVED_HOPS of them, and its topmost
\* Authentication-Results, which its readers go by, is no one else's.
TraceTrue ==
    LET fs == last.msg.fields
        Named(n) == {i \in DOMAIN fs : fs[i].name = n}
    IN last.reply = "250" =>
        /\ fs[1] = Field("received", "here") /\ Cardinality(Named("received")) <= MAX_RECEIVED_HOPS
        /\ last.policy = "reject" /\ ~last.authentic /\ ~last.trouble
              => fs[Min(Named("authentication-results"))].text = "fail"

\* What the client is told and what the reader of the message is told.
VerdictRight == PolicyEnforced /\ TraceTrue

\* Every row that was recorded is in the open window, in a report that is being
\* sent, in a sent report, or was lost with a failed hand-over or a restart; none
\* is counted twice.
RowsAccounted ==
    \A d \in Spellings :
        evaluated[d] = agg[d].rows (+) drained[d].rows (+) reported[d] (+) lost[d]
=============================================================================
