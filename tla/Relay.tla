------------------------------- MODULE Relay -------------------------------
(***************************************************************************)
(* One call of relay() (outbound.rs): which exchangers of the recipient    *)
(* domain are tried and in which order, under which TLS posture (DANE,     *)
(* MTA-STS, opportunistic, none), and the SMTP client dialog of relay_to() *)
(* with each of their addresses.                                           *)
(*                                                                         *)
(* Every answer of a resolver or of a peer is a choice, made when the code *)
(* asks.  A reply is abstracted to what the code tells apart: "2xx", "354",*)
(* another "3xx", "4xx", "5xx" (every code outside 200..499, which         *)
(* classify() treats alike), and "err", a connection that broke or sent    *)
(* something that is no reply.  `last' and `attempted' of the code only    *)
(* select the text of a deferral and are left out.                         *)
(***************************************************************************)
EXTENDS FiniteSets, Dane, Dns

CONSTANTS
    Hosts,              \* names of mail exchangers
    Domain,             \* the recipient domain, its own implicit exchanger
    Null,               \* the exchange of a null MX record (RFC 7505)
    Prefs,              \* preferences of MX records
    MaxAddrs,           \* bound: addresses of one exchanger
    MaxRcpts,           \* bound: recipients of the message
    RRsets,             \* the TLSA RRsets of exchangers
    Chains,             \* the certificate chains of peers
    Roots               \* the keys of the PKIX trust anchors

ASSUME RelayAssumption ==
    /\ Domain \in Hosts
    /\ Null \notin Hosts
    /\ Prefs \subseteq Nat
    /\ 0 \in Prefs
    /\ MaxAddrs \in Nat \ {0}
    /\ MaxRcpts \in Nat
    /\ {} \in RRsets
    /\ \A chain \in Chains : chain \in Seq(Range(chain)) /\ chain # <<>>

VARIABLES
    config,             \* what the server enables: [tls, sts, dane]
    rcpts,              \* recipients of the message
    pc,                 \* what relay() is about to do
    daneActive,         \* the MX RRset was DNSSEC-validated
    pref,               \* the exchanges and their preferences
    policy,             \* what policy_for() returned
    mx,                 \* the exchange being tried
    tlsa,               \* what the TLSA lookup for mx found
    posture,            \* its TlsPolicy
    addrs,              \* addresses of mx not tried yet
    offered,            \* the peer advertised STARTTLS
    chan,               \* the RelayStream: plain or tls
    rcptLeft,           \* RCPT commands still to send
    report,             \* the RelayReport, "pending" while there is none
    \* -- history, read by properties only
    outcome,            \* outcome[e]: what became of exchange e
    proved,             \* what the peer's certificate and key prove, whoever asks
    cause,              \* why the report is what it is
    copies,             \* exchangers that took the message
    lost                \* of these, the ones whose reply did not arrive

asked  == <<config, rcpts>>
found  == <<daneActive, pref, policy>>
target == <<mx, tlsa, posture, addrs>>
peer   == <<offered, chan, rcptLeft, proved>>
counts == <<copies, lost>>
vars   == <<asked, found, target, peer, counts, pc, report, outcome, cause>>

Exchanges == Hosts \cup {Null}
Replies   == {"2xx", "354", "3xx", "4xx", "5xx", "err"}
Dialog    == {"greeting", "ehlo", "starttls", "handshake", "ehloTls",
              "mail", "rcpt", "data", "verdict"}
Transaction == {"mail", "rcpt", "data", "verdict"}
Channels  == {"plain", "tls"}
Postures  == {"none", "opportunistic", "dane", "pkix"}
Capabilities == {"STARTTLS", "SIZE"}
NoPolicy  == [mode |-> "absent", allows |-> {}]
Policies  == {NoPolicy} \cup [mode : {"none", "testing"}, allows : {{}}]
                        \cup [mode : {"enforce"}, allows : SUBSET Hosts]

TypeOK ==
    /\ config \in [tls : BOOLEAN, sts : BOOLEAN, dane : BOOLEAN]
    /\ rcpts \in 0..MaxRcpts
    /\ pc \in Dialog \cup {"start", "mx", "policy", "next", "posture",
                           "resolve", "connect", "done"}
    /\ daneActive \in BOOLEAN
    /\ \E set \in SUBSET Exchanges : pref \in [set -> Prefs]
    /\ policy \in Policies
    /\ mx \in Exchanges
    /\ tlsa \in RRsets
    /\ posture \in Postures
    /\ addrs \in 0..MaxAddrs
    /\ offered \in BOOLEAN
    /\ chan \in Channels
    /\ proved \subseteq {"dane", "pkix"}
    /\ rcptLeft \in 0..MaxRcpts
    /\ report \in {"pending", "delivered", "deferred", "failed"}
    /\ outcome \in [Exchanges -> {"untried", "skipped", "noaddr", "current", "exhausted"}]
    /\ cause \in {"none", "norcpt", "nomx", "nullmx", "exhausted", "accepted", "refused"}
    /\ copies \in Nat
    /\ lost \in Nat

Init ==
    /\ config \in [tls : BOOLEAN, sts : BOOLEAN, dane : BOOLEAN]
    /\ rcpts \in 0..MaxRcpts
    /\ pc = "start"
    /\ daneActive = FALSE
    /\ pref = [e \in {} |-> 0]
    /\ policy = NoPolicy
    /\ mx = Null
    /\ tlsa = {}
    /\ posture = "none"
    /\ addrs = 0
    /\ offered = FALSE
    /\ chan = "plain"
    /\ proved = {}
    /\ rcptLeft = 0
    /\ report = "pending"
    /\ outcome = [e \in Exchanges |-> "untried"]
    /\ cause = "none"
    /\ copies = 0
    /\ lost = 0

-----------------------------------------------------------------------------
(* Helpers *)

Goto(label) == pc' = label /\ UNCHANGED <<report, cause>>

Return(result, why) == pc' = "done" /\ report' = result /\ cause' = why

\* relay_to() gave no verdict: the next address, or the next exchange.
NextAddress(left) ==
    IF left > 0
      THEN Goto("connect") /\ UNCHANGED outcome
      ELSE Goto("next") /\ outcome' = [outcome EXCEPT ![mx] = "exhausted"]

\* Mutant: a broken connection is a permanent failure.
ClassifyStrict(reply) ==
    IF reply = "4xx"
      THEN NextAddress(addrs)
      ELSE Return("failed", IF reply = "err" THEN "none" ELSE "refused") /\ UNCHANGED outcome

\* classify() of a reply that is not the one the dialog needs, and the errors
\* relay() turns into a deferral of this address.
Classify(reply) ==
    IF reply \in {"4xx", "err"}
      THEN NextAddress(addrs)
      ELSE Return("failed", "refused") /\ UNCHANGED outcome

\* One command and its reply: on to `label' if the reply is among `good'.
Command(good, label) ==
    \E reply \in Replies :
        IF reply \in good
          THEN Goto(label) /\ UNCHANGED outcome
          ELSE Classify(reply)

\* An exchange that is still to be tried and none of those has a lower
\* preference: the lists are sorted, records of equal preference stay in the
\* order of the answer, which may be any.
Best(e) ==
    /\ e \in DOMAIN pref
    /\ outcome[e] = "untried"
    /\ \A f \in DOMAIN pref : outcome[f] = "untried" => pref[e] <= pref[f]

\* The answers of the resolver library: the records at a name, one for each
\* exchange, validated or not, and perhaps the alias that led to them.
Alias == [type |-> "CNAME", proof |-> "insecure", data |-> Null]
Aliased(sets) == sets \cup {set \cup {Alias} : set \in sets}
MxSets ==
    UNION {{{[type |-> "MX", proof |-> proof[e], data |-> [preference |-> p[e], exchange |-> e]] : e \in set} :
                p \in [set -> Prefs], proof \in [set -> Proofs]} : set \in SUBSET Exchanges}
TlsaSets ==
    UNION {{{[type |-> "TLSA", proof |-> proof[r], data |-> r] : r \in set} :
                proof \in [set -> Proofs]} : set \in RRsets}
AddressSets ==
    {{[type |-> "A", proof |-> "insecure", data |-> [ip |-> i]] : i \in 1 .. n} : n \in 0 .. MaxAddrs}

\* sort_by_key(): each exchange with its preference.
Sorted(mxs) == [e \in {r.exchange : r \in mxs} |-> (CHOOSE r \in mxs : r.exchange = e).preference]

\* MxRecord::is_null()
is_null(e) == e = Null

-----------------------------------------------------------------------------
(* relay(): the exchanges and the policy *)

\* The recipient's domain, and the DNSSEC-validated MX RRset when DANE is on:
\* a failed, insecure or empty lookup is no RRset.
Start ==
    /\ pc = "start"
    /\ IF rcpts = 0
         THEN Return("failed", "norcpt") /\ UNCHANGED <<daneActive, pref>>
         ELSE \E reply \in Replied(Aliased(MxSets)) :
                LET mxs == IF config.dane THEN secure_mx(reply) ELSE {}
                IN /\ daneActive' = (mxs # {})
                   /\ pref' = Sorted(mxs)
                   /\ Goto(IF daneActive' THEN "policy" ELSE "mx")
    /\ UNCHANGED <<asked, policy, target, peer, outcome, counts>>

\* The ordinary lookup: records, none (the domain is its own exchange) or an
\* error.
LookupMx ==
    /\ pc = "mx"
    /\ \E reply \in Replied(Aliased(MxSets)) :
         CASE lookup_mx(reply) = Failed -> Return("deferred", "nomx") /\ UNCHANGED pref
           [] lookup_mx(reply) = {} -> pref' = [e \in {Domain} |-> 0] /\ Goto("policy")
           [] OTHER -> pref' = Sorted(lookup_mx(reply)) /\ Goto("policy")
    /\ UNCHANGED <<asked, daneActive, policy, target, peer, outcome, counts>>

\* A domain that accepts no mail; otherwise its MTA-STS policy, which is asked
\* for only when DANE is not active.
PolicyFor ==
    /\ pc = "policy"
    /\ IF \A e \in DOMAIN pref : is_null(e)
         THEN Return("failed", "nullmx") /\ UNCHANGED policy
         ELSE /\ IF daneActive \/ ~config.sts
                   THEN UNCHANGED policy
                   ELSE policy' \in Policies
              /\ Goto("next")
    /\ UNCHANGED <<asked, daneActive, pref, target, peer, outcome, counts>>

\* The next exchange, skipping a null record among others.
NextExchange ==
    /\ pc = "next"
    /\ \E e \in DOMAIN pref :
         /\ Best(e)
         /\ mx' = e
         /\ outcome' = [outcome EXCEPT ![e] = IF is_null(e) THEN "skipped" ELSE "current"]
         /\ Goto(IF is_null(e) THEN "next" ELSE "posture")
    /\ UNCHANGED <<asked, found, tlsa, posture, addrs, peer, counts>>

\* Nothing left to try: whatever went wrong last is a deferral.
NoMoreExchanges ==
    /\ pc = "next"
    /\ \A e \in DOMAIN pref : outcome[e] # "untried"
    /\ Return("deferred", "exhausted")
    /\ UNCHANGED <<asked, found, target, peer, outcome, counts>>

-----------------------------------------------------------------------------
(* The TLS posture and the addresses of one exchange *)

Fallback == IF config.tls THEN "opportunistic" ELSE "none"

\* TlsPolicy::is_mandatory(), and whether it has a client configuration.
is_mandatory(p) == p \in {"dane", "pkix"}
has_config(p)   == p # "none"

\* dane_tls_policy(): only a usable, DNSSEC-validated TLSA RRset makes DANE
\* mandatory; an unusable or absent one and a failed lookup do not.
dane_tls_policy(records) == has_usable_tlsa(records)

DanePosture ==
    /\ pc = "posture"
    /\ daneActive
    /\ \E reply \in Replied(Aliased(TlsaSets)) : tlsa' = secure_tlsa(reply)
    /\ posture' = IF dane_tls_policy(tlsa') THEN "dane" ELSE Fallback
    /\ Goto("resolve")
    /\ UNCHANGED <<asked, found, mx, addrs, peer, outcome, counts>>

\* exchange_tls_policy(): under enforce an exchange the policy does not name is
\* skipped and the others need PKIX; any other mode changes nothing.
StsPosture ==
    /\ pc = "posture"
    /\ ~daneActive
    /\ tlsa' = {}
    /\ IF policy.mode = "enforce"
         THEN IF mx \in policy.allows
                THEN posture' = "pkix" /\ Goto("resolve") /\ UNCHANGED outcome
                ELSE /\ outcome' = [outcome EXCEPT ![mx] = "skipped"]
                     /\ Goto("next")
                     /\ UNCHANGED posture
         ELSE posture' = Fallback /\ Goto("resolve") /\ UNCHANGED outcome
    /\ UNCHANGED <<asked, found, mx, addrs, peer, counts>>

\* resolve_exchange(): its addresses, or the next exchange.
ResolveExchange ==
    /\ pc = "resolve"
    /\ \E reply \in Replied(AddressSets) :
         IF lookup_ip(reply) \in {Failed, {}}
           THEN /\ outcome' = [outcome EXCEPT ![mx] = "noaddr"]
                /\ Goto("next")
                /\ UNCHANGED addrs
           ELSE /\ addrs' = Cardinality(lookup_ip(reply))
                /\ Goto("connect")
                /\ UNCHANGED outcome
    /\ UNCHANGED <<asked, found, mx, tlsa, posture, peer, counts>>

-----------------------------------------------------------------------------
(* relay_to(): the dialog with one address *)

\* A TCP connection to the next address; one that fails is a deferral.
Connect ==
    /\ pc = "connect"
    /\ addrs' = addrs - 1
    /\ offered' = FALSE
    /\ chan' = "plain"
    /\ proved' = {}
    /\ rcptLeft' = rcpts
    /\ \/ Goto("greeting") /\ UNCHANGED outcome
       \/ NextAddress(addrs - 1)
    /\ UNCHANGED <<asked, found, mx, tlsa, posture, counts>>

Greeting ==
    /\ pc = "greeting"
    /\ Command({"2xx", "354", "3xx"}, "ehlo")
    /\ UNCHANGED <<asked, found, target, peer, counts>>

\* EHLO, and what follows from the capabilities: a mandatory posture defers
\* when STARTTLS is not advertised, any posture but "none" uses it when it is.
advertises_starttls(capabilities) == "STARTTLS" \in capabilities

Ehlo ==
    /\ pc = "ehlo"
    /\ \/ /\ \E reply \in Replies \ {"2xx"} : Classify(reply)
          /\ UNCHANGED offered
       \/ /\ \E caps \in SUBSET Capabilities : offered' = advertises_starttls(caps)
          /\ IF is_mandatory(posture) /\ ~offered'
               THEN NextAddress(addrs)
               ELSE /\ Goto(IF has_config(posture) /\ offered' THEN "starttls" ELSE "mail")
                    /\ UNCHANGED outcome
    /\ UNCHANGED <<asked, found, target, chan, proved, rcptLeft, counts>>

\* Mutant: a refused STARTTLS is taken for "no TLS" and the dialog goes on.
StartTlsLenient ==
    /\ pc = "starttls"
    /\ \/ Goto("handshake") /\ UNCHANGED outcome
       \/ Goto("mail") /\ UNCHANGED outcome
    /\ UNCHANGED <<asked, found, target, peer, counts>>

\* STARTTLS: accepted, or refused with whatever code, broken, or followed by
\* pipelined data, which all defer.
StartTls ==
    /\ pc = "starttls"
    /\ \/ Goto("handshake") /\ UNCHANGED outcome
       \/ NextAddress(addrs)
    /\ UNCHANGED <<asked, found, target, peer, counts>>

\* The verifier of the client configuration in use.
Verified(chain) ==
    CASE posture = "dane" -> dane_verify(tlsa, chain, mx)
      [] posture = "pkix" -> pkix_verify(Roots, chain, mx)
      [] posture = "opportunistic" -> opportunistic_verify(chain)

\* Reference: the keys that sign a chain's first certificate, itself or through
\* certificates of the chain that may sign: the least set that has its signer and,
\* with the key of such a certificate, the signer of that one.
SignedUnder(chain, set) ==
    /\ chain[1].signer \in set
    /\ \A i \in DOMAIN chain : chain[i].ca /\ chain[i].key \in set => chain[i].signer \in set
Signs(chain, key) ==
    /\ ~chain[1].ca
    /\ \A set \in SUBSET {chain[i].signer : i \in DOMAIN chain} : SignedUnder(chain, set) => key \in set

\* Reference: a usable record that names the peer's certificate or key, or those
\* of one above it in the chain, which is then for this exchange.
Names(rec, cert) ==
    \E content \in {IF rec.selector = 0 THEN Full(cert) ELSE Spki(cert)} :
        rec.data = (CASE rec.matching = 0 -> content [] rec.matching = 1 -> Sha256(content)
                      [] rec.matching = 2 -> Sha512(content))
Vouched(records, chain, host) ==
    \E rec \in records :
        /\ rec.selector \in 0..1 /\ rec.matching \in 0..2
        /\ \/ rec.usage = 3 /\ Names(rec, chain[1])
           \/ /\ rec.usage = 2 /\ chain[1].name = host
              /\ \E i \in DOMAIN chain : Names(rec, chain[i]) /\ Signs(chain, chain[i].key)
Proved(records, chain, keys, host) ==
    {p \in {"dane", "pkix"} :
        /\ chain[1].key \in keys
        /\ p = "dane" => Vouched(records, chain, host)
        /\ p = "pkix" => chain[1].name = host /\ \E root \in Roots : Signs(chain, root)}

\* connect(): the handshake with a peer that presents some chain and holds some
\* keys.  It fails unless the verifier accepts the chain and the peer signs with
\* its key; a failed handshake defers.
Handshake ==
    /\ pc = "handshake"
    /\ \/ /\ \E chain \in Chains, keys \in SUBSET {chain[1].key : chain \in Chains} :
               /\ Verified(chain)
               /\ verify_signature(chain, keys)
               /\ proved' = Proved(tlsa, chain, keys, mx)
          /\ chan' = "tls"
          /\ Goto("ehloTls")
          /\ UNCHANGED outcome
       \/ NextAddress(addrs) /\ UNCHANGED <<chan, proved>>
    /\ UNCHANGED <<asked, found, target, offered, rcptLeft, counts>>

EhloTls ==
    /\ pc = "ehloTls"
    /\ Command({"2xx"}, "mail")
    /\ UNCHANGED <<asked, found, target, peer, counts>>

MailFrom ==
    /\ pc = "mail"
    /\ Command({"2xx"}, "rcpt")
    /\ UNCHANGED <<asked, found, target, peer, counts>>

\* One RCPT TO for every recipient: all of them must be accepted.
RcptTo ==
    /\ pc = "rcpt"
    /\ rcptLeft > 0
    /\ rcptLeft' = rcptLeft - 1
    /\ Command({"2xx"}, IF rcptLeft' > 0 THEN "rcpt" ELSE "data")
    /\ UNCHANGED <<asked, found, target, offered, chan, proved, counts>>

\* DATA needs exactly 354; then the body is written.
Data ==
    /\ pc = "data"
    /\ Command({"354"}, "verdict")
    /\ UNCHANGED <<asked, found, target, peer, counts>>

\* Mutant: after an acceptance the next address is tried as well.
VerdictContinues ==
    /\ pc = "verdict"
    /\ copies' = copies + 1
    /\ NextAddress(addrs)
    /\ UNCHANGED <<asked, found, target, peer, lost>>

\* The verdict on the body.  When the connection breaks here the peer may have
\* taken the message, which nobody will know.
Verdict ==
    /\ pc = "verdict"
    /\ \/ /\ copies' = copies + 1
          /\ Return("delivered", "accepted")
          /\ UNCHANGED <<lost, outcome>>
       \/ /\ \E reply \in Replies \ {"2xx"} : Classify(reply)
          /\ UNCHANGED counts
       \/ /\ copies' = copies + 1
          /\ lost' = lost + 1
          /\ NextAddress(addrs)
    /\ UNCHANGED <<asked, found, target, peer>>

\* The call has returned; nothing is left to do.
Returned == pc = "done" /\ UNCHANGED vars

-----------------------------------------------------------------------------
Next ==
    \/ Start \/ LookupMx \/ PolicyFor \/ NextExchange \/ NoMoreExchanges
    \/ DanePosture \/ StsPosture \/ ResolveExchange
    \/ Connect \/ Greeting \/ Ehlo \/ StartTls \/ Handshake \/ EhloTls
    \/ MailFrom \/ RcptTo \/ Data \/ Verdict \/ Returned

Spec == Init /\ [][Next]_vars

-----------------------------------------------------------------------------
(* Properties *)

\* No command of the mail transaction reaches a peer that has proved less than
\* what is in force: under an MTA-STS policy in enforce mode a certificate of the
\* trusted authorities for an exchange the policy names, with a usable TLSA record
\* the certificate that record vouches for, in each case with its key; and never
\* goes in cleartext to a peer that advertised STARTTLS while the client has TLS.
TransactionProtected ==
    pc \in Transaction =>
        /\ policy.mode = "enforce" => chan = "tls" /\ "pkix" \in proved /\ mx \in policy.allows
        /\ has_usable_tlsa(tlsa) => chan = "tls" /\ "dane" \in proved
        /\ offered /\ config.tls => chan # "plain"

\* An exchange is contacted only when every exchange of lower preference has
\* had its turn: all its addresses tried, without an address, or not usable.
PreferenceOrder ==
    pc \in Dialog \cup {"connect"} =>
        \A e \in DOMAIN pref :
            pref[e] < pref[mx] => outcome[e] \in {"skipped", "noaddr", "exhausted"}

\* A deferral after the lookups means that every exchange was given its
\* chance; one is passed over only for being null or for not being authorized
\* by a policy in enforce mode.
DeferredAfterAll ==
    report = "deferred" /\ cause # "nomx" =>
        \A e \in DOMAIN pref :
            \/ outcome[e] \in {"noaddr", "exhausted"}
            \/ outcome[e] = "skipped" /\ e = Null
            \/ outcome[e] = "skipped" /\ policy.mode = "enforce" /\ e \notin policy.allows

\* A message is given up for good only on the word of a peer, of a null MX, or
\* for want of a recipient: no timeout, broken connection, failed lookup or
\* handshake makes relay() report a permanent failure.
FailedForCause ==
    report = "failed" =>
        \/ rcpts = 0
        \/ DOMAIN pref = {Null}
        \/ cause = "refused" /\ outcome[mx] = "current"

\* The order in which exchanges are tried and what the report says of them.
RelayInv == TypeOK /\ PreferenceOrder /\ DeferredAfterAll /\ FailedForCause

\* relay() implements the call the worker relies on: a delivery is reported
\* when and only when an exchanger said it took the message, and then no other
\* exchanger is given it; the only copies the worker does not hear of are those
\* whose reply was lost.
Call == INSTANCE RelayCall
ImplementsCall == Call!CallSpec
=============================================================================
