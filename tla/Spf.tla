-------------------------------- MODULE Spf --------------------------------
(***************************************************************************)
(* SPF evaluation of one message (spf/eval.rs, record.rs, macro_expand.rs):*)
(* check_host() over DNS, with the budget of querying terms and of void    *)
(* lookups that all nested evaluations share.  `include' and `redirect'    *)
(* are frames of a stack, one action is one term.                          *)
(*                                                                         *)
(* A name is the sequence of its labels.  A failed lookup and an empty     *)
(* answer are one outcome, as they are to the code.                        *)
(***************************************************************************)
EXTENDS Integers, Sequences, SequencesExt, FiniteSets, Lists

CONSTANTS
    Zones,              \* what DNS may hold: functions from names to nodes
    Identities,         \* [ip, helo, local, sender]; sender <<>>: null or no address
    Bits,               \* Bits[4], Bits[6]: width of an address
    MAX_LOOKUPS,
    MAX_VOID,
    MAX_HOSTS

\* Qualifier::from_char; no sign is a plus.
Qualifier == [plus |-> "Pass", minus |-> "Fail", tilde |-> "SoftFail", mark |-> "Neutral", none |-> "Pass"]

\* What DNS and a client may give: names, networks, the parts of a record.
Labels == STRING \cup Nat \cup {"unknown", "postmaster"}   \* the last two: the code's own
Names == Seq(Labels)
Networks == [v : {0, 4, 6}, n : Nat]
Specs == [letter : STRING, reverse : BOOLEAN, keep : Nat, rest : Names]
TermRecords == [modifier : BOOLEAN, sign : DOMAIN Qualifier, mech : STRING, spec : Specs,
                net : Networks, cidr : [{4, 6} -> Nat]]
Nodes == [txt : Seq([spf : BOOLEAN, terms : Seq(TermRecords)]), a : SUBSET Networks, mx : Seq(Names)]
Clients == [v : {4, 6}, n : Nat, ptr : Seq(Names)]

ASSUME SpfAssumption ==
    /\ \A zone \in Zones : \A name \in DOMAIN zone : zone[name] \in Nodes
    /\ Identities \subseteq [ip : Clients, helo : Names, local : Names, sender : Names]
    /\ MAX_LOOKUPS \in Nat /\ MAX_VOID \in Nat /\ MAX_HOSTS \in Nat

VARIABLES
    dns,                \* the zone; unchanged by an evaluation
    id,                 \* the identity that is checked
    stack,              \* the check_host() calls under way, the current one first
    lookups, void,      \* the charges
    ret,                \* what the current call returned, or "none yet"
    queries             \* history: DNS queries sent

vars == <<dns, id, stack, lookups, void, ret, queries>>

SpfResult == {"Pass", "Fail", "SoftFail", "Neutral", "None", "TempError", "PermError"}
Running == "running"

Empty == [txt |-> <<>>, a |-> {}, mx |-> <<>>]
Node(name) == IF name \in DOMAIN dns THEN dns[name] ELSE Empty

-----------------------------------------------------------------------------
(* Addresses: [v : {4, 6}, n : a number of Bits[v] bits, ptr : names] *)

\* cidr4 and cidr6; families never match each other.
Cidr(net, prefix, ip) ==
    /\ net.v = ip.v
    /\ \/ prefix = 0
       \/ /\ prefix <= Bits[ip.v]
          /\ net.n \div 2 ^ (Bits[ip.v] - prefix) = ip.n \div 2 ^ (Bits[ip.v] - prefix)

\* ip_in_net: a mechanism has one prefix length for each family.
InNet(net, cidr) == Cidr(net, cidr[net.v], id.ip)

-----------------------------------------------------------------------------
(* Domain-specs: a macro, transformed, before literal labels *)

Macros == {"s", "l", "o", "d", "h", "i", "v", "p"}

MacroValue(letter, current) ==
    CASE letter = "s" -> id.local \o id.sender
      [] letter = "l" -> id.local
      [] letter = "o" -> id.sender
      [] letter = "d" -> current
      [] letter = "h" -> id.helo
      [] letter = "i" -> <<id.ip.n>>
      [] letter = "v" -> <<id.ip.v>>
      [] letter = "p" -> <<"unknown">>

\* expand_one(): reverse first, then keep the right-most labels (0: all).
Transform(labels, reverse, keep) ==
    LET parts == IF reverse THEN Reverse(labels) ELSE labels
    IN IF keep > 0 /\ keep < Len(parts) THEN SubSeq(parts, Len(parts) - keep + 1, Len(parts)) ELSE parts

\* expand(); the letter "" is a spec without a macro, an unknown one an error.
Malformed(spec) == spec.letter \notin Macros \cup {""}
Expand(spec, current) ==
    IF spec.letter = "" THEN spec.rest
    ELSE Transform(MacroValue(spec.letter, current), spec.reverse, spec.keep) \o spec.rest

\* resolve_target(): a mechanism without a domain is about the current one.
NoNet == [v |-> 0, n |-> 0]
NoSpec == [letter |-> "d", reverse |-> FALSE, keep |-> 0, rest |-> <<>>]

-----------------------------------------------------------------------------
(* Records *)

\* parse_directive and parse_mechanism: a term is well formed if its mechanism is
\* known, has the value it requires and no prefix longer than the address.
WellFormed(t) ==
    \/ t.mech \in {"all", "ptr"}
    \/ t.mech \in {"a", "mx"} /\ \A v \in {4, 6} : t.cidr[v] <= Bits[v]
    \/ t.mech \in {"include", "exists"} /\ t.spec # NoSpec
    \/ t.mech = "ip" /\ t.net # NoNet /\ t.cidr[t.net.v] <= Bits[t.net.v]

\* SpfRecord::parse: one malformed term spoils the record; of several redirects
\* the last one counts; other modifiers are ignored.
Spoilt(terms) == \E i \in DOMAIN terms : ~terms[i].modifier /\ ~WellFormed(terms[i])
Directives(terms) == Only({t \in Range(terms) : ~t.modifier}, terms)
Redirects(terms) == Only({t \in Range(terms) : t.modifier /\ t.mech = "redirect"}, terms)

\* The TXT records at a name that begin with the version.
SpfRecords(name) == Only({t \in Range(Node(name).txt) : t.spf}, Node(name).txt)

-----------------------------------------------------------------------------
(* Mechanisms without a nested evaluation: what they match, whether the first *)
(* lookup was void, and how many queries they send                            *)

Hosts(seq) == SubSeq(seq, 1, IF Len(seq) < MAX_HOSTS THEN Len(seq) ELSE MAX_HOSTS)

\* mx_match: hosts are resolved until one matches, at most MAX_HOSTS.
MxHit(target, cidr) ==
    {i \in DOMAIN Hosts(Node(target).mx) :
        \E net \in Node(Node(target).mx[i]).a : InNet(net, cidr)}

\* ptr_match: the names of the client that lie within the target are resolved
\* until one leads back to the client.
Within(name, target) == IsSuffix(target, name)
PtrHit(target) ==
    {i \in DOMAIN Hosts(id.ip.ptr) :
        LET name == id.ip.ptr[i]
        IN Within(name, target) /\ \E net \in Node(name).a : net.v = id.ip.v /\ net.n = id.ip.n}

First(S) == CHOOSE i \in S : \A j \in S : i <= j

Outcome(match, empty, sent) == [match |-> match, void |-> empty, sent |-> sent]

Local(d) ==
    CASE d.mech = "all" -> TRUE
      [] d.mech = "ip"  -> InNet(d.net, d.cidr)

a_match(d, target) ==
    Outcome(\E net \in Node(target).a : InNet(net, d.cidr), Node(target).a = {}, 1)

mx_match(d, target) ==
    LET hit == MxHit(target, d.cidr)
    IN Outcome(hit # {}, Node(target).mx = <<>>,
               1 + IF hit # {} THEN First(hit) ELSE Len(Hosts(Node(target).mx)))

exists_match(d, target) == Outcome(Node(target).a # {}, Node(target).a = {}, 1)

ptr_match(d, target) ==
    LET hit == PtrHit(target)
        names == Hosts(id.ip.ptr)
        last == IF hit # {} THEN First(hit) ELSE Len(names)
    IN Outcome(hit # {}, id.ip.ptr = <<>>,
               1 + Cardinality({i \in 1..last : Within(names[i], target)}))

Lookup(d, target) ==
    CASE d.mech = "a"      -> a_match(d, target)
      [] d.mech = "mx"     -> mx_match(d, target)
      [] d.mech = "exists" -> exists_match(d, target)
      [] d.mech = "ptr"    -> ptr_match(d, target)

-----------------------------------------------------------------------------
(* check_host() *)

Call(name, via) == [at |-> name, fetched |-> FALSE, left |-> <<>>, redirect |-> <<>>, via |-> via]

TypeOK ==
    /\ lookups \in 0..(MAX_LOOKUPS + 1)
    /\ void \in 0..(MAX_VOID + 1)
    /\ ret \in SpfResult \cup {Running}
    /\ Len(stack) <= MAX_LOOKUPS + 1

\* evaluate(): the null sender is checked as postmaster of the HELO domain.
Init ==
    /\ dns \in Zones
    /\ id \in {IF i.sender = <<>> THEN [i EXCEPT !.local = <<"postmaster">>, !.sender = i.helo] ELSE i
                 : i \in Identities}
    /\ stack = IF id.sender = <<>> THEN <<>> ELSE <<Call(id.sender, "top")>>
    /\ ret = IF id.sender = <<>> THEN "None" ELSE Running
    /\ lookups = 0 /\ void = 0 /\ queries = 0

Top == stack[1]
Evaluating == stack # <<>> /\ ret = Running

\* The policy is fetched; the fetch is charged where the call was made.
Fetch ==
    LET found == SpfRecords(Top.at)
    IN /\ Evaluating
       /\ ~Top.fetched
       /\ queries' = queries + 1
       /\ IF Len(found) = 1 /\ ~Spoilt(found[1].terms)
            THEN /\ stack' = [stack EXCEPT ![1] =
                       [@ EXCEPT !.fetched = TRUE,
                                 !.left = Directives(found[1].terms),
                                 !.redirect = Redirects(found[1].terms)]]
                 /\ UNCHANGED ret
            ELSE /\ ret' = IF found = <<>> THEN "None" ELSE "PermError"
                 /\ UNCHANGED stack
       /\ UNCHANGED <<dns, id, lookups, void>>

At(mechs) == Evaluating /\ Top.fetched /\ Top.left # <<>> /\ Head(Top.left).mech \in mechs
Advanced == [stack EXCEPT ![1].left = Tail(@)]

\* A directive that matches decides, one that does not is passed over.
Decide(match) ==
    IF match THEN ret' = Qualifier[Head(Top.left).sign] /\ UNCHANGED stack
             ELSE stack' = Advanced /\ UNCHANGED ret

MatchLocal ==
    /\ At({"all", "ip"})
    /\ Decide(Local(Head(Top.left)))
    /\ UNCHANGED <<dns, id, lookups, void, queries>>

Stop == ret' = "PermError" /\ UNCHANGED stack

\* a_match, mx_match, exists_match, ptr_match: charge_lookup, then the target,
\* then the lookup, then charge_void.
MatchDns ==
    LET d == Head(Top.left)
        out == Lookup(d, Expand(d.spec, Top.at))
    IN /\ At({"a", "mx", "exists", "ptr"})
       /\ lookups' = lookups + 1
       /\ IF lookups' > MAX_LOOKUPS \/ Malformed(d.spec)
            THEN Stop /\ UNCHANGED <<void, queries>>
            ELSE /\ queries' = queries + out.sent
                 /\ void' = void + IF out.void THEN 1 ELSE 0
                 /\ IF void' > MAX_VOID THEN Stop ELSE Decide(out.match)
       /\ UNCHANGED <<dns, id>>

\* Mutant: nested evaluations are free.
EnterUncharged(spec, via) ==
    /\ IF Malformed(spec) THEN Stop
       ELSE stack' = <<Call(Expand(spec, Top.at), via)>> \o stack /\ UNCHANGED ret
    /\ UNCHANGED <<dns, id, lookups, void, queries>>

\* A nested check_host(): charged, then expanded.
Enter(spec, via) ==
    /\ lookups' = lookups + 1
    /\ IF lookups' > MAX_LOOKUPS \/ Malformed(spec) THEN Stop
       ELSE stack' = <<Call(Expand(spec, Top.at), via)>> \o stack /\ UNCHANGED ret
    /\ UNCHANGED <<dns, id, void, queries>>

Include == At({"include"}) /\ Enter(Head(Top.left).spec, "include")

Exhausted == Evaluating /\ Top.fetched /\ Top.left = <<>>

Redirect == Exhausted /\ Top.redirect # <<>> /\ Enter(Last(Top.redirect).spec, "redirect")

Default ==
    /\ Exhausted
    /\ Top.redirect = <<>>
    /\ ret' = "Neutral"
    /\ UNCHANGED <<dns, id, stack, lookups, void, queries>>

\* Mutant: an include of a domain without a policy does not match.
IncludeResultLax(r) == IF r = "Pass" THEN "match" ELSE IF r \in {"TempError", "PermError"} THEN r ELSE "no"

\* include_match: what the nested result means to the directive.
IncludeResult(r) ==
    CASE r = "Pass" -> "match"
      [] r \in {"Fail", "SoftFail", "Neutral"} -> "no"
      [] r \in {"None", "PermError"} -> "PermError"
      [] r = "TempError" -> "TempError"

\* Mutant: the result of a redirect is not handed on.
ReturnInclude ==
    /\ Len(stack) > 1
    /\ ret # Running
    /\ Top.via = "include"
    /\ stack' = Tail(stack)
    /\ ret' = IF IncludeResult(ret) = "match" THEN Qualifier[Head(stack[2].left).sign] ELSE "PermError"
    /\ UNCHANGED <<dns, id, lookups, void, queries>>

\* A nested call returns to the frame below it.
Return ==
    LET caller == Tail(stack)
        means == IncludeResult(ret)
    IN /\ Len(stack) > 1
       /\ ret # Running
       /\ CASE Top.via = "redirect" ->
                 ret' = (IF ret = "None" THEN "PermError" ELSE ret) /\ stack' = caller
            [] Top.via = "include" /\ means = "match" ->
                 ret' = Qualifier[Head(caller[1].left).sign] /\ stack' = caller
            [] Top.via = "include" /\ means = "no" ->
                 ret' = Running /\ stack' = [caller EXCEPT ![1].left = Tail(@)]
            [] OTHER -> ret' = means /\ stack' = caller
       /\ UNCHANGED <<dns, id, lookups, void, queries>>

Next == Fetch \/ MatchLocal \/ MatchDns \/ Include \/ Redirect \/ Default \/ Return

Spec == Init /\ [][Next]_vars /\ WF_vars(Next)

-----------------------------------------------------------------------------
(* Reference: the result of a policy as RFC 7208 reads it, by recursion over   *)
(* the policies and without any budget.  `under' is what policies mean to one  *)
(* that refers to them.                                                        *)

Nested(under, spec, name) ==
    LET target == Expand(spec, name)
    IN IF Malformed(spec) THEN "PermError"
       ELSE IF target \in DOMAIN dns THEN under[target] ELSE "None"

Hits(under, d, name) ==
    IF d.mech \in {"all", "ip"} THEN Local(d)
    ELSE IF d.mech = "include" THEN Nested(under, d.spec, name) = "Pass"
    ELSE Lookup(d, Expand(d.spec, name)).match

Errs(under, d, name) ==
    \/ d.mech = "include" /\ Nested(under, d.spec, name) \in {"None", "PermError"}
    \/ d.mech \notin {"all", "ip"} /\ Malformed(d.spec)

\* The first directive that matches or fails decides, then the redirect.
Reads(under, name) ==
    LET terms == SpfRecords(name)[1].terms
        ds == Directives(terms)
        deciding == {i \in DOMAIN ds : Errs(under, ds[i], name) \/ Hits(under, ds[i], name)}
        on == Redirects(terms)
    IN IF SpfRecords(name) = <<>> THEN "None"
       ELSE IF Len(SpfRecords(name)) > 1 \/ Spoilt(terms) THEN "PermError"
       ELSE IF deciding # {}
         THEN LET d == ds[First(deciding)] IN IF Errs(under, d, name) THEN "PermError" ELSE Qualifier[d.sign]
       ELSE IF on = <<>> THEN "Neutral"
       ELSE LET r == Nested(under, Last(on).spec, name) IN IF r = "None" THEN "PermError" ELSE r

\* Policies nested deeper than the limit are an error.
Depths == 0..(MAX_LOOKUPS + 2)
Meaning[depth \in Depths] ==
    [name \in DOMAIN dns |-> IF depth = 0 THEN "PermError" ELSE Reads(Meaning[depth - 1], name)]

\* A null sender without a HELO name has no policy.
Policy(name) ==
    IF name # <<>> /\ name \in DOMAIN dns THEN Meaning[MAX_LOOKUPS + 2][name] ELSE "None"

-----------------------------------------------------------------------------
(* Properties *)

Done == Len(stack) <= 1 /\ ret # Running
Exceeded == lookups > MAX_LOOKUPS \/ void > MAX_VOID

\* However policies nest, check_host() returns what the published policies mean,
\* or PermError because a limit was exceeded somewhere inside: no exceeded limit
\* is ever swallowed by an include, and no error is taken for a mismatch.
ResultRight ==
    Done => ret = IF Exceeded THEN "PermError" ELSE Policy(id.sender)

\* Whatever the policies of strangers say, one message costs a bounded number of
\* DNS queries (charge_lookup, MAX_HOSTS), and the nesting is bounded with it.
QueriesBounded ==
    /\ TypeOK
    /\ queries <= 1 + MAX_LOOKUPS * (1 + MAX_HOSTS)

\* Policies that include each other in a circle do not keep check_host() from
\* returning.
Terminates == <>Done
=============================================================================
