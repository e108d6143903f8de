---------------------------- MODULE PolicyProofs ----------------------------
(***************************************************************************)
(* What the domains of senders and receivers publish, and what the server  *)
(* makes of it, proved for any content of DNS and of policy hosts:         *)
(*   - Spf: the charges, the nesting and the DNS queries of an evaluation  *)
(*     are bounded, and its result is what the policies mean;              *)
(*   - MtaSts: the cache stays consistent and a policy in use is           *)
(*     current;                                                            *)
(*   - MailAuth: a signature passes exactly when what it covers is         *)
(*     unchanged, the verdict is the one the sender's policy asks for, and *)
(*     no row of an aggregate report is lost unnoticed or counted twice.   *)
(***************************************************************************)
EXTENDS Spf, MtaSts, MailAuth, ListTheorems

Frames == [at : Names, fetched : BOOLEAN, left : Seq(TermRecords), redirect : Seq(TermRecords),
           via : {"top", "include", "redirect"}]
People == [ip : Clients, helo : Names, local : Names, sender : Names]

\* A call below another waits for it with its policy fetched, and at the
\* directive that made the call if it was an include.
Waiting(s) ==
    \A i \in 1..(Len(s) - 1) :
        /\ s[i].via # "top"
        /\ s[i + 1].fetched
        /\ s[i].via = "include" => s[i + 1].left # <<>>

StackOK ==
    /\ dns \in Zones /\ id \in People
    /\ stack \in Seq(Frames)
    /\ Waiting(stack)

\* The charges that were within the limit, and the fetch that is charged but
\* not yet made.
Paid == IF lookups <= MAX_LOOKUPS THEN lookups ELSE MAX_LOOKUPS
Owed == IF stack # <<>> /\ ret = Running /\ ~stack[1].fetched THEN 1 ELSE 0

\* A charge beyond a limit ends everything; a charge within pays for what it
\* lets happen, a nested call or the queries of one mechanism.
ChargesOK ==
    /\ lookups \in 0..(MAX_LOOKUPS + 1) /\ void \in 0..(MAX_VOID + 1) /\ queries \in Nat
    /\ ret \in SpfResult \cup {Running}
    /\ Exceeded => ret = "PermError"
    /\ Len(stack) <= Paid + 1
    /\ queries + Owed <= 1 + Paid * (1 + MAX_HOSTS)

SpfInd == StackOK /\ ChargesOK
-----------------------------------------------------------------------------
(* What is read from DNS *)

\* Every name has a node, an absent one the empty node.
LEMMA NodeTyped == ASSUME dns \in Zones, NEW name PROVE Node(name) \in Nodes
<1>1. Empty \in Nodes
  BY EmptySeq DEF Empty, Nodes
<1> QED BY <1>1, SpfAssumption DEF Node

\* The records found are records, and so are their parts.
LEMMA RecordsTyped ==
    ASSUME dns \in Zones, NEW name, NEW i \in 1..Len(SpfRecords(name))
    PROVE  /\ Directives(SpfRecords(name)[i].terms) \in Seq(TermRecords)
           /\ Redirects(SpfRecords(name)[i].terms) \in Seq(TermRecords)
<1> DEFINE R == [spf : BOOLEAN, terms : Seq(TermRecords)]
           all == Node(name).txt
           spf == {t \in Range(all) : t.spf}
           terms == SpfRecords(name)[i].terms
<1>1. all \in Seq(R)
  BY NodeTyped DEF Nodes
<1>2. SpfRecords(name) \in Seq(R \cap spf)
  <2> HIDE DEF R, all, spf
  <2> QED BY <1>1, OnlyTyped DEF SpfRecords, all, spf
<1>3. SpfRecords(name)[i] \in R
  <2> HIDE DEF R, all, spf
  <2>1. SpfRecords(name)[i] \in R \cap spf
    BY <1>2, ElementOfSeq
  <2> QED BY <2>1
<1>4. terms \in Seq(TermRecords)
  BY <1>3
<1> HIDE DEF terms
<1>5. ASSUME NEW T PROVE Only(T, terms) \in Seq(TermRecords)
  <2>1. Only(T, terms) \in Seq(TermRecords \cap T)
    BY <1>4, OnlyTyped
  <2> QED BY <2>1
<1> QED BY <1>5 DEF Directives, Redirects, terms

\* resolve_target() gives a name.
LEMMA ExpandTyped ==
    ASSUME id \in People, NEW spec \in Specs, NEW current \in Names, ~Malformed(spec)
    PROVE  Expand(spec, current) \in Names
<1>1. CASE spec.letter = ""
  BY <1>1 DEF Expand, Specs
<1>2. CASE spec.letter # ""
  <2> DEFINE v == MacroValue(spec.letter, current)
  <2>1. spec.letter \in Macros
    BY <1>2 DEF Malformed
  <2>2. v \in Names
    <3>0. /\ id.local \in Names /\ id.sender \in Names /\ id.helo \in Names
          /\ id.ip.n \in Nat /\ id.ip.v \in Nat
      BY DEF People, Clients
    <3>1. id.ip.n \in Labels /\ id.ip.v \in Labels /\ "unknown" \in Labels
      BY <3>0 DEF Labels
    <3>2. id.local \o id.sender \in Names
      BY <3>0, ConcatProperties DEF Names
    <3>3. <<id.ip.n>> \in Names /\ <<id.ip.v>> \in Names /\ <<"unknown">> \in Names
      BY <3>1 DEF Names
    <3> QED BY <2>1, <3>0, <3>2, <3>3, Zenon DEF MacroValue, Macros
  <2> HIDE DEF v
  <2>3. Reverse(v) \in Names
    BY <2>2 DEF Reverse, Names
  <2>4. Transform(v, spec.reverse, spec.keep) \in Names
    <3> DEFINE parts == IF spec.reverse THEN Reverse(v) ELSE v
    <3>1. parts \in Names
      BY <2>2, <2>3
    <3>2. Transform(v, spec.reverse, spec.keep)
            = IF spec.keep > 0 /\ spec.keep < Len(parts)
                THEN SubSeq(parts, Len(parts) - spec.keep + 1, Len(parts)) ELSE parts
      BY DEF Transform
    <3> HIDE DEF parts
    <3>3. spec.keep \in Nat
      BY DEF Specs
    <3>4. CASE spec.keep > 0 /\ spec.keep < Len(parts)
      BY <3>1, <3>2, <3>3, <3>4 DEF Names
    <3> QED BY <3>1, <3>2, <3>4
  <2>5. spec.rest \in Names
    BY DEF Specs
  <2>6. Expand(spec, current) = Transform(v, spec.reverse, spec.keep) \o spec.rest
    BY <1>2 DEF Expand, v
  <2> QED BY <2>4, <2>5, <2>6, ConcatProperties DEF Names
<1> QED BY <1>1, <1>2
-----------------------------------------------------------------------------
(* What a mechanism costs *)

\* No more than MAX_HOSTS names are looked at.
LEMMA HostsBounded ==
    ASSUME NEW S, NEW s \in Seq(S)
    PROVE  Len(Hosts(s)) \in 0..MAX_HOSTS /\ DOMAIN Hosts(s) = 1..Len(Hosts(s))
<1> DEFINE n == IF Len(s) < MAX_HOSTS THEN Len(s) ELSE MAX_HOSTS
<1>1. Len(s) \in Nat /\ n \in 0..MAX_HOSTS /\ n <= Len(s)
  BY SpfAssumption, LenProperties
<1>2. Hosts(s) = SubSeq(s, 1, n)
  BY DEF Hosts
<1> HIDE DEF n
<1>3. \A i \in 1..n : s[i] \in S
  BY <1>1, ElementOfSeq
<1>4. /\ SubSeq(s, 1, n) \in Seq(S)
      /\ Len(SubSeq(s, 1, n)) = IF 1 <= n THEN n - 1 + 1 ELSE 0
  BY <1>1, <1>3, SubSeqProperties
<1>5. DOMAIN SubSeq(s, 1, n) = 1..Len(SubSeq(s, 1, n))
  BY <1>4, LenProperties
<1> QED BY <1>1, <1>2, <1>4, <1>5

\* The first of the hosts that match is one of them.
LEMMA FirstBounded ==
    ASSUME NEW n \in Nat, NEW S \in SUBSET (1..n), S # {}
    PROVE  First(S) \in 1..n
<1>1. \E i \in S : \A j \in S : i <= j
  BY LeastNat
<1>2. First(S) \in S
  BY <1>1 DEF First
<1> QED BY <1>2

\* One mechanism sends a query of its own and one for each host it looks at.
LEMMA LookupSent ==
    ASSUME dns \in Zones, id \in People, NEW d, d.mech \in {"a", "mx", "exists", "ptr"}, NEW target
    PROVE  Lookup(d, target).sent \in 1..(1 + MAX_HOSTS)
<1> USE SpfAssumption
<1>1. CASE d.mech = "a"
  <2>1. Lookup(d, target) = a_match(d, target)
    BY <1>1, Zenon DEF Lookup
  <2> QED BY <2>1 DEF a_match, Outcome
<1>4. CASE d.mech = "exists"
  <2>1. Lookup(d, target) = exists_match(d, target)
    BY <1>4, Zenon DEF Lookup
  <2>2. PICK m, e : exists_match(d, target) = Outcome(m, e, 1)
    BY Zenon DEF exists_match
  <2>3. Outcome(m, e, 1).sent = 1
    BY DEF Outcome
  <2> QED BY <2>1, <2>2, <2>3
<1>2. CASE d.mech = "mx"
  <2> DEFINE hit == MxHit(target, d.cidr)
             h == Hosts(Node(target).mx)
             n == 1 + IF hit # {} THEN First(hit) ELSE Len(h)
  <2>1. Lookup(d, target).sent = n
    <3>1. Lookup(d, target) = mx_match(d, target)
      BY <1>2, Zenon DEF Lookup
    <3>2. PICK m, e : mx_match(d, target) = Outcome(m, e, n)
      BY Zenon DEF mx_match
    <3>3. Outcome(m, e, n).sent = n
      BY DEF Outcome
    <3> QED BY <3>1, <3>2, <3>3
  <2>2. Len(h) \in 0..MAX_HOSTS /\ DOMAIN h = 1..Len(h)
    BY NodeTyped, HostsBounded DEF Nodes
  <2>3. hit \in SUBSET (1..Len(h))
    BY <2>2 DEF MxHit
  <2> HIDE DEF hit, h
  <2>4. hit # {} => First(hit) \in 1..Len(h)
    BY <2>2, <2>3, FirstBounded
  <2> QED BY <2>1, <2>2, <2>4
<1>3. CASE d.mech = "ptr"
  <2> DEFINE hit == PtrHit(target)
             h == Hosts(id.ip.ptr)
             ended == IF hit # {} THEN First(hit) ELSE Len(h)
             asked == {i \in 1..ended : Within(h[i], target)}
  <2>1. Lookup(d, target).sent = 1 + Cardinality(asked)
    <3>1. Lookup(d, target) = ptr_match(d, target)
      BY <1>3, Zenon DEF Lookup
    <3>2. PICK m, e : ptr_match(d, target) = Outcome(m, e, 1 + Cardinality(asked))
      BY Zenon DEF ptr_match
    <3>3. Outcome(m, e, 1 + Cardinality(asked)).sent = 1 + Cardinality(asked)
      BY DEF Outcome
    <3> QED BY <3>1, <3>2, <3>3
  <2>2. Len(h) \in 0..MAX_HOSTS /\ DOMAIN h = 1..Len(h)
    BY HostsBounded DEF People, Clients
  <2>3. hit \in SUBSET (1..Len(h))
    BY <2>2 DEF PtrHit
  <2> HIDE DEF hit, h
  <2>4. ended \in 0..MAX_HOSTS
    BY <2>2, <2>3, FirstBounded
  <2> HIDE DEF ended
  <2>5. IsFiniteSet(1..ended) /\ Cardinality(1..ended) = ended
    BY <2>4, FS_Interval
  <2>6. asked \in SUBSET (1..ended)
    OBVIOUS
  <2> HIDE DEF asked
  <2>7. Cardinality(asked) \in Nat /\ Cardinality(asked) <= ended
    BY <2>5, <2>6, FS_Subset, FS_CardinalityType
  <2> QED BY <2>1, <2>4, <2>7
<1> QED BY <1>1, <1>2, <1>3, <1>4
-----------------------------------------------------------------------------
(* The steps *)

\* What a charge buys.
LEMMA Budget ==
    ASSUME NEW p \in Nat
    PROVE  /\ p * (1 + MAX_HOSTS) \in Nat
           /\ (p + 1) * (1 + MAX_HOSTS) = p * (1 + MAX_HOSTS) + 1 + MAX_HOSTS
  BY SpfAssumption

\* An evaluation that goes on has exceeded nothing.
LEMMA StillRunning ==
    ASSUME SpfInd, Evaluating
    PROVE  /\ lookups \in 0..MAX_LOOKUPS /\ void \in 0..MAX_VOID /\ Paid = lookups
           /\ Len(stack) \in Nat \ {0} /\ 1 \in 1..Len(stack) /\ Top \in Frames
           /\ DOMAIN stack = 1..Len(stack)
<1>1. lookups <= MAX_LOOKUPS /\ void <= MAX_VOID
  BY SpfAssumption DEF SpfInd, ChargesOK, Exceeded, Evaluating, Running
<1>2. stack \in Seq(Frames) /\ stack # <<>>
  BY DEF SpfInd, StackOK, Evaluating
<1>3. Len(stack) \in Nat \ {0} /\ DOMAIN stack = 1..Len(stack)
  BY <1>2, EmptySeq, LenProperties
<1>4. stack[1] \in Frames
  BY <1>2, <1>3, ElementOfSeq
<1> QED BY <1>1, <1>3, <1>4, SpfAssumption DEF SpfInd, ChargesOK, Paid, Top

\* The current call moves on: the others wait as before.
LEMMA TopMoves ==
    ASSUME NEW s \in Seq(Frames), s # <<>>, Waiting(s), NEW f \in Frames, f.via = s[1].via
    PROVE  /\ [s EXCEPT ![1] = f] \in Seq(Frames)
           /\ Len([s EXCEPT ![1] = f]) = Len(s)
           /\ [s EXCEPT ![1] = f][1] = f
           /\ Waiting([s EXCEPT ![1] = f])
<1> DEFINE t == [s EXCEPT ![1] = f]
<1>1. Len(s) \in Nat \ {0}
  BY EmptySeq
<1>2. /\ t \in Seq(Frames) /\ Len(t) = Len(s)
      /\ \A j \in 1..Len(s) : t[j] = IF j = 1 THEN f ELSE s[j]
  BY <1>1, ExceptSeq
<1> HIDE DEF t
<1>3. Waiting(t)
  <2> SUFFICES ASSUME NEW i \in 1..(Len(s) - 1)
               PROVE  /\ t[i].via # "top" /\ t[i + 1].fetched
                      /\ t[i].via = "include" => t[i + 1].left # <<>>
    BY <1>2 DEF Waiting
  <2>1. t[i + 1] = s[i + 1] /\ t[i].via = s[i].via
    BY <1>1, <1>2
  <2> QED BY <2>1 DEF Waiting
<1> QED BY <1>1, <1>2, <1>3 DEF t

\* The current call goes on to its next directive.
LEMMA AdvanceOK ==
    ASSUME NEW s \in Seq(Frames), s # <<>>, Waiting(s), s[1].left # <<>>
    PROVE  /\ [s EXCEPT ![1].left = Tail(@)] \in Seq(Frames)
           /\ Len([s EXCEPT ![1].left = Tail(@)]) = Len(s)
           /\ [s EXCEPT ![1].left = Tail(@)][1].fetched = s[1].fetched
           /\ Waiting([s EXCEPT ![1].left = Tail(@)])
<1> DEFINE f == [s[1] EXCEPT !.left = Tail(s[1].left)]
<1>1. s[1] \in Frames
  BY EmptySeq, ElementOfSeq
<1>2. Tail(s[1].left) \in Seq(TermRecords)
  BY <1>1, HeadTailProperties DEF Frames
<1>3. f \in Frames /\ f.via = s[1].via /\ f.fetched = s[1].fetched
  BY <1>1, <1>2 DEF Frames
<1>4. [s EXCEPT ![1].left = Tail(@)] = [s EXCEPT ![1] = f]
  OBVIOUS
<1> HIDE DEF f
<1> QED BY <1>3, <1>4, TopMoves

\* The sign of a directive is a result.
LEMMA SignResult ==
    ASSUME NEW t \in TermRecords PROVE Qualifier[t.sign] \in SpfResult
  BY DEF TermRecords, Qualifier, SpfResult

\* A directive is passed over, or it decides.
LEMMA DecideOK ==
    ASSUME SpfInd, Evaluating, Top.fetched, Top.left # <<>>, NEW match, Decide(match)
    PROVE  /\ stack' \in Seq(Frames) /\ Waiting(stack') /\ Len(stack') = Len(stack)
           /\ stack'[1].fetched /\ ret' \in SpfResult \cup {Running}
<1>1. stack \in Seq(Frames) /\ stack # <<>> /\ Waiting(stack) /\ Top = stack[1]
  BY DEF SpfInd, StackOK, Evaluating, Top
<1>2. CASE match
  <2>1. ret' = Qualifier[Head(Top.left).sign] /\ stack' = stack
    BY <1>2 DEF Decide
  <2>2. Head(Top.left) \in TermRecords
    BY StillRunning, HeadTailProperties DEF Frames
  <2> QED BY <1>1, <2>1, <2>2, SignResult
<1>3. CASE ~match
  <2>1. stack' = Advanced /\ ret' = ret
    BY <1>3 DEF Decide
  <2>2. ret \in SpfResult \cup {Running}
    BY DEF SpfInd, ChargesOK
  <2> QED BY <1>1, <2>1, <2>2, AdvanceOK DEF Advanced
<1> QED BY <1>2, <1>3

\* The policy is fetched with the query that was charged for.
LEMMA FetchInd == ASSUME SpfInd, Fetch PROVE SpfInd'
<1> DEFINE found == SpfRecords(Top.at)
<1>1. /\ Evaluating /\ ~Top.fetched /\ queries' = queries + 1
      /\ UNCHANGED <<dns, id, lookups, void>>
  BY DEF Fetch
<1>2. stack \in Seq(Frames) /\ stack # <<>> /\ Waiting(stack) /\ Top = stack[1] /\ ret = Running
  BY <1>1 DEF SpfInd, StackOK, Evaluating, Top
<1>3. /\ stack' \in Seq(Frames) /\ Waiting(stack') /\ Len(stack') = Len(stack)
      /\ ret' = Running => stack'[1].fetched
      /\ ret' \in {Running, "None", "PermError"}
  <2>1. CASE Len(found) = 1 /\ ~Spoilt(found[1].terms)
    <3> DEFINE f == [Top EXCEPT !.fetched = TRUE, !.left = Directives(found[1].terms),
                                !.redirect = Redirects(found[1].terms)]
    <3>1. stack' = [stack EXCEPT ![1] = f] /\ ret' = ret
      BY <2>1, <1>2 DEF Fetch
    <3>2. /\ Directives(found[1].terms) \in Seq(TermRecords)
          /\ Redirects(found[1].terms) \in Seq(TermRecords)
      <4>1. dns \in Zones /\ 1 \in 1..Len(found)
        BY <2>1 DEF SpfInd, StackOK
      <4> QED BY <4>1, RecordsTyped
    <3>3. f \in Frames /\ f.via = Top.via /\ f.fetched = TRUE
      <4>1. Top \in Frames
        BY <1>1, StillRunning
      <4> HIDE DEF found
      <4> QED BY <3>2, <4>1 DEF Frames
    <3> HIDE DEF f
    <3> QED BY <1>2, <3>1, <3>3, TopMoves
  <2>2. CASE ~(Len(found) = 1 /\ ~Spoilt(found[1].terms))
    <3>1. stack' = stack /\ ret' \in {"None", "PermError"}
      BY <2>2 DEF Fetch
    <3> QED BY <1>2, <3>1 DEF Running
  <2> QED BY <2>1, <2>2
<1>4. StackOK'
  BY <1>1, <1>3 DEF SpfInd, StackOK, Waiting
<1>5. Owed = 1 /\ Owed' = 0
  BY <1>1, <1>2, <1>3 DEF Owed
<1>6. ChargesOK'
  <2>1. Paid' = Paid /\ ~Exceeded'
    BY <1>1, StillRunning, SpfAssumption DEF Paid, Exceeded
  <2> QED BY <1>1, <1>3, <1>5, <2>1 DEF SpfInd, ChargesOK, SpfResult
<1> QED BY <1>4, <1>6 DEF SpfInd

\* A mechanism that sends no query.
LEMMA LocalInd == ASSUME SpfInd, MatchLocal PROVE SpfInd'
<1>1. /\ Evaluating /\ Top.fetched /\ Top.left # <<>>
      /\ Decide(Local(Head(Top.left))) /\ UNCHANGED <<dns, id, lookups, void, queries>>
  BY DEF MatchLocal, At
<1>2. /\ stack' \in Seq(Frames) /\ Waiting(stack') /\ Len(stack') = Len(stack)
      /\ stack'[1].fetched /\ ret' \in SpfResult \cup {Running}
  BY <1>1, DecideOK
<1>3. StackOK'
  BY <1>1, <1>2 DEF SpfInd, StackOK, Waiting
<1>4. Owed \in {0, 1} /\ Owed' = 0 /\ Paid' = Paid /\ ~Exceeded'
  BY <1>1, <1>2, StillRunning, SpfAssumption DEF Owed, Paid, Exceeded
<1>5. Paid * (1 + MAX_HOSTS) \in Nat
  BY <1>1, StillRunning, Budget
<1> QED BY <1>1, <1>2, <1>3, <1>4, <1>5 DEF SpfInd, ChargesOK

\* An error ends the evaluation where it is.
LEMMA StopInd ==
    ASSUME SpfInd, Evaluating, Stop, lookups' = lookups + 1,
           void' \in 0..(MAX_VOID + 1), queries' \in Nat,
           UNCHANGED queries \/ (/\ lookups' <= MAX_LOOKUPS
                                 /\ queries' <= queries + 1 + MAX_HOSTS),
           UNCHANGED <<dns, id>>
    PROVE  SpfInd'
<1>1. stack' = stack /\ ret' = "PermError"
  BY DEF Stop
<1>2. StackOK'
  BY <1>1 DEF SpfInd, StackOK, Waiting
<1>3. Owed \in {0, 1} /\ Owed' = 0
  BY <1>1 DEF Owed, Running
<1>4. /\ lookups \in 0..MAX_LOOKUPS /\ Paid = lookups
      /\ Paid' = IF lookups' <= MAX_LOOKUPS THEN lookups + 1 ELSE lookups
  BY StillRunning, SpfAssumption DEF Paid
<1>5. /\ Paid * (1 + MAX_HOSTS) \in Nat
      /\ (Paid + 1) * (1 + MAX_HOSTS) = Paid * (1 + MAX_HOSTS) + 1 + MAX_HOSTS
  BY <1>4, Budget
<1>6. queries + Owed <= 1 + Paid * (1 + MAX_HOSTS) /\ queries \in Nat /\ Len(stack) <= Paid + 1
  BY DEF SpfInd, ChargesOK
<1>7. Len(stack) \in Nat
  BY StillRunning
<1>8. queries' + Owed' <= 1 + Paid' * (1 + MAX_HOSTS) /\ Len(stack') <= Paid' + 1
  <2>1. CASE lookups' <= MAX_LOOKUPS
    <3>1. Paid' = Paid + 1
      BY <1>4, <2>1
    <3> DEFINE p == Paid * (1 + MAX_HOSTS)
               q == Paid' * (1 + MAX_HOSTS)
    <3>2. p \in Nat /\ q = p + 1 + MAX_HOSTS /\ queries + Owed <= 1 + p
      BY <1>5, <1>6, <3>1
    <3> HIDE DEF p, q
    <3>3. queries' + Owed' <= 1 + q
      <4>1. MAX_HOSTS \in Nat /\ queries' \in Nat /\ queries' <= queries + 1 + MAX_HOSTS
        BY <1>6, SpfAssumption
      <4>2. Owed >= 0 /\ Owed \in Nat
        BY <1>3
      <4>3. queries \in Nat /\ queries <= 1 + p
        BY <1>6, <3>2, <4>2
      <4>4. queries' <= 1 + q
        BY <3>2, <4>1, <4>3
      <4> QED BY <1>3, <4>1, <4>4
    <3>4. Len(stack') <= Paid' + 1
      BY <1>1, <1>4, <1>6, <1>7, <3>1
    <3> QED BY <3>3, <3>4 DEF q
  <2>2. CASE ~(lookups' <= MAX_LOOKUPS)
    <3>1. Paid' = Paid /\ queries' = queries
      BY <1>4, <2>2
    <3> QED BY <1>1, <1>3, <1>5, <1>6, <3>1
  <2> QED BY <2>1, <2>2
<1>9. ChargesOK'
  BY <1>1, <1>4, <1>8, SpfAssumption DEF ChargesOK, SpfResult
<1> QED BY <1>2, <1>9 DEF SpfInd

\* A mechanism that sends queries: charged first, and within what that buys.
LEMMA DnsInd == ASSUME SpfInd, MatchDns PROVE SpfInd'
<1> DEFINE d == Head(Top.left)
           out == Lookup(d, Expand(d.spec, Top.at))
<1>1. /\ Evaluating /\ Top.fetched /\ Top.left # <<>> /\ d.mech \in {"a", "mx", "exists", "ptr"}
      /\ lookups' = lookups + 1 /\ UNCHANGED <<dns, id>>
  BY DEF MatchDns, At
<1>2. /\ lookups \in 0..MAX_LOOKUPS /\ void \in 0..MAX_VOID /\ Paid = lookups
      /\ queries \in Nat /\ dns \in Zones /\ id \in People
  BY <1>1, StillRunning DEF SpfInd, ChargesOK, StackOK
<1>3. CASE lookups' > MAX_LOOKUPS \/ Malformed(d.spec)
  <2>1. Stop /\ UNCHANGED <<void, queries>>
    BY <1>3 DEF MatchDns
  <2>2. void' \in 0..(MAX_VOID + 1) /\ queries' \in Nat
    BY <1>2, <2>1, SpfAssumption
  <2> QED BY <1>1, <2>1, <2>2, StopInd
<1>4. CASE ~(lookups' > MAX_LOOKUPS \/ Malformed(d.spec))
  <2>1. /\ queries' = queries + out.sent
        /\ void' = void + IF out.void THEN 1 ELSE 0
        /\ IF void' > MAX_VOID THEN Stop ELSE Decide(out.match)
    BY <1>4 DEF MatchDns
  <2>2. out.sent \in 1..(1 + MAX_HOSTS)
    BY <1>1, <1>2, LookupSent
  <2> HIDE DEF out, d
  <2>3. /\ void' \in 0..(MAX_VOID + 1) /\ queries' \in Nat
        /\ queries' <= queries + 1 + MAX_HOSTS /\ lookups' <= MAX_LOOKUPS
    BY <1>1, <1>2, <1>4, <2>1, <2>2, SpfAssumption
  <2>4. CASE void' > MAX_VOID
    BY <1>1, <2>1, <2>3, <2>4, StopInd
  <2>5. CASE ~(void' > MAX_VOID)
    <3>1. /\ stack' \in Seq(Frames) /\ Waiting(stack') /\ Len(stack') = Len(stack)
          /\ stack'[1].fetched /\ ret' \in SpfResult \cup {Running}
      BY <1>1, <2>1, <2>5, DecideOK
    <3>2. StackOK'
      BY <1>1, <3>1 DEF SpfInd, StackOK, Waiting
    <3>3. Owed \in {0, 1} /\ Owed' = 0 /\ Paid' = Paid + 1 /\ ~Exceeded'
      BY <1>1, <1>2, <2>3, <2>5, <3>1, SpfAssumption DEF Owed, Paid, Exceeded
    <3> DEFINE p == Paid * (1 + MAX_HOSTS)
               q == Paid' * (1 + MAX_HOSTS)
    <3>4. p \in Nat /\ q = p + 1 + MAX_HOSTS
      BY <1>2, <3>3, Budget
    <3>5. queries + Owed <= 1 + p /\ Len(stack) <= Paid + 1 /\ Len(stack) \in Nat
      BY <1>1, StillRunning DEF SpfInd, ChargesOK
    <3> HIDE DEF p, q
    <3>6. queries' + Owed' <= 1 + q
      <4>1. MAX_HOSTS \in Nat /\ queries' \in Nat /\ queries' <= queries + 1 + MAX_HOSTS
        BY <2>3, SpfAssumption
      <4>2. Owed >= 0 /\ Owed \in Nat
        BY <3>3
      <4>3. queries \in Nat /\ queries <= 1 + p
        BY <1>2, <3>4, <3>5, <4>2
      <4>4. queries' <= 1 + q
        BY <3>4, <4>1, <4>3
      <4> QED BY <3>3, <4>1, <4>4
    <3>7. Len(stack') <= Paid' + 1
      BY <1>2, <3>1, <3>3, <3>5
    <3>8. lookups' \in 0..(MAX_LOOKUPS + 1)
      BY <1>1, <1>2, <2>3, SpfAssumption
    <3>9. ChargesOK'
      BY <2>3, <3>1, <3>3, <3>6, <3>7, <3>8 DEF ChargesOK, q
    <3> QED BY <3>2, <3>9 DEF SpfInd
  <2> QED BY <2>4, <2>5
<1> QED BY <1>3, <1>4

\* A nested call is charged before it is made, its fetch with it.
LEMMA EnterInd ==
    ASSUME SpfInd, Evaluating, Top.fetched, NEW spec \in Specs, NEW via \in {"include", "redirect"},
           via = "include" => Top.left # <<>>, Enter(spec, via)
    PROVE  SpfInd'
<1>1. lookups' = lookups + 1 /\ UNCHANGED <<dns, id, void, queries>>
  BY DEF Enter
<1>2. /\ lookups \in 0..MAX_LOOKUPS /\ void \in 0..MAX_VOID /\ Paid = lookups /\ Top \in Frames
      /\ queries \in Nat /\ id \in People /\ Len(stack) \in Nat \ {0}
      /\ stack \in Seq(Frames) /\ Waiting(stack) /\ Top = stack[1] /\ ret = Running
  BY StillRunning DEF SpfInd, ChargesOK, StackOK, Top, Evaluating
<1>3. CASE lookups' > MAX_LOOKUPS \/ Malformed(spec)
  <2>1. Stop
    BY <1>3 DEF Enter
  <2>2. void' \in 0..(MAX_VOID + 1) /\ queries' \in Nat
    BY <1>1, <1>2, SpfAssumption
  <2> QED BY <1>1, <2>1, <2>2, StopInd
<1>4. CASE ~(lookups' > MAX_LOOKUPS \/ Malformed(spec))
  <2> DEFINE f == Call(Expand(spec, Top.at), via)
  <2>1. stack' = <<f>> \o stack /\ ret' = Running
    BY <1>2, <1>4 DEF Enter
  <2>2. f \in Frames /\ f.via = via /\ f.fetched = FALSE
    <3>1. Top.at \in Names
      BY <1>2 DEF Frames
    <3>2. Expand(spec, Top.at) \in Names
      BY <1>2, <1>4, <3>1, ExpandTyped
    <3>3. <<>> \in Seq(TermRecords)
      BY EmptySeq
    <3> QED BY <3>2, <3>3 DEF Call, Frames
  <2> HIDE DEF f
  <2>3. <<f>> \in Seq(Frames) /\ Len(<<f>>) = 1 /\ <<f>>[1] = f
    BY <2>2
  <2>4. /\ stack' \in Seq(Frames) /\ Len(stack') = 1 + Len(stack)
        /\ \A i \in 1..(1 + Len(stack)) : stack'[i] = IF i = 1 THEN f ELSE stack[i - 1]
    <3> DEFINE one == <<f>>
    <3>1. one \in Seq(Frames) /\ Len(one) = 1 /\ one[1] = f
      BY <2>3
    <3> HIDE DEF one
    <3>2. /\ one \o stack \in Seq(Frames)
          /\ Len(one \o stack) = Len(one) + Len(stack)
          /\ \A i \in 1..(Len(one) + Len(stack)) :
                (one \o stack)[i] = IF i <= Len(one) THEN one[i] ELSE stack[i - Len(one)]
      BY <1>2, <3>1, ConcatProperties
    <3>3. stack' = one \o stack
      BY <2>1 DEF one
    <3> QED BY <1>2, <3>1, <3>2, <3>3
  <2>5. Waiting(stack')
    <3> SUFFICES ASSUME NEW i \in 1..Len(stack)
                 PROVE  /\ stack'[i].via # "top" /\ stack'[i + 1].fetched
                        /\ stack'[i].via = "include" => stack'[i + 1].left # <<>>
      BY <1>2, <2>4 DEF Waiting
    <3>1. CASE i = 1
      BY <1>2, <2>2, <2>4, <3>1
    <3>2. CASE i # 1
      <4>1. i - 1 \in 1..(Len(stack) - 1) /\ stack'[i] = stack[i - 1] /\ stack'[i + 1] = stack[(i - 1) + 1]
        BY <1>2, <2>4, <3>2
      <4> QED BY <1>2, <4>1 DEF Waiting
    <3> QED BY <3>1, <3>2
  <2>6. StackOK'
    BY <1>1, <2>4, <2>5 DEF SpfInd, StackOK, Waiting
  <2>7. Owed = 0 /\ Owed' = 1 /\ Paid' = Paid + 1 /\ ~Exceeded' /\ lookups' \in 0..(MAX_LOOKUPS + 1)
    <3>1. Owed = 0
      BY <1>2 DEF Owed
    <3>2. Owed' = 1
      <4>1. stack' # <<>> /\ stack'[1] = f
        BY <1>2, <2>4, EmptySeq
      <4> QED BY <2>1, <2>2, <4>1 DEF Owed
    <3>3. Paid' = Paid + 1 /\ ~Exceeded' /\ lookups' \in 0..(MAX_LOOKUPS + 1)
      BY <1>1, <1>2, <1>4, SpfAssumption DEF Paid, Exceeded
    <3> QED BY <3>1, <3>2, <3>3
  <2> DEFINE p == Paid * (1 + MAX_HOSTS)
             q == Paid' * (1 + MAX_HOSTS)
  <2>8. p \in Nat /\ q = p + 1 + MAX_HOSTS
    BY <1>2, <2>7, Budget
  <2>9. queries + Owed <= 1 + p /\ Len(stack) <= Paid + 1
    BY DEF SpfInd, ChargesOK
  <2> HIDE DEF p, q
  <2>10. queries' + Owed' <= 1 + q
    BY <1>1, <1>2, <2>7, <2>8, <2>9, SpfAssumption
  <2>11. Len(stack') <= Paid' + 1
    BY <1>2, <2>4, <2>7, <2>9
  <2>12. ret' \in SpfResult \cup {Running} /\ void' \in 0..(MAX_VOID + 1) /\ queries' \in Nat
    BY <1>1, <1>2, <2>1, SpfAssumption
  <2>13. ChargesOK'
    BY <2>7, <2>10, <2>11, <2>12 DEF ChargesOK, q
  <2> QED BY <2>6, <2>13 DEF SpfInd
<1> QED BY <1>3, <1>4

\* What include_match() makes of the nested result.
LEMMA IncludeMeans ==
    ASSUME NEW r \in SpfResult
    PROVE  /\ IncludeResult(r) \in {"match", "no", "PermError", "TempError"}
           /\ r = "PermError" => IncludeResult(r) = "PermError"
<1>1. CASE r = "Pass"
  BY <1>1, Zenon DEF IncludeResult
<1>2. CASE r \in {"Fail", "SoftFail", "Neutral"}
  BY <1>2, Zenon DEF IncludeResult
<1>3. CASE r \in {"None", "PermError"}
  BY <1>3, Zenon DEF IncludeResult
<1>4. CASE r = "TempError"
  BY <1>4, Zenon DEF IncludeResult
<1> QED BY <1>1, <1>2, <1>3, <1>4 DEF SpfResult

\* A call returns: the one below has a result, or goes on with what is charged.
LEMMA ReturnInd == ASSUME SpfInd, Return PROVE SpfInd'
<1> DEFINE caller == Tail(stack)
           means == IncludeResult(ret)
<1>1. Len(stack) > 1 /\ ret # Running /\ UNCHANGED <<dns, id, lookups, void, queries>>
  BY DEF Return
<1>2. stack \in Seq(Frames) /\ Waiting(stack) /\ ret \in SpfResult
  BY <1>1 DEF SpfInd, StackOK, ChargesOK
<1>3. Len(stack) \in Nat /\ stack # <<>>
  BY <1>1, <1>2, EmptySeq
<1>4. /\ caller \in Seq(Frames) /\ Len(caller) = Len(stack) - 1
      /\ \A i \in 1..(Len(stack) - 1) : caller[i] = stack[i + 1]
  BY <1>2, <1>3, HeadTailProperties
<1> HIDE DEF caller
<1>5. Waiting(caller) /\ caller # <<>> /\ caller[1] = stack[2] /\ caller[1].fetched
  <2>1. ASSUME NEW i \in 1..(Len(caller) - 1)
        PROVE  /\ caller[i].via # "top" /\ caller[i + 1].fetched
               /\ caller[i].via = "include" => caller[i + 1].left # <<>>
    <3>1. caller[i] = stack[i + 1] /\ caller[i + 1] = stack[(i + 1) + 1] /\ i + 1 \in 1..(Len(stack) - 1)
      BY <1>3, <1>4
    <3> QED BY <1>2, <3>1 DEF Waiting
  <2>2. 1 \in 1..(Len(stack) - 1) /\ caller[1] = stack[1 + 1]
    BY <1>1, <1>3, <1>4
  <2>3. caller # <<>>
    BY <1>1, <1>3, <1>4, EmptySeq
  <2> QED BY <1>2, <2>1, <2>2, <2>3 DEF Waiting
<1>6. caller[1] \in Frames /\ Top \in Frames /\ Top = stack[1]
  BY <1>1, <1>2, <1>3, <1>4, <1>5, ElementOfSeq DEF Top
<1>7. Top.via \in {"include", "redirect"} /\ (Top.via = "include" => caller[1].left # <<>>)
  <2>1. 1 \in 1..(Len(stack) - 1)
    BY <1>1, <1>3
  <2> QED BY <1>2, <1>5, <1>6, <2>1 DEF Waiting, Frames
<1>8. /\ means \in {"match", "no", "PermError", "TempError"}
      /\ ret = "PermError" => means = "PermError"
  BY <1>2, IncludeMeans
<1>9. \/ /\ ret' \in SpfResult /\ stack' = caller
         /\ ret = "PermError" => ret' = "PermError"
      \/ /\ ret' = Running /\ stack' = [caller EXCEPT ![1].left = Tail(@)]
         /\ ret # "PermError" /\ caller[1].left # <<>>
  <2>1. CASE Top.via = "redirect"
    <3>1. ret' = (IF ret = "None" THEN "PermError" ELSE ret) /\ stack' = caller
      BY <2>1, Zenon DEF Return, caller
    <3> QED BY <1>2, <3>1 DEF SpfResult
  <2>2. CASE Top.via = "include" /\ means = "match"
    <3>1. ret' = Qualifier[Head(caller[1].left).sign] /\ stack' = caller
      BY <2>2, Zenon DEF Return, caller
    <3>2. Head(caller[1].left) \in TermRecords
      BY <1>6, <1>7, <2>2, HeadTailProperties DEF Frames
    <3> QED BY <1>8, <2>2, <3>1, <3>2, SignResult
  <2>3. CASE Top.via = "include" /\ means = "no"
    <3>1. ret' = Running /\ stack' = [caller EXCEPT ![1].left = Tail(@)]
      BY <2>3, Zenon DEF Return, caller
    <3> QED BY <1>7, <1>8, <2>3, <3>1
  <2>4. CASE Top.via = "include" /\ means \in {"PermError", "TempError"}
    <3>1. ret' = means /\ stack' = caller
      BY <2>4, Zenon DEF Return, caller
    <3> QED BY <1>8, <2>4, <3>1 DEF SpfResult
  <2> QED BY <1>7, <1>8, <2>1, <2>2, <2>3, <2>4
<1>10. /\ stack' \in Seq(Frames) /\ Waiting(stack') /\ Len(stack') = Len(stack) - 1
       /\ stack'[1].fetched /\ ret' \in SpfResult \cup {Running}
       /\ ret = "PermError" => ret' = "PermError"
  BY <1>4, <1>5, <1>9, AdvanceOK
<1>11. StackOK'
  BY <1>1, <1>10 DEF SpfInd, StackOK, Waiting
<1>12. Owed \in {0, 1} /\ Owed' = 0 /\ Paid' = Paid /\ (Exceeded' => Exceeded)
  BY <1>1, <1>10 DEF Owed, Paid, Exceeded
<1>13. Paid \in Nat /\ Paid * (1 + MAX_HOSTS) \in Nat
  <2>1. Paid \in Nat
    BY SpfAssumption DEF SpfInd, ChargesOK, Paid
  <2> QED BY <2>1, Budget
<1>14. ChargesOK'
  BY <1>1, <1>3, <1>10, <1>12, <1>13 DEF SpfInd, ChargesOK
<1> QED BY <1>11, <1>14 DEF SpfInd

\* The end of a policy without a redirect is neutral.
LEMMA DefaultInd == ASSUME SpfInd, Default PROVE SpfInd'
<1>1. /\ Evaluating /\ ret' = "Neutral" /\ UNCHANGED <<dns, id, stack, lookups, void, queries>>
  BY DEF Default, Exhausted
<1>2. StackOK'
  BY <1>1 DEF SpfInd, StackOK, Waiting
<1>3. Owed \in {0, 1} /\ Owed' = 0 /\ Paid' = Paid /\ ~Exceeded'
  BY <1>1, StillRunning, SpfAssumption DEF Owed, Paid, Exceeded, Running
<1>4. Paid * (1 + MAX_HOSTS) \in Nat
  BY <1>1, StillRunning, Budget
<1> QED BY <1>1, <1>2, <1>3, <1>4 DEF SpfInd, ChargesOK, SpfResult
-----------------------------------------------------------------------------
(* The theorem *)

\* One call at most at first, and its fetch is not charged.
LEMMA SpfInitInd == Init => SpfInd
<1> SUFFICES ASSUME Init PROVE SpfInd
  OBVIOUS
<1>1. id \in People
  <2>1. PICK i \in Identities :
            id = IF i.sender = <<>> THEN [i EXCEPT !.local = <<"postmaster">>, !.sender = i.helo] ELSE i
    BY DEF Init
  <2>2. i \in People
    BY SpfAssumption DEF People
  <2>3. <<"postmaster">> \in Names
    <3>1. "postmaster" \in Labels
      BY DEF Labels
    <3> QED BY <3>1 DEF Names
  <2> QED BY <2>1, <2>2, <2>3 DEF People
<1>2. /\ dns \in Zones /\ lookups = 0 /\ void = 0 /\ queries = 0
      /\ stack = IF id.sender = <<>> THEN <<>> ELSE <<Call(id.sender, "top")>>
      /\ ret = IF id.sender = <<>> THEN "None" ELSE Running
  BY Zenon DEF Init
<1>3. CASE id.sender = <<>>
  <2>1. stack = <<>> /\ ret = "None" /\ Len(stack) = 0 /\ stack \in Seq(Frames)
    BY <1>2, <1>3, EmptySeq
  <2>2. StackOK
    BY <1>1, <1>2, <2>1 DEF StackOK, Waiting
  <2>3. Owed = 0 /\ Paid = 0 /\ ~Exceeded
    BY <1>2, <2>1, SpfAssumption DEF Owed, Paid, Exceeded, Running
  <2>4. ChargesOK
    BY <1>2, <2>1, <2>3, SpfAssumption DEF ChargesOK, SpfResult
  <2> QED BY <2>2, <2>4 DEF SpfInd
<1>4. CASE id.sender # <<>>
  <2>1. stack = <<Call(id.sender, "top")>> /\ ret = Running
    BY <1>2, <1>4
  <2>2. Call(id.sender, "top") \in Frames
    <3>1. <<>> \in Seq(TermRecords) /\ id.sender \in Names
      BY <1>1, EmptySeq DEF People
    <3> QED BY <3>1 DEF Call, Frames
  <2>3. stack \in Seq(Frames) /\ Len(stack) = 1
    BY <2>1, <2>2
  <2>4. StackOK
    BY <1>1, <1>2, <2>1, <2>3 DEF StackOK, Waiting
  <2>5. Owed \in {0, 1} /\ Paid = 0 /\ ~Exceeded
    BY <1>2, <2>1, SpfAssumption DEF Owed, Paid, Exceeded
  <2>6. ChargesOK
    BY <1>2, <2>1, <2>3, <2>5, SpfAssumption DEF ChargesOK
  <2> QED BY <2>4, <2>6 DEF SpfInd
<1> QED BY <1>3, <1>4

\* Every step of check_host() keeps the invariant.
LEMMA SpfNextInd == SpfInd /\ [Next]_vars => SpfInd'
<1> SUFFICES ASSUME SpfInd, [Next]_vars PROVE SpfInd'
  OBVIOUS
<1>1. CASE Include
  <2>1. Evaluating /\ Top.fetched /\ Top.left # <<>> /\ Enter(Head(Top.left).spec, "include")
    BY <1>1 DEF Include, At
  <2>2. Head(Top.left) \in TermRecords
    BY <2>1, StillRunning, HeadTailProperties DEF Frames
  <2>3. Head(Top.left).spec \in Specs
    BY <2>2 DEF TermRecords
  <2> QED BY <2>1, <2>3, EnterInd
<1>2. CASE Redirect
  <2>1. Evaluating /\ Top.fetched /\ Top.redirect # <<>> /\ Enter(Last(Top.redirect).spec, "redirect")
    BY <1>2 DEF Redirect, Exhausted
  <2>2. Last(Top.redirect) \in TermRecords
    <3>1. Top.redirect \in Seq(TermRecords)
      BY <2>1, StillRunning DEF Frames
    <3>2. Len(Top.redirect) \in 1..Len(Top.redirect)
      BY <2>1, <3>1, EmptySeq
    <3> QED BY <3>1, <3>2, ElementOfSeq DEF Last
  <2>3. Last(Top.redirect).spec \in Specs
    BY <2>2 DEF TermRecords
  <2> QED BY <2>1, <2>3, EnterInd
<1>3. CASE UNCHANGED vars
  BY <1>3 DEF vars, SpfInd, StackOK, Waiting, ChargesOK, Owed, Paid, Exceeded
<1> QED BY <1>1, <1>2, <1>3, FetchInd, LocalInd, DnsInd, DefaultInd, ReturnInd DEF Next

\* Whatever the policies of strangers say, however they nest or include each
\* other, one message costs no more than its charges (charge_lookup,
\* charge_void) allow: the calls nest at most MAX_LOOKUPS deep, and at most
\* 1 + MAX_LOOKUPS * (1 + MAX_HOSTS) queries are sent.
THEOREM QueriesAreBounded == Spec => []QueriesBounded
<1>1. SpfInd => QueriesBounded
  <2> SUFFICES ASSUME SpfInd PROVE QueriesBounded
    OBVIOUS
  <2>1. Paid \in 0..MAX_LOOKUPS /\ Owed \in {0, 1} /\ Len(stack) \in Nat
    BY SpfAssumption, LenProperties DEF SpfInd, StackOK, ChargesOK, Paid, Owed
  <2>2. Paid * (1 + MAX_HOSTS) <= MAX_LOOKUPS * (1 + MAX_HOSTS)
        /\ Paid * (1 + MAX_HOSTS) \in Nat /\ MAX_LOOKUPS * (1 + MAX_HOSTS) \in Nat
    BY <2>1, SpfAssumption
  <2>3. queries <= 1 + MAX_LOOKUPS * (1 + MAX_HOSTS)
    <3> DEFINE p == Paid * (1 + MAX_HOSTS)
               q == MAX_LOOKUPS * (1 + MAX_HOSTS)
    <3>1. p \in Nat /\ q \in Nat /\ p <= q
      BY <2>2
    <3>2. queries \in Nat /\ queries + Owed <= 1 + p
      BY DEF SpfInd, ChargesOK
    <3> HIDE DEF p, q
    <3>3. queries <= 1 + q
      BY <2>1, <3>1, <3>2
    <3> QED BY <3>3 DEF q
  <2>4. TypeOK
    BY <2>1, SpfAssumption DEF SpfInd, ChargesOK, TypeOK
  <2> QED BY <2>3, <2>4 DEF QueriesBounded
<1> QED BY <1>1, SpfInitInd, SpfNextInd, PTL DEF Spec
-----------------------------------------------------------------------------
(* SPF: what a policy means.  The evaluation is followed against the reference *)
(* as it goes: SpfInd keeps it in bounds, ReadInd says how much of the meaning *)
(* of its policy every call under way has already settled.                     *)

\* What a policy means to a reader who goes down at most k policies.
Means(k, name) == IF name \in DOMAIN dns THEN Meaning[k][name] ELSE "None"

\* How many policies the i-th call from the top may go down.
Depth(s, i) == MAX_LOOKUPS + 2 - (Len(s) - i)

Terms(name) == SpfRecords(name)[1].terms
Sound(name) == Len(SpfRecords(name)) = 1 /\ ~Spoilt(Terms(name))
Decides(under, d, name) == Errs(under, d, name) \/ Hits(under, d, name)

\* The call f has its redirect and what is left of its directives, and none of
\* those it passed decides.
Reading(f, under) ==
    LET ds == Directives(Terms(f.at))
        p  == Len(ds) - Len(f.left)
    IN /\ Sound(f.at)
       /\ f.redirect = Redirects(Terms(f.at))
       /\ p \in 0..Len(ds)
       /\ \A q \in 1..Len(f.left) : f.left[q] = ds[p + q]
       /\ \A q \in 1..p : ~Decides(under, ds[q], f.at)

\* The call g was made by f: by the directive it is at, or by its redirect.
Asked(f, g) ==
    \/ /\ g.via = "include" /\ f.left # <<>> /\ f.left[1].mech = "include"
       /\ ~Malformed(f.left[1].spec) /\ g.at = Expand(f.left[1].spec, f.at)
    \/ /\ g.via = "redirect" /\ f.left = <<>> /\ f.redirect # <<>>
       /\ ~Malformed(Last(f.redirect).spec) /\ g.at = Expand(Last(f.redirect).spec, f.at)

\* Every call under way has read its policy as far as it says, and was made by
\* the one below it.
CallsOK(s) ==
    /\ \A i \in 1..Len(s) : s[i].fetched => Reading(s[i], Meaning[Depth(s, i) - 1])
    /\ \A i \in 1..(Len(s) - 1) : Asked(s[i + 1], s[i])

\* The first call is about the sender; what a call returned is what its policy
\* means, unless a limit was exceeded.
SenderOK ==
    IF stack = <<>> THEN id.sender = <<>> /\ ret = "None" /\ ~Exceeded
    ELSE id.sender # <<>> /\ stack[Len(stack)].at = id.sender
AnswerOK ==
    (stack # <<>> /\ ret # Running /\ ~Exceeded) => ret = Means(Depth(stack, 1), stack[1].at)
ReadInd == CallsOK(stack) /\ SenderOK /\ AnswerOK

\* What a mechanism, a reference or a policy means depends on DNS and on the
\* identity alone, and no step of check_host() changes these.
LEMMA DnsFrame ==
    ASSUME UNCHANGED <<dns, id>>
    PROVE  /\ \A n : SpfRecords(n)' = SpfRecords(n)
           /\ \A spec, n : Expand(spec, n)' = Expand(spec, n)
           /\ \A u, d, n : Hits(u, d, n)' = Hits(u, d, n)
           /\ \A u, d, n : Errs(u, d, n)' = Errs(u, d, n)
           /\ Meaning' = Meaning
<1>1. \A n : Node(n)' = Node(n)
  BY DEF Node
<1>2. \A net, c : InNet(net, c)' = InNet(net, c)
  BY DEF InNet
<1>3. \A spec, n : Expand(spec, n)' = Expand(spec, n)
  <2>1. \A l, n : MacroValue(l, n)' = MacroValue(l, n)
    BY Zenon DEF MacroValue
  <2> QED BY <2>1 DEF Expand
<1>4. \A n : SpfRecords(n)' = SpfRecords(n)
  BY <1>1 DEF SpfRecords
<1>5. \A d, n : Lookup(d, n)' = Lookup(d, n)
  <2>1. \A d, n : a_match(d, n)' = a_match(d, n)
    <3>1. \A d, n : (\E net \in Node(n).a : InNet(net, d.cidr))' = (\E net \in Node(n).a : InNet(net, d.cidr))
      BY <1>1, <1>2
    <3>2. \A n : (Node(n).a = {})' = (Node(n).a = {})
      BY <1>1
    <3> QED BY <3>1, <3>2, Zenon DEF a_match
  <2>2. \A d, n : mx_match(d, n)' = mx_match(d, n)
    <3>1. \A n, c : MxHit(n, c)' = MxHit(n, c)
      BY <1>1, <1>2 DEF MxHit
    <3> QED BY <1>1, <3>1 DEF mx_match
  <2>3. \A d, n : exists_match(d, n)' = exists_match(d, n)
    BY <1>1 DEF exists_match
  <2>4. \A d, n : ptr_match(d, n)' = ptr_match(d, n)
    <3>1. \A n : PtrHit(n)' = PtrHit(n)
      BY <1>1, <1>2 DEF PtrHit
    <3> QED BY <3>1 DEF ptr_match
  <2> QED BY <2>1, <2>2, <2>3, <2>4, Zenon DEF Lookup
<1>6. \A d : Local(d)' = Local(d)
  BY <1>2 DEF Local
<1>7. \A u, spec, n : Nested(u, spec, n)' = Nested(u, spec, n)
  BY <1>3 DEF Nested
<1>8. \A u, d, n : Hits(u, d, n)' = Hits(u, d, n)
  BY <1>3, <1>5, <1>6, <1>7 DEF Hits
<1>9. \A u, d, n : Errs(u, d, n)' = Errs(u, d, n)
  BY <1>7 DEF Errs
<1>10. ASSUME NEW CONSTANT u, NEW CONSTANT n PROVE Reads(u, n)' = Reads(u, n)
  <2> DEFINE ds == Directives(SpfRecords(n)[1].terms)
             deciding == {i \in DOMAIN ds : Errs(u, ds[i], n) \/ Hits(u, ds[i], n)}
  <2>1. ds' = ds
    BY <1>4
  <2>2. deciding' = deciding
    BY <1>8, <1>9, <2>1
  <2> HIDE DEF ds, deciding
  <2>3. (Errs(u, ds[First(deciding)], n))' = Errs(u, ds[First(deciding)], n)
    BY <1>9, <2>1, <2>2
  <2> QED BY <1>4, <1>7, <2>1, <2>2, <2>3 DEF Reads, ds, deciding
<1>11. Meaning' = Meaning
  BY <1>10 DEF Meaning
<1> QED BY <1>3, <1>4, <1>8, <1>9, <1>11

\* Solutions of the equation of Meaning, for the first n depths.
Solves(f, n) ==
    f = [k \in 0..n |-> [name \in DOMAIN dns |-> IF k = 0 THEN "PermError" ELSE Reads(f[k - 1], name)]]

\* Each solution can be taken one depth further.
LEMMA SolvesMore == ASSUME NEW n \in Nat, NEW f, Solves(f, n) PROVE \E g : Solves(g, n + 1)
<1> DEFINE Lev(h, k) == [name \in DOMAIN dns |-> IF k = 0 THEN "PermError" ELSE Reads(h[k - 1], name)]
           g == [k \in 0..(n + 1) |-> IF k = n + 1 THEN Lev(f, n + 1) ELSE f[k]]
<1>1. f = [k \in 0..n |-> Lev(f, k)]
  BY DEF Solves
<1>2. \A k \in 0..n : f[k] = Lev(f, k)
  BY <1>1, Zenon
<1>3. ASSUME NEW k \in 0..(n + 1) PROVE g[k] = Lev(g, k)
  <2>1. k # 0 => k - 1 \in 0..n /\ k - 1 \in 0..(n + 1) /\ k - 1 # n + 1
    OBVIOUS
  <2>2. k # 0 => g[k - 1] = f[k - 1]
    BY <2>1
  <2>3. Lev(g, k) = Lev(f, k)
    <3> HIDE DEF g
    <3> QED BY <2>2
  <2>4. CASE k = n + 1
    <3>1. g[k] = Lev(f, k)
      BY <2>4
    <3> QED BY <2>3, <3>1, Zenon
  <2>5. CASE k # n + 1
    <3>1. k \in 0..n
      BY <2>5
    <3>2. g[k] = f[k]
      BY <2>5
    <3> QED BY <1>2, <2>3, <3>1, <3>2, Zenon
  <2> QED BY <2>4, <2>5
<1>4. g = [k \in 0..(n + 1) |-> g[k]]
  OBVIOUS
<1> HIDE DEF g
<1>5. g = [k \in 0..(n + 1) |-> Lev(g, k)]
  <2>1. [k \in 0..(n + 1) |-> g[k]] = [k \in 0..(n + 1) |-> Lev(g, k)]
    <3> HIDE DEF Lev
    <3> QED BY <1>3
  <2> QED BY <1>4, <2>1, Zenon
<1> QED BY <1>5, Zenon DEF Solves

\* The recursion has a solution, and Meaning is one.
LEMMA MeaningIs ==
    \A k \in Depths : Meaning[k] = [name \in DOMAIN dns |-> IF k = 0 THEN "PermError" ELSE Reads(Meaning[k - 1], name)]
<1> DEFINE Bad == {n \in Nat : ~ \E f : Solves(f, n)}
           m == MAX_LOOKUPS + 2
<1>1. ASSUME Bad # {} PROVE FALSE
  <2>1. PICK n \in Bad : \A j \in Bad : n <= j
    BY <1>1, LeastNat
  <2>2. n # 0
    <3> DEFINE none == [name \in DOMAIN dns |-> "PermError"]
               z == [k \in 0..0 |-> none]
    <3>1. z = [k \in 0..0 |-> [name \in DOMAIN dns |-> IF k = 0 THEN "PermError" ELSE Reads(z[k - 1], name)]]
      <4>1. \A k \in 0..0 : none = [name \in DOMAIN dns |-> IF k = 0 THEN "PermError" ELSE Reads(z[k - 1], name)]
        <5> HIDE DEF z
        <5> QED OBVIOUS
      <4> HIDE DEF none
      <4> DEFINE L(k) == [name \in DOMAIN dns |-> IF k = 0 THEN "PermError" ELSE Reads(z[k - 1], name)]
      <4>2. \A k \in 0..0 : none = L(k)
        BY <4>1
      <4> HIDE DEF L
      <4>3. z = [k \in 0..0 |-> L(k)]
        BY <4>2
      <4> QED BY <4>3 DEF L
    <3>2. Solves(z, 0)
      <4> HIDE DEF z
      <4> QED BY <3>1 DEF Solves
    <3> QED BY <3>2
  <2>3. n - 1 \in Nat /\ n - 1 \notin Bad /\ (n - 1) + 1 = n
    BY <2>1, <2>2
  <2>4. PICK f : Solves(f, n - 1)
    BY <2>3
  <2>5. \E g : Solves(g, n)
    BY <2>3, <2>4, SolvesMore
  <2> QED BY <2>1, <2>5
<1>2. m \in Nat
  BY SpfAssumption
<1>3. \E f : Solves(f, m)
  BY <1>1, <1>2
<1>4. Meaning = CHOOSE f : f = [k \in Depths |-> [name \in DOMAIN dns |-> IF k = 0 THEN "PermError" ELSE Reads(f[k - 1], name)]]
  BY Zenon DEF Meaning
<1>5. Meaning = [k \in Depths |-> [name \in DOMAIN dns |-> IF k = 0 THEN "PermError" ELSE Reads(Meaning[k - 1], name)]]
  BY <1>3, <1>4, Zenon DEF Solves, Depths
<1> QED BY <1>5, Zenon

\* The parts of a sound policy.
LEMMA SoundParts ==
    ASSUME dns \in Zones, NEW name, Sound(name)
    PROVE  /\ Directives(Terms(name)) \in Seq(TermRecords)
           /\ Redirects(Terms(name)) \in Seq(TermRecords)
<1>1. 1 \in 1..Len(SpfRecords(name))
  BY DEF Sound
<1> QED BY <1>1, RecordsTyped DEF Terms

\* A name has a list of policies.
LEMMA RecordsListed ==
    ASSUME dns \in Zones, NEW name
    PROVE  Len(SpfRecords(name)) \in Nat /\ (Len(SpfRecords(name)) = 0 <=> SpfRecords(name) = <<>>)
<1> DEFINE R == [spf : BOOLEAN, terms : Seq(TermRecords)]
           all == Node(name).txt
           spf == {t \in Range(all) : t.spf}
<1>1. all \in Seq(R)
  BY NodeTyped DEF Nodes
<1>2. SpfRecords(name) \in Seq(R \cap spf)
  <2> HIDE DEF R, all, spf
  <2> QED BY <1>1, OnlyTyped DEF SpfRecords, all, spf
<1> HIDE DEF R, all, spf
<1> QED BY <1>2, EmptySeq, LenProperties

\* A name without a sound policy means nothing or an error.
LEMMA ReadsUnsound ==
    ASSUME dns \in Zones, NEW u, NEW name, ~Sound(name)
    PROVE  Reads(u, name) = IF SpfRecords(name) = <<>> THEN "None" ELSE "PermError"
<1>1. SpfRecords(name) # <<>> => Len(SpfRecords(name)) > 1 \/ Spoilt(SpfRecords(name)[1].terms)
  <2>1. Len(SpfRecords(name)) = 1 => Spoilt(SpfRecords(name)[1].terms)
    BY Zenon DEF Sound, Terms
  <2>2. SpfRecords(name) # <<>> => Len(SpfRecords(name)) = 1 \/ Len(SpfRecords(name)) > 1
    <3>1. Len(SpfRecords(name)) \in Nat /\ (SpfRecords(name) # <<>> => Len(SpfRecords(name)) # 0)
      BY RecordsListed, Zenon
    <3>2. \A n \in Nat : n # 0 => n = 1 \/ n > 1
      OBVIOUS
    <3> QED BY <3>1, <3>2, Zenon
  <2> QED BY <2>1, <2>2, Zenon
<1> QED BY <1>1, Zenon DEF Reads

\* Of the directives the first that decides counts, and the redirect if none does.
LEMMA ReadsSound ==
    ASSUME dns \in Zones, NEW u, NEW name, Sound(name), NEW ds, ds = Directives(Terms(name)),
           NEW p \in Nat, p <= Len(ds), \A q \in 1..p : ~Decides(u, ds[q], name)
    PROVE  /\ p < Len(ds) /\ Errs(u, ds[p + 1], name) => Reads(u, name) = "PermError"
           /\ p < Len(ds) /\ ~Errs(u, ds[p + 1], name) /\ Hits(u, ds[p + 1], name)
                => Reads(u, name) = Qualifier[ds[p + 1].sign]
           /\ p = Len(ds) /\ Redirects(Terms(name)) = <<>> => Reads(u, name) = "Neutral"
           /\ p = Len(ds) /\ Redirects(Terms(name)) # <<>>
                => Reads(u, name) = LET r == Nested(u, Last(Redirects(Terms(name))).spec, name)
                                    IN IF r = "None" THEN "PermError" ELSE r
<1> DEFINE on == Redirects(Terms(name))
           deciding == {i \in DOMAIN ds : Errs(u, ds[i], name) \/ Hits(u, ds[i], name)}
           r == Nested(u, Last(on).spec, name)
<1>1. SpfRecords(name) # <<>> /\ ~(Len(SpfRecords(name)) > 1 \/ Spoilt(Terms(name)))
  <2>1. Len(SpfRecords(name)) = 1 /\ ~Spoilt(Terms(name))
    BY Zenon DEF Sound
  <2>2. SpfRecords(name) # <<>> /\ ~(Len(SpfRecords(name)) > 1)
    BY <2>1, RecordsListed
  <2> QED BY <2>1, <2>2, Zenon
<1>2. Reads(u, name) =
          IF deciding # {}
            THEN LET d == ds[First(deciding)] IN IF Errs(u, d, name) THEN "PermError" ELSE Qualifier[d.sign]
          ELSE IF on = <<>> THEN "Neutral" ELSE IF r = "None" THEN "PermError" ELSE r
  BY <1>1, Zenon DEF Reads, Terms
<1>3. ds \in Seq(TermRecords)
  BY SoundParts
<1>4. Len(ds) \in Nat /\ DOMAIN ds = 1..Len(ds)
  BY <1>3, LenProperties
<1>5. \A i \in deciding : i \in 1..Len(ds) /\ i > p
  BY <1>4 DEF Decides
<1>6. p = Len(ds) => deciding = {}
  <2> HIDE DEF deciding
  <2> QED BY <1>4, <1>5
<1>7. ASSUME p < Len(ds), Decides(u, ds[p + 1], name) PROVE deciding # {} /\ First(deciding) = p + 1
  <2>1. p + 1 \in deciding
    BY <1>4, <1>7 DEF Decides
  <2> HIDE DEF deciding
  <2>2. \A j \in deciding : p + 1 <= j
    BY <1>5
  <2>3. \A i \in deciding : (\A j \in deciding : i <= j) => i = p + 1
    BY <1>5, <2>1, <2>2
  <2> QED BY <2>1, <2>2, <2>3 DEF First
<1> HIDE DEF on, deciding, r
<1>8. p < Len(ds) /\ Errs(u, ds[p + 1], name) => Reads(u, name) = "PermError"
  BY <1>2, <1>7, Zenon DEF Decides
<1>9. p < Len(ds) /\ ~Errs(u, ds[p + 1], name) /\ Hits(u, ds[p + 1], name)
        => Reads(u, name) = Qualifier[ds[p + 1].sign]
  BY <1>2, <1>7, Zenon DEF Decides
<1>10. p = Len(ds) => Reads(u, name) = IF on = <<>> THEN "Neutral" ELSE IF r = "None" THEN "PermError" ELSE r
  BY <1>2, <1>6, Zenon
<1> QED BY <1>8, <1>9, <1>10, Zenon DEF on, r

Verdicts == SpfResult \ {"TempError"}

\* A policy means an answer if those it refers to do.
LEMMA ReadsTyped ==
    ASSUME dns \in Zones, NEW u, \A n \in DOMAIN dns : u[n] \in Verdicts, NEW name
    PROVE  Reads(u, name) \in Verdicts
<1>0. {"None", "PermError", "Neutral"} \subseteq Verdicts
  BY DEF Verdicts, SpfResult
<1>1. CASE ~Sound(name)
  BY <1>0, <1>1, ReadsUnsound, Zenon
<1>2. CASE Sound(name)
  <2> DEFINE ds == Directives(Terms(name))
             D == {i \in 1..Len(ds) : Decides(u, ds[i], name)}
             on == Redirects(Terms(name))
             r == Nested(u, Last(on).spec, name)
  <2>1. ds \in Seq(TermRecords)
    BY <1>2, SoundParts
  <2>2. Len(ds) \in Nat
    BY <2>1, LenProperties
  <2>3. r \in Verdicts
    BY <1>0 DEF Nested
  <2> HIDE DEF ds, on, r
  <2>4. CASE D = {}
    <3>1. \A q \in 1..Len(ds) : ~Decides(u, ds[q], name)
      BY <2>4
    <3> HIDE DEF D
    <3>2. Reads(u, name) = "Neutral" \/ Reads(u, name) = IF r = "None" THEN "PermError" ELSE r
      <4>1. /\ on = <<>> => Reads(u, name) = "Neutral"
            /\ on # <<>> => Reads(u, name) = LET v == Nested(u, Last(on).spec, name)
                                             IN IF v = "None" THEN "PermError" ELSE v
        <5>1. ds = Directives(Terms(name)) /\ on = Redirects(Terms(name)) /\ Len(ds) <= Len(ds)
          BY <2>2 DEF ds, on
        <5> QED BY <1>2, <2>2, <3>1, <5>1, ReadsSound
      <4> QED BY <4>1, Zenon DEF r
    <3> QED BY <1>0, <2>3, <3>2, Zenon
  <2>5. CASE D # {}
    <3>1. PICK i \in D : \A j \in D : i <= j
      <4>1. D \in SUBSET Nat
        OBVIOUS
      <4> QED BY <2>5, <4>1, LeastNat
    <3>2. i - 1 \in Nat /\ i - 1 < Len(ds) /\ (i - 1) + 1 = i /\ Decides(u, ds[i], name) /\ i \in 1..Len(ds)
      BY <2>2
    <3>3. \A q \in 1..(i - 1) : ~Decides(u, ds[q], name)
      BY <2>2, <3>1, <3>2
    <3> HIDE DEF D
    <3>4. Reads(u, name) = "PermError" \/ Reads(u, name) = Qualifier[ds[i].sign]
      <4>1. ds = Directives(Terms(name)) /\ i - 1 <= Len(ds)
        BY <2>2, <3>2 DEF ds
      <4>2. /\ Errs(u, ds[i], name) => Reads(u, name) = "PermError"
            /\ ~Errs(u, ds[i], name) /\ Hits(u, ds[i], name) => Reads(u, name) = Qualifier[ds[i].sign]
        BY <1>2, <3>2, <3>3, <4>1, ReadsSound
      <4> QED BY <3>2, <4>2 DEF Decides
    <3>5. ds[i] \in TermRecords
      BY <2>1, <3>2, ElementOfSeq
    <3>6. Qualifier[ds[i].sign] \in Verdicts
      BY <3>5 DEF TermRecords, Qualifier, SpfResult, Verdicts
    <3> QED BY <1>0, <3>4, <3>6
  <2> QED BY <2>4, <2>5
<1> QED BY <1>1, <1>2

\* Meaning gives answers; a policy means what it reads with the depth below, and
\* what it refers to means what it does at that depth.
LEMMA MeansIs ==
    ASSUME dns \in Zones, NEW k \in Depths
    PROVE  /\ \A n : Means(k, n) \in Verdicts
           /\ k # 0 => \A n : Means(k, n) = Reads(Meaning[k - 1], n)
           /\ \A spec, n : Nested(Meaning[k], spec, n)
                             = IF Malformed(spec) THEN "PermError" ELSE Means(k, Expand(spec, n))
<1>0. {"None", "PermError"} \subseteq Verdicts
  BY DEF Verdicts, SpfResult
<1> DEFINE Bad == {j \in Depths : ~ \A n \in DOMAIN dns : Meaning[j][n] \in Verdicts}
<1>1. Depths \subseteq Nat /\ \A j \in Depths : j # 0 => j - 1 \in Depths
  BY SpfAssumption DEF Depths
<1>2. ASSUME Bad # {} PROVE FALSE
  <2>1. PICK j \in Bad : \A i \in Bad : j <= i
    BY <1>1, <1>2, LeastNat
  <2>2. PICK n \in DOMAIN dns : Meaning[j][n] \notin Verdicts
    BY <2>1
  <2>3. j # 0 /\ Meaning[j][n] = Reads(Meaning[j - 1], n)
    <3>1. Meaning[j][n] = IF j = 0 THEN "PermError" ELSE Reads(Meaning[j - 1], n)
      BY <2>1, <2>2, MeaningIs
    <3> QED BY <1>0, <2>2, <3>1
  <2>4. j - 1 \in Depths /\ ~(j <= j - 1)
    BY <1>1, <2>1, <2>3
  <2>5. \A i \in DOMAIN dns : Meaning[j - 1][i] \in Verdicts
    BY <2>1, <2>4
  <2>6. Reads(Meaning[j - 1], n) \in Verdicts
    BY <2>5, ReadsTyped
  <2> QED BY <2>2, <2>3, <2>6
<1>3. \A n \in DOMAIN dns : Meaning[k][n] \in Verdicts
  BY <1>2
<1> HIDE DEF Bad
<1>4. \A n : Means(k, n) \in Verdicts
  BY <1>0, <1>3 DEF Means
<1>5. ASSUME k # 0, NEW n PROVE Means(k, n) = Reads(Meaning[k - 1], n)
  <2>1. CASE n \in DOMAIN dns
    BY <1>5, <2>1, MeaningIs DEF Means
  <2>2. CASE n \notin DOMAIN dns
    <3>1. Node(n).txt = <<>>
      BY <2>2 DEF Node, Empty
    <3>2. SpfRecords(n) = <<>>
      <4>1. <<>> \in Seq({})
        BY EmptySeq
      <4>2. SpfRecords(n) \in Seq({} \cap {t \in Range(Node(n).txt) : t.spf})
        BY <3>1, <4>1, OnlyTyped DEF SpfRecords
      <4>3. {} \cap {t \in Range(Node(n).txt) : t.spf} = {}
        OBVIOUS
      <4>4. SpfRecords(n) \in Seq({})
        BY <4>2, <4>3
      <4> QED BY <4>4
    <3>3. ~Sound(n)
      BY <3>2, RecordsListed DEF Sound
    <3> QED BY <2>2, <3>2, <3>3, ReadsUnsound, Zenon DEF Means
  <2> QED BY <2>1, <2>2
<1>6. ASSUME NEW spec, NEW n
      PROVE Nested(Meaning[k], spec, n) = IF Malformed(spec) THEN "PermError" ELSE Means(k, Expand(spec, n))
  BY DEF Nested, Means
<1> QED BY <1>4, <1>5, <1>6

-----------------------------------------------------------------------------
(* SPF: check_host() against the reference *)

\* The frame: what a name means depends on DNS and the identity only.
LEMMA MeansFrame ==
    ASSUME UNCHANGED <<dns, id>>
    PROVE  /\ \A k, n : Means(k, n)' = Means(k, n)
           /\ \A s : CallsOK(s)' <=> CallsOK(s)
<1>1. Meaning' = Meaning
  BY DnsFrame
<1>2. \A k, n : Means(k, n)' = Means(k, n)
  BY <1>1 DEF Means
<1>3. \A n : Terms(n)' = Terms(n)
  BY DnsFrame DEF Terms
<1>4. \A n : Sound(n)' <=> Sound(n)
  BY <1>3, DnsFrame DEF Sound
<1>5. \A u, d, n : Decides(u, d, n)' <=> Decides(u, d, n)
  BY DnsFrame DEF Decides
<1>6. \A f, u : Reading(f, u)' <=> Reading(f, u)
  BY <1>3, <1>4, <1>5 DEF Reading
<1>7. \A f, g : Asked(f, g)' <=> Asked(f, g)
  BY DnsFrame DEF Asked
<1>8. \A s, i : Reading(s[i], Meaning[Depth(s, i) - 1])' <=> Reading(s[i], Meaning[Depth(s, i) - 1])
  BY <1>1, <1>6 DEF Depth
<1> QED BY <1>2, <1>7, <1>8 DEF CallsOK

\* The depths of the calls under way.
LEMMA DepthsOK ==
    ASSUME NEW s \in Seq(Frames), Len(s) <= MAX_LOOKUPS + 1, NEW i \in 1..Len(s)
    PROVE  /\ Depth(s, i) \in Depths /\ Depth(s, i) - 1 \in Depths /\ Depth(s, i) # 0
           /\ i + 1 \in 1..Len(s) => Depth(s, i + 1) - 1 = Depth(s, i)
<1>1. Len(s) \in Nat
  BY LenProperties
<1> QED BY <1>1, SpfAssumption DEF Depth, Depths

\* The current call moves on within its policy.
LEMMA TopReads ==
    ASSUME NEW s \in Seq(Frames), s # <<>>, CallsOK(s), NEW f \in Frames,
           f.at = s[1].at, f.via = s[1].via, Reading(f, Meaning[Depth(s, 1) - 1])
    PROVE  /\ CallsOK([s EXCEPT ![1] = f]) /\ [s EXCEPT ![1] = f] # <<>>
           /\ [s EXCEPT ![1] = f][Len([s EXCEPT ![1] = f])].at = s[Len(s)].at
<1> DEFINE t == [s EXCEPT ![1] = f]
<1>1. Len(s) \in Nat \ {0}
  BY EmptySeq
<1>2. /\ t \in Seq(Frames) /\ Len(t) = Len(s)
      /\ \A j \in 1..Len(s) : t[j] = IF j = 1 THEN f ELSE s[j]
  BY <1>1, ExceptSeq
<1> HIDE DEF t
<1>3. \A i : Depth(t, i) = Depth(s, i)
  BY <1>2 DEF Depth
<1>4. ASSUME NEW i \in 1..Len(t), t[i].fetched PROVE Reading(t[i], Meaning[Depth(t, i) - 1])
  <2>1. CASE i = 1
    BY <1>1, <1>2, <1>3, <2>1
  <2>2. CASE i # 1
    BY <1>1, <1>2, <1>3, <1>4, <2>2 DEF CallsOK
  <2> QED BY <2>1, <2>2
<1>5. ASSUME NEW i \in 1..(Len(t) - 1) PROVE Asked(t[i + 1], t[i])
  <2>1. t[i + 1] = s[i + 1] /\ t[i].via = s[i].via /\ t[i].at = s[i].at
    BY <1>1, <1>2
  <2>2. Asked(s[i + 1], s[i])
    BY <1>2 DEF CallsOK
  <2> QED BY <2>1, <2>2 DEF Asked
<1>6. t # <<>> /\ t[Len(t)].at = s[Len(s)].at
  BY <1>1, <1>2, EmptySeq
<1> QED BY <1>4, <1>5, <1>6 DEF CallsOK, t

\* A call calls.
LEMMA CallReads ==
    ASSUME NEW s \in Seq(Frames), s # <<>>, CallsOK(s), NEW f \in Frames, ~f.fetched, Asked(s[1], f)
    PROVE  /\ CallsOK(<<f>> \o s) /\ <<f>> \o s # <<>>
           /\ (<<f>> \o s)[Len(<<f>> \o s)].at = s[Len(s)].at
<1> DEFINE one == <<f>>
           t == one \o s
<1>1. Len(s) \in Nat \ {0}
  BY EmptySeq
<1>2. one \in Seq(Frames) /\ Len(one) = 1 /\ one[1] = f
  OBVIOUS
<1> HIDE DEF one
<1>3. /\ t \in Seq(Frames) /\ Len(t) = 1 + Len(s)
      /\ \A i \in 1..(1 + Len(s)) : t[i] = IF i <= 1 THEN one[i] ELSE s[i - 1]
  <2>1. /\ t \in Seq(Frames) /\ Len(t) = Len(one) + Len(s)
        /\ \A i \in 1..(Len(one) + Len(s)) : t[i] = IF i <= Len(one) THEN one[i] ELSE s[i - Len(one)]
    BY <1>2, ConcatProperties
  <2> HIDE DEF t
  <2> QED BY <1>2, <2>1
<1> HIDE DEF t
<1>4. ASSUME NEW i \in 1..Len(t), t[i].fetched PROVE Reading(t[i], Meaning[Depth(t, i) - 1])
  <2>1. i # 1
    BY <1>2, <1>3, <1>4
  <2>2. i - 1 \in 1..Len(s) /\ t[i] = s[i - 1]
    BY <1>1, <1>3, <2>1
  <2>3. Depth(t, i) = Depth(s, i - 1)
    BY <1>1, <1>3, SpfAssumption DEF Depth
  <2> QED BY <1>4, <2>2, <2>3 DEF CallsOK
<1>5. ASSUME NEW i \in 1..(Len(t) - 1) PROVE Asked(t[i + 1], t[i])
  <2>1. CASE i = 1
    <3>1. t[i] = f /\ t[i + 1] = s[1]
      BY <1>1, <1>2, <1>3, <2>1
    <3> QED BY <3>1
  <2>2. CASE i # 1
    <3>1. i - 1 \in 1..(Len(s) - 1) /\ t[i] = s[i - 1] /\ t[i + 1] = s[(i - 1) + 1]
      BY <1>1, <1>3, <2>2
    <3> QED BY <3>1 DEF CallsOK
  <2> QED BY <2>1, <2>2
<1>6. t # <<>> /\ t[Len(t)].at = s[Len(s)].at
  BY <1>1, <1>3, EmptySeq
<1> QED BY <1>4, <1>5, <1>6 DEF CallsOK, t, one

\* A call returns.
LEMMA ReturnReads ==
    ASSUME NEW s \in Seq(Frames), Len(s) > 1, CallsOK(s)
    PROVE  /\ CallsOK(Tail(s)) /\ Tail(s) # <<>> /\ Tail(s) \in Seq(Frames)
           /\ Tail(s)[Len(Tail(s))].at = s[Len(s)].at
           /\ Tail(s)[1] = s[2] /\ Asked(s[2], s[1]) /\ Len(Tail(s)) = Len(s) - 1
           /\ Depth(Tail(s), 1) = Depth(s, 2)
           /\ s[2].fetched => Reading(s[2], Meaning[Depth(s, 2) - 1])
<1> DEFINE t == Tail(s)
<1>1. Len(s) \in Nat /\ s # <<>>
  BY EmptySeq
<1>2. /\ t \in Seq(Frames) /\ Len(t) = Len(s) - 1
      /\ \A i \in 1..(Len(s) - 1) : t[i] = s[i + 1]
  BY <1>1, HeadTailProperties
<1> HIDE DEF t
<1>3. ASSUME NEW i \in 1..Len(t)
      PROVE  t[i] = s[i + 1] /\ i + 1 \in 1..Len(s) /\ Depth(t, i) = Depth(s, i + 1)
  BY <1>1, <1>2, SpfAssumption DEF Depth
<1>4. ASSUME NEW i \in 1..Len(t), t[i].fetched PROVE Reading(t[i], Meaning[Depth(t, i) - 1])
  BY <1>3, <1>4 DEF CallsOK
<1>5. ASSUME NEW i \in 1..(Len(t) - 1) PROVE Asked(t[i + 1], t[i])
  <2>1. i + 1 \in 1..(Len(s) - 1) /\ t[i] = s[i + 1] /\ t[i + 1] = s[(i + 1) + 1]
    BY <1>1, <1>2
  <2> QED BY <2>1 DEF CallsOK
<1>6. t # <<>> /\ t[Len(t)].at = s[Len(s)].at /\ t[1] = s[2]
  BY <1>1, <1>2, EmptySeq
<1>7. Asked(s[2], s[1]) /\ Depth(t, 1) = Depth(s, 2) /\ (s[2].fetched => Reading(s[2], Meaning[Depth(s, 2) - 1]))
  <2>1. 1 \in 1..(Len(s) - 1) /\ 1 \in 1..Len(t) /\ 2 \in 1..Len(s) /\ 1 + 1 = 2
    BY <1>1, <1>2
  <2>2. Asked(s[1 + 1], s[1]) /\ Depth(t, 1) = Depth(s, 1 + 1)
    BY <1>3, <2>1 DEF CallsOK
  <2> QED BY <2>1, <2>2 DEF CallsOK
<1> QED BY <1>2, <1>4, <1>5, <1>6, <1>7 DEF CallsOK, t

\* What a call knows from the part of its policy it has read.
LEMMA ReadingMeans ==
    ASSUME dns \in Zones, NEW f \in Frames, NEW k \in Depths, k # 0, k - 1 \in Depths, Reading(f, Meaning[k - 1])
    PROVE  /\ f.left # <<>> /\ Errs(Meaning[k - 1], Head(f.left), f.at) => Means(k, f.at) = "PermError"
           /\ f.left # <<>> /\ ~Errs(Meaning[k - 1], Head(f.left), f.at) /\ Hits(Meaning[k - 1], Head(f.left), f.at)
                => Means(k, f.at) = Qualifier[Head(f.left).sign]
           /\ f.left # <<>> /\ ~Decides(Meaning[k - 1], Head(f.left), f.at)
                => Reading([f EXCEPT !.left = Tail(f.left)], Meaning[k - 1])
           /\ f.left = <<>> /\ f.redirect = <<>> => Means(k, f.at) = "Neutral"
           /\ f.left = <<>> /\ f.redirect # <<>>
                => Means(k, f.at) = LET r == Nested(Meaning[k - 1], Last(f.redirect).spec, f.at)
                                    IN IF r = "None" THEN "PermError" ELSE r
<1> DEFINE u == Meaning[k - 1]
           ds == Directives(Terms(f.at))
           p  == Len(ds) - Len(f.left)
<1>1. /\ Sound(f.at) /\ f.redirect = Redirects(Terms(f.at)) /\ p \in 0..Len(ds)
      /\ \A q \in 1..Len(f.left) : f.left[q] = ds[p + q]
      /\ \A q \in 1..p : ~Decides(u, ds[q], f.at)
  BY Zenon DEF Reading
<1>2. Means(k, f.at) = Reads(u, f.at)
  BY MeansIs, Zenon
<1>3. ds \in Seq(TermRecords) /\ f.left \in Seq(TermRecords) /\ Len(ds) \in Nat /\ Len(f.left) \in Nat
  BY <1>1, SoundParts, LenProperties DEF Frames
<1> HIDE DEF ds
<1>0. p = Len(ds) - Len(f.left)
  OBVIOUS
<1> HIDE DEF p
<1>6. p \in Nat /\ p <= Len(ds)
  BY <1>1, <1>3
<1>4. f.left = <<>> => p = Len(ds)
  BY <1>0, <1>3
<1>5. f.left # <<>> => Len(f.left) # 0 /\ p < Len(ds) /\ Head(f.left) = ds[p + 1]
  <2> SUFFICES ASSUME f.left # <<>> PROVE Len(f.left) # 0 /\ p < Len(ds) /\ Head(f.left) = ds[p + 1]
    OBVIOUS
  <2>1. Len(f.left) \in Nat \ {0}
    BY <1>3, EmptySeq
  <2>2. p < Len(ds) /\ 1 \in 1..Len(f.left)
    BY <1>0, <1>3, <1>6, <2>1
  <2>3. Head(f.left) = f.left[1]
    BY <1>3
  <2> QED BY <1>1, <2>1, <2>2, <2>3
<1> DEFINE g == [f EXCEPT !.left = Tail(f.left)]
<1>7. ASSUME f.left # <<>>, ~Decides(u, Head(f.left), f.at) PROVE Reading(g, u)
  <2>1. g.at = f.at /\ g.redirect = f.redirect /\ g.left = Tail(f.left)
    BY DEF Frames
  <2>2. Len(Tail(f.left)) = Len(f.left) - 1 /\ \A q \in 1..(Len(f.left) - 1) : Tail(f.left)[q] = f.left[q + 1]
    BY <1>3, <1>7, HeadTailProperties
  <2> HIDE DEF g, u, ds
  <2>3. Len(ds) - Len(g.left) = p + 1
    <3>1. Len(g.left) = Len(f.left) - 1
      BY <2>1, <2>2
    <3> QED BY <1>0, <1>3, <3>1
  <2>4. p + 1 \in 0..Len(ds)
    BY <1>3, <1>5, <1>6, <1>7
  <2>5. \A q \in 1..Len(g.left) : g.left[q] = ds[(p + 1) + q]
    <3> SUFFICES ASSUME NEW q \in 1..(Len(f.left) - 1) PROVE Tail(f.left)[q] = ds[(p + 1) + q]
      BY <2>1, <2>2
    <3>1. q + 1 \in 1..Len(f.left) /\ p + (q + 1) = (p + 1) + q
      BY <1>3, <1>6
    <3>2. f.left[q + 1] = ds[p + (q + 1)]
      BY <1>1, <3>1
    <3> QED BY <2>2, <3>1, <3>2
  <2>6. \A q \in 1..(p + 1) : ~Decides(u, ds[q], f.at)
    <3>1. \A q \in 1..(p + 1) : q \in 1..p \/ q = p + 1
      BY <1>6
    <3> QED BY <1>1, <1>5, <1>7, <3>1
  <2> QED BY <1>1, <2>1, <2>3, <2>4, <2>5, <2>6 DEF Reading, ds
<1> HIDE DEF u, g
<1>8. /\ p < Len(ds) /\ Errs(u, ds[p + 1], f.at) => Reads(u, f.at) = "PermError"
      /\ p < Len(ds) /\ ~Errs(u, ds[p + 1], f.at) /\ Hits(u, ds[p + 1], f.at)
           => Reads(u, f.at) = Qualifier[ds[p + 1].sign]
      /\ p = Len(ds) /\ Redirects(Terms(f.at)) = <<>> => Reads(u, f.at) = "Neutral"
      /\ p = Len(ds) /\ Redirects(Terms(f.at)) # <<>>
           => Reads(u, f.at) = LET r == Nested(u, Last(Redirects(Terms(f.at))).spec, f.at)
                               IN IF r = "None" THEN "PermError" ELSE r
  BY <1>1, <1>6, ReadsSound DEF ds
<1> QED BY <1>1, <1>2, <1>4, <1>5, <1>7, <1>8, Zenon DEF u, g

\* Where the current call stands.
LEMMA TopStands ==
    ASSUME SpfInd, ReadInd, stack # <<>>
    PROVE  /\ dns \in Zones /\ stack \in Seq(Frames) /\ Top \in Frames /\ Top = stack[1]
           /\ Depth(stack, 1) \in Depths /\ Depth(stack, 1) # 0 /\ Depth(stack, 1) - 1 \in Depths
           /\ Len(stack) <= MAX_LOOKUPS + 1
           /\ Top.fetched => Reading(Top, Meaning[Depth(stack, 1) - 1])
<1>1. dns \in Zones /\ stack \in Seq(Frames) /\ Top = stack[1]
  BY DEF SpfInd, StackOK, Top
<1>2. Len(stack) \in Nat /\ 1 \in 1..Len(stack)
  BY <1>1, EmptySeq
<1>3. Len(stack) <= MAX_LOOKUPS + 1
  BY <1>2, SpfAssumption DEF SpfInd, ChargesOK, Paid
<1>4. Top \in Frames
  BY <1>1, <1>2, ElementOfSeq
<1>5. Top.fetched => Reading(Top, Meaning[Depth(stack, 1) - 1])
  BY <1>1, <1>2 DEF ReadInd, CallsOK
<1> QED BY <1>1, <1>2, <1>3, <1>4, <1>5, DepthsOK

\* A call has its answer.
LEMMA Answered ==
    ASSUME ReadInd, stack # <<>>, UNCHANGED <<dns, id, stack>>,
           ~Exceeded' => ret' = Means(Depth(stack, 1), Top.at)
    PROVE  ReadInd'
<1>1. CallsOK(stack)'
  BY MeansFrame DEF ReadInd
<1>2. SenderOK'
  BY DEF ReadInd, SenderOK
<1>3. Means(Depth(stack, 1), stack[1].at)' = Means(Depth(stack, 1), stack[1].at)
  BY MeansFrame DEF Depth
<1>4. AnswerOK'
  BY <1>3 DEF AnswerOK, Top
<1> QED BY <1>1, <1>2, <1>4 DEF ReadInd

\* The evaluation goes on.
LEMMA GoesOn ==
    ASSUME ReadInd, stack # <<>>, UNCHANGED <<dns, id>>, ret' = Running,
           CallsOK(stack'), stack' # <<>>, stack'[Len(stack')].at = stack[Len(stack)].at
    PROVE  ReadInd'
<1>1. CallsOK(stack)'
  BY MeansFrame
<1>2. SenderOK'
  BY DEF ReadInd, SenderOK
<1>3. AnswerOK'
  BY DEF AnswerOK
<1> QED BY <1>1, <1>2, <1>3 DEF ReadInd

\* The policy is read from its beginning, or there is none to read.
LEMMA FetchReadInd == ASSUME SpfInd, ReadInd, Fetch PROVE ReadInd'
<1> DEFINE found == SpfRecords(Top.at)
           k == Depth(stack, 1)
<1>1. Evaluating /\ stack # <<>> /\ ret = Running /\ ~Top.fetched /\ UNCHANGED <<dns, id, lookups, void>>
  BY DEF Fetch, Evaluating
<1>2. /\ dns \in Zones /\ stack \in Seq(Frames) /\ Top \in Frames /\ Top = stack[1]
      /\ k \in Depths /\ k # 0
  BY <1>1, TopStands
<1>3. CASE Sound(Top.at)
  <2> DEFINE f == [Top EXCEPT !.fetched = TRUE, !.left = Directives(found[1].terms),
                              !.redirect = Redirects(found[1].terms)]
  <2>1. stack' = [stack EXCEPT ![1] = f] /\ ret' = ret
    BY <1>1, <1>2, <1>3 DEF Fetch, Sound, Terms
  <2>2. /\ Directives(Terms(Top.at)) \in Seq(TermRecords)
        /\ Redirects(Terms(Top.at)) \in Seq(TermRecords)
    BY <1>2, <1>3, SoundParts
  <2>3. /\ f \in Frames /\ f.at = Top.at /\ f.via = Top.via
        /\ f.left = Directives(Terms(Top.at)) /\ f.redirect = Redirects(Terms(Top.at))
    <3> HIDE DEF found
    <3>1. found[1].terms = Terms(Top.at)
      BY DEF found, Terms
    <3> QED BY <1>2, <2>2, <3>1 DEF Frames
  <2> HIDE DEF f, found
  <2>4. Reading(f, Meaning[k - 1])
    <3> DEFINE ds == Directives(Terms(Top.at))
    <3>1. Len(ds) \in Nat /\ Len(ds) - Len(ds) = 0 /\ 0 \in 0..Len(ds)
      BY <2>2, LenProperties
    <3> HIDE DEF ds
    <3>2. Sound(f.at) /\ f.redirect = Redirects(Terms(f.at)) /\ f.left = ds /\ Directives(Terms(f.at)) = ds
      BY <1>3, <2>3 DEF ds
    <3>3. /\ \A q \in 1..Len(ds) : ds[q] = ds[0 + q]
          /\ \A q \in 1..0 : ~Decides(Meaning[k - 1], ds[q], f.at)
      BY <3>1
    <3> QED BY <3>1, <3>2, <3>3 DEF Reading
  <2>5. /\ CallsOK([stack EXCEPT ![1] = f]) /\ [stack EXCEPT ![1] = f] # <<>>
        /\ [stack EXCEPT ![1] = f][Len([stack EXCEPT ![1] = f])].at = stack[Len(stack)].at
    BY <1>1, <1>2, <2>3, <2>4, TopReads DEF ReadInd
  <2> QED BY <1>1, <2>1, <2>5, GoesOn
<1>4. CASE ~Sound(Top.at)
  <2>1. stack' = stack /\ ret' = IF found = <<>> THEN "None" ELSE "PermError"
    BY <1>4, Zenon DEF Fetch, Sound, Terms
  <2>2. Means(k, Top.at) = Reads(Meaning[k - 1], Top.at)
    BY <1>2, MeansIs, Zenon
  <2>3. Means(k, Top.at) = ret'
    BY <1>2, <1>4, <2>1, <2>2, ReadsUnsound, Zenon
  <2> QED BY <1>1, <2>1, <2>3, Answered
<1> QED BY <1>3, <1>4

\* A directive that is no error decides if it matches and is passed over if not.
LEMMA DecideReadInd ==
    ASSUME SpfInd, ReadInd, Evaluating, Top.fetched, Top.left # <<>>, UNCHANGED <<dns, id>>,
           ~Errs(Meaning[Depth(stack, 1) - 1], Head(Top.left), Top.at),
           NEW match, match = Hits(Meaning[Depth(stack, 1) - 1], Head(Top.left), Top.at), Decide(match)
    PROVE  ReadInd'
<1> DEFINE k == Depth(stack, 1)
<1>1. stack # <<>> /\ ret = Running
  BY DEF Evaluating
<1>2. /\ dns \in Zones /\ stack \in Seq(Frames) /\ Top \in Frames /\ Top = stack[1]
      /\ k \in Depths /\ k # 0 /\ k - 1 \in Depths /\ Reading(Top, Meaning[k - 1])
  BY <1>1, TopStands
<1> HIDE DEF k
<1>3. CASE match
  <2>1. ret' = Qualifier[Head(Top.left).sign] /\ stack' = stack
    BY <1>3, Zenon DEF Decide
  <2>2. Means(k, Top.at) = Qualifier[Head(Top.left).sign]
    BY <1>2, <1>3, ReadingMeans DEF k
  <2> QED BY <1>1, <2>1, <2>2, Answered DEF k
<1>4. CASE ~match
  <2> DEFINE f == [Top EXCEPT !.left = Tail(Top.left)]
  <2>1. stack' = [stack EXCEPT ![1] = f] /\ ret' = ret
    <3>1. stack' = Advanced /\ ret' = ret
      BY <1>4, Zenon DEF Decide
    <3> QED BY <1>2, <3>1 DEF Advanced
  <2>2. ~Decides(Meaning[k - 1], Head(Top.left), Top.at)
    BY <1>4, Zenon DEF Decides, k
  <2>3. Reading(f, Meaning[k - 1])
    BY <1>2, <2>2, ReadingMeans
  <2>4. f \in Frames /\ f.at = Top.at /\ f.via = Top.via
    <3>1. Tail(Top.left) \in Seq(TermRecords)
      BY <1>2, HeadTailProperties DEF Frames
    <3> QED BY <1>2, <3>1 DEF Frames
  <2> HIDE DEF f
  <2>5. /\ CallsOK([stack EXCEPT ![1] = f]) /\ [stack EXCEPT ![1] = f] # <<>>
        /\ [stack EXCEPT ![1] = f][Len([stack EXCEPT ![1] = f])].at = stack[Len(stack)].at
    BY <1>1, <1>2, <2>3, <2>4, TopReads DEF ReadInd, k
  <2> QED BY <1>1, <2>1, <2>5, GoesOn
<1> QED BY <1>3, <1>4

\* all, ip4 and ip6.
LEMMA LocalReadInd == ASSUME SpfInd, ReadInd, MatchLocal PROVE ReadInd'
<1> DEFINE d == Head(Top.left)
           u == Meaning[Depth(stack, 1) - 1]
<1>1. /\ Evaluating /\ Top.fetched /\ Top.left # <<>> /\ d.mech \in {"all", "ip"}
      /\ Decide(Local(d)) /\ UNCHANGED <<dns, id>>
  BY DEF MatchLocal, At
<1> HIDE DEF d
<1>2. Local(d) = Hits(u, d, Top.at) /\ ~Errs(u, d, Top.at)
  <2>1. Local(d) = Hits(u, d, Top.at)
    BY <1>1, Zenon DEF Hits
  <2>2. d.mech # "include"
    BY <1>1
  <2> QED BY <1>1, <2>1, <2>2, Zenon DEF Errs
<1> QED BY <1>1, <1>2, DecideReadInd DEF d

\* a, mx, exists and ptr; a limit that is exceeded is remembered by its count.
LEMMA DnsReadInd == ASSUME SpfInd, ReadInd, MatchDns PROVE ReadInd'
<1> DEFINE d == Head(Top.left)
           k == Depth(stack, 1)
           u == Meaning[k - 1]
           out == Lookup(d, Expand(d.spec, Top.at))
<1>1. /\ Evaluating /\ stack # <<>> /\ Top.fetched /\ Top.left # <<>>
      /\ d.mech \in {"a", "mx", "exists", "ptr"} /\ UNCHANGED <<dns, id>>
      /\ IF lookups' > MAX_LOOKUPS \/ Malformed(d.spec)
           THEN Stop /\ UNCHANGED <<void, queries>>
           ELSE /\ queries' = queries + out.sent
                /\ void' = void + IF out.void THEN 1 ELSE 0
                /\ IF void' > MAX_VOID THEN Stop ELSE Decide(out.match)
  BY DEF MatchDns, At, Evaluating
<1>2. /\ dns \in Zones /\ Top \in Frames /\ k \in Depths /\ k # 0 /\ k - 1 \in Depths /\ Reading(Top, u)
  BY <1>1, TopStands
<1>3. d.mech \notin {"all", "ip"} /\ d.mech # "include"
  BY <1>1
<1>4. Errs(u, d, Top.at) <=> Malformed(d.spec)
  BY <1>3, Zenon DEF Errs
<1>5. Hits(u, d, Top.at) = out.match
  BY <1>3, Zenon DEF Hits
<1> HIDE DEF d, k, out
<1>6. CASE lookups' > MAX_LOOKUPS \/ void' > MAX_VOID
  <2>1. Exceeded' /\ Stop
    BY <1>1, <1>6, Zenon DEF Exceeded
  <2> QED BY <1>1, <2>1, Answered DEF Stop
<1>7. CASE ~(lookups' > MAX_LOOKUPS \/ void' > MAX_VOID) /\ Malformed(d.spec)
  <2>1. Stop
    BY <1>1, <1>7, Zenon
  <2>2. Means(k, Top.at) = "PermError"
    BY <1>1, <1>2, <1>4, <1>7, ReadingMeans DEF d
  <2> QED BY <1>1, <2>1, <2>2, Answered DEF Stop, k
<1>8. CASE ~(lookups' > MAX_LOOKUPS \/ void' > MAX_VOID) /\ ~Malformed(d.spec)
  <2>1. Decide(out.match)
    BY <1>1, <1>8, Zenon
  <2> QED BY <1>1, <1>4, <1>5, <1>8, <2>1, DecideReadInd DEF d, k
<1> QED BY <1>6, <1>7, <1>8

\* A nested call: what it is about is what the caller refers to.
LEMMA EnterReadInd ==
    ASSUME SpfInd, ReadInd, Evaluating, Top.fetched, NEW spec \in Specs, NEW via \in {"include", "redirect"},
           Enter(spec, via), Malformed(spec) => Means(Depth(stack, 1), Top.at) = "PermError",
           ~Malformed(spec) => Asked(Top, Call(Expand(spec, Top.at), via))
    PROVE  ReadInd'
<1>1. /\ stack # <<>> /\ ret = Running /\ UNCHANGED <<dns, id>>
      /\ IF lookups' > MAX_LOOKUPS \/ Malformed(spec) THEN Stop
         ELSE stack' = <<Call(Expand(spec, Top.at), via)>> \o stack /\ UNCHANGED ret
  BY DEF Enter, Evaluating
<1>2. dns \in Zones /\ stack \in Seq(Frames) /\ Top \in Frames /\ Top = stack[1] /\ id \in People
  BY <1>1, TopStands DEF SpfInd, StackOK
<1>3. CASE lookups' > MAX_LOOKUPS
  <2>1. Exceeded' /\ Stop
    BY <1>1, <1>3, Zenon DEF Exceeded
  <2> QED BY <1>1, <2>1, Answered DEF Stop
<1>4. CASE Malformed(spec)
  <2>1. Stop
    BY <1>1, <1>4, Zenon
  <2> QED BY <1>1, <1>4, <2>1, Answered DEF Stop
<1>5. CASE ~(lookups' > MAX_LOOKUPS) /\ ~Malformed(spec)
  <2> DEFINE f == Call(Expand(spec, Top.at), via)
  <2>1. stack' = <<f>> \o stack /\ ret' = Running /\ Asked(stack[1], f)
    BY <1>1, <1>2, <1>5
  <2>2. f \in Frames /\ ~f.fetched
    <3>1. Expand(spec, Top.at) \in Names
      <4>1. Top.at \in Names
        BY <1>2 DEF Frames
      <4> QED BY <1>2, <1>5, <4>1, ExpandTyped
    <3>2. <<>> \in Seq(TermRecords)
      BY EmptySeq
    <3> QED BY <3>1, <3>2 DEF Call, Frames
  <2> HIDE DEF f
  <2>3. /\ CallsOK(<<f>> \o stack) /\ <<f>> \o stack # <<>>
        /\ (<<f>> \o stack)[Len(<<f>> \o stack)].at = stack[Len(stack)].at
    BY <1>1, <1>2, <2>1, <2>2, CallReads DEF ReadInd
  <2> QED BY <1>1, <2>1, <2>3, GoesOn
<1> QED BY <1>3, <1>4, <1>5

\* include and redirect.
LEMMA NestedReadInd == ASSUME SpfInd, ReadInd, Include \/ Redirect PROVE ReadInd'
<1> DEFINE k == Depth(stack, 1)
           u == Meaning[k - 1]
<1>1. Evaluating /\ stack # <<>> /\ Top.fetched
  BY DEF Include, Redirect, Exhausted, At, Evaluating
<1>2. dns \in Zones /\ Top \in Frames /\ k \in Depths /\ k # 0 /\ k - 1 \in Depths /\ Reading(Top, u)
  BY <1>1, TopStands
<1>3. Top.left \in Seq(TermRecords) /\ Top.redirect \in Seq(TermRecords)
  BY <1>2 DEF Frames
<1>4. \A spec, n : Malformed(spec) => Nested(u, spec, n) = "PermError"
  BY <1>2, MeansIs, Zenon
<1>5. CASE Include
  <2> DEFINE d == Head(Top.left)
             c == Call(Expand(d.spec, Top.at), "include")
  <2>1. Top.left # <<>> /\ d.mech = "include" /\ Enter(d.spec, "include")
    BY <1>5 DEF Include, At
  <2>2. d \in TermRecords /\ d = Top.left[1]
    BY <1>3, <2>1, HeadTailProperties
  <2>3. d.spec \in Specs
    BY <2>2 DEF TermRecords
  <2> HIDE DEF d
  <2>4. c.via = "include" /\ c.at = Expand(d.spec, Top.at)
    BY DEF Call
  <2> HIDE DEF c
  <2>5. ~Malformed(d.spec) => Asked(Top, c)
    BY <2>1, <2>2, <2>4, Zenon DEF Asked
  <2>6. Malformed(d.spec) => Errs(u, d, Top.at)
    BY <1>4, <2>1 DEF Errs
  <2>7. Malformed(d.spec) => Means(k, Top.at) = "PermError"
    BY <1>2, <2>1, <2>6, ReadingMeans DEF d
  <2> QED BY <1>1, <2>1, <2>3, <2>5, <2>7, EnterReadInd DEF c, k
<1>6. CASE Redirect
  <2> DEFINE spec == Last(Top.redirect).spec
             c == Call(Expand(spec, Top.at), "redirect")
  <2>1. Top.left = <<>> /\ Top.redirect # <<>> /\ Enter(spec, "redirect")
    BY <1>6 DEF Redirect, Exhausted
  <2>2. spec \in Specs
    <3>1. Len(Top.redirect) \in 1..Len(Top.redirect)
      BY <1>3, <2>1, EmptySeq
    <3>2. Last(Top.redirect) \in TermRecords
      BY <1>3, <3>1, ElementOfSeq DEF Last
    <3> QED BY <3>2 DEF TermRecords
  <2>3. c.via = "redirect" /\ c.at = Expand(spec, Top.at)
    BY DEF Call
  <2> HIDE DEF c
  <2>4. ~Malformed(spec) => Asked(Top, c)
    BY <2>1, <2>3, Zenon DEF Asked
  <2>5. Malformed(spec) => Means(k, Top.at) = "PermError"
    <3>1. Means(k, Top.at) = LET r == Nested(u, spec, Top.at) IN IF r = "None" THEN "PermError" ELSE r
      BY <1>2, <2>1, ReadingMeans
    <3> HIDE DEF spec
    <3> QED BY <1>4, <3>1
  <2> HIDE DEF spec
  <2> QED BY <1>1, <2>1, <2>2, <2>4, <2>5, EnterReadInd DEF c, k
<1> QED BY <1>5, <1>6

\* The end of a policy.
LEMMA DefaultReadInd == ASSUME SpfInd, ReadInd, Default PROVE ReadInd'
<1>1. /\ stack # <<>> /\ Top.fetched /\ Top.left = <<>> /\ Top.redirect = <<>>
      /\ ret' = "Neutral" /\ UNCHANGED <<dns, id, stack>>
  BY DEF Default, Exhausted, Evaluating
<1>2. Means(Depth(stack, 1), Top.at) = "Neutral"
  BY <1>1, TopStands, ReadingMeans
<1> QED BY <1>1, <1>2, Answered

\* What the nested policy means is what the caller makes of it: a match, an
\* error, or nothing.
LEMMA IncludeReads ==
    ASSUME NEW r \in Verdicts
    PROVE  /\ r = "Pass" => IncludeResult(r) = "match"
           /\ r \in {"None", "PermError"} => IncludeResult(r) = "PermError"
           /\ r \notin {"Pass", "None", "PermError"} => IncludeResult(r) = "no"
<1>1. CASE r = "Pass"
  BY <1>1, Zenon DEF IncludeResult
<1>2. CASE r \in {"Fail", "SoftFail", "Neutral"}
  BY <1>2, Zenon DEF IncludeResult
<1>3. CASE r \in {"None", "PermError"}
  BY <1>3, Zenon DEF IncludeResult
<1> QED BY <1>1, <1>2, <1>3 DEF Verdicts, SpfResult

\* A call returns to the one that made it.
LEMMA ReturnReadInd == ASSUME SpfInd, ReadInd, Return PROVE ReadInd'
<1> DEFINE caller == Tail(stack)
           f == stack[2]
           k == Depth(stack, 1)
           means == IncludeResult(ret)
<1>1. Len(stack) > 1 /\ ret # Running /\ UNCHANGED <<dns, id, lookups, void>>
  BY DEF Return
<1>2. stack \in Seq(Frames) /\ Waiting(stack) /\ ret \in SpfResult
  BY <1>1 DEF SpfInd, StackOK, ChargesOK
<1>3. stack # <<>> /\ Len(stack) \in Nat /\ 1 \in 1..(Len(stack) - 1) /\ 2 \in 1..Len(stack)
  BY <1>1, <1>2, EmptySeq
<1>4. /\ dns \in Zones /\ Top \in Frames /\ Top = stack[1] /\ k \in Depths /\ Len(stack) <= MAX_LOOKUPS + 1
  BY <1>3, TopStands
<1>5. /\ CallsOK(caller) /\ caller # <<>> /\ caller \in Seq(Frames)
      /\ caller[Len(caller)].at = stack[Len(stack)].at
      /\ caller[1] = f /\ Asked(f, Top)
      /\ Depth(caller, 1) = Depth(stack, 2)
      /\ f.fetched => Reading(f, Meaning[Depth(stack, 2) - 1])
  BY <1>1, <1>2, <1>4, ReturnReads DEF ReadInd
<1>6. Depth(stack, 2) \in Depths /\ Depth(stack, 2) # 0 /\ Depth(stack, 2) - 1 = k
  <2>1. 1 \in 1..Len(stack) /\ 1 + 1 = 2
    BY <1>3
  <2> QED BY <1>2, <1>3, <1>4, <2>1, DepthsOK
<1>7. f \in Frames /\ f.fetched /\ Top.via \in {"include", "redirect"}
  <2>1. f \in Frames
    BY <1>2, <1>3, ElementOfSeq
  <2>2. stack[1 + 1].fetched /\ stack[1].via # "top"
    BY <1>2, <1>3 DEF Waiting
  <2> QED BY <1>4, <2>1, <2>2 DEF Frames
<1> DEFINE K == Depth(stack, 2)
<1>8. Reading(f, Meaning[K - 1]) /\ K - 1 = k /\ K \in Depths /\ K # 0 /\ K - 1 \in Depths
  BY <1>4, <1>5, <1>6, <1>7
<1>9. Exceeded => ret = "PermError"
  BY DEF SpfInd, ChargesOK
<1>10. ~Exceeded => ret = Means(k, Top.at)
  BY <1>1, <1>3, <1>4 DEF ReadInd, AnswerOK
<1>11. Exceeded' <=> Exceeded
  BY <1>1 DEF Exceeded
<1> HIDE DEF caller, f, k, K
\* The step hands an answer to the caller.
<1>12. ASSUME stack' = caller, ~Exceeded => ret' = Means(K, f.at) PROVE ReadInd'
  <2>1. CallsOK(stack)'
    BY <1>1, <1>5, <1>12, MeansFrame
  <2>2. SenderOK'
    BY <1>1, <1>3, <1>5, <1>12 DEF ReadInd, SenderOK
  <2>3. Means(Depth(stack, 1), stack[1].at)' = Means(K, f.at)
    <3>1. Depth(stack, 1)' = K /\ stack'[1] = f
      BY <1>5, <1>12 DEF Depth, K
    <3> QED BY <1>1, <3>1, MeansFrame
  <2>4. AnswerOK'
    BY <1>11, <1>12, <2>3 DEF AnswerOK
  <2> QED BY <2>1, <2>2, <2>4 DEF ReadInd
<1>13. CASE Top.via = "redirect"
  <2> DEFINE r == Nested(Meaning[K - 1], Last(f.redirect).spec, f.at)
  <2>1. ret' = (IF ret = "None" THEN "PermError" ELSE ret) /\ stack' = caller
    BY <1>13, Zenon DEF Return, caller
  <2>2. /\ f.left = <<>> /\ f.redirect # <<>>
        /\ ~Malformed(Last(f.redirect).spec) /\ Top.at = Expand(Last(f.redirect).spec, f.at)
    BY <1>5, <1>13 DEF Asked
  <2>3. r = Means(k, Top.at)
    BY <1>4, <1>8, <2>2, MeansIs
  <2>4. Means(K, f.at) = IF r = "None" THEN "PermError" ELSE r
    BY <1>4, <1>7, <1>8, <2>2, ReadingMeans
  <2> HIDE DEF r
  <2> QED BY <1>10, <1>12, <2>1, <2>3, <2>4
<1>14. CASE Top.via = "include"
  <2> DEFINE d == Head(f.left)
             u == Meaning[K - 1]
  <2>1. /\ f.left # <<>> /\ f.left[1].mech = "include"
        /\ ~Malformed(f.left[1].spec) /\ Top.at = Expand(f.left[1].spec, f.at)
    BY <1>5, <1>14 DEF Asked
  <2>2. d = f.left[1]
    BY <1>7, <2>1 DEF Frames
  <2>3. Nested(u, d.spec, f.at) = Means(k, Top.at)
    BY <1>4, <1>8, <2>1, <2>2, MeansIs
  <2>4. /\ Hits(u, d, f.at) <=> Means(k, Top.at) = "Pass"
        /\ Errs(u, d, f.at) <=> Means(k, Top.at) \in {"None", "PermError"}
    <3>1. d.mech = "include" /\ d.mech \notin {"all", "ip"} /\ ~Malformed(d.spec)
      BY <2>1, <2>2
    <3> HIDE DEF d, u
    <3> QED BY <2>3, <3>1 DEF Hits, Errs
  <2>5. ~Exceeded => ret \in Verdicts
    BY <1>4, <1>10, MeansIs
  <2>6. Exceeded => means = "PermError"
    BY <1>2, <1>9, IncludeMeans
  <2>7. ~Exceeded => /\ ret = "Pass" => means = "match"
                     /\ ret \in {"None", "PermError"} => means = "PermError"
                     /\ ret \notin {"Pass", "None", "PermError"} => means = "no"
    BY <2>5, IncludeReads
  <2> HIDE DEF means, d, u
  <2>8. CASE means = "match"
    <3>1. ret' = Qualifier[Head(caller[1].left).sign] /\ stack' = caller
      BY <1>14, <2>8, Zenon DEF Return, caller, means
    <3>2. ~Exceeded /\ ret = "Pass"
      BY <2>6, <2>7, <2>8
    <3>3. Means(K, f.at) = Qualifier[d.sign]
      <4>1. Hits(u, d, f.at) /\ ~Errs(u, d, f.at)
        BY <1>10, <2>4, <3>2
      <4> QED BY <1>4, <1>7, <1>8, <2>1, <4>1, ReadingMeans DEF d, u
    <3>4. ret' = Means(K, f.at)
      BY <1>5, <3>1, <3>3 DEF d
    <3> QED BY <1>12, <3>1, <3>4
  <2>9. CASE means = "no"
    <3> DEFINE g == [f EXCEPT !.left = Tail(f.left)]
    <3>1. ret' = Running /\ stack' = [caller EXCEPT ![1].left = Tail(@)]
      BY <1>14, <2>9, Zenon DEF Return, caller, means
    <3>2. stack' = [caller EXCEPT ![1] = g]
      BY <1>5, <3>1
    <3>3. ~Exceeded /\ ret \notin {"Pass", "None", "PermError"}
      BY <2>6, <2>7, <2>9
    <3>4. Reading(g, u)
      <4>1. ~Decides(u, d, f.at)
        BY <1>10, <2>4, <3>3 DEF Decides
      <4> QED BY <1>4, <1>7, <1>8, <2>1, <4>1, ReadingMeans DEF d, u
    <3>5. g \in Frames /\ g.at = f.at /\ g.via = f.via
      <4>1. Tail(f.left) \in Seq(TermRecords)
        BY <1>7, <2>1, HeadTailProperties DEF Frames
      <4> QED BY <1>7, <4>1 DEF Frames
    <3> HIDE DEF g
    <3>6. /\ CallsOK([caller EXCEPT ![1] = g]) /\ [caller EXCEPT ![1] = g] # <<>>
          /\ [caller EXCEPT ![1] = g][Len([caller EXCEPT ![1] = g])].at = caller[Len(caller)].at
      BY <1>5, <3>4, <3>5, TopReads DEF u, K
    <3> QED BY <1>1, <1>3, <1>5, <3>1, <3>2, <3>6, GoesOn
  <2>10. CASE means = "PermError"
    <3>1. ret' = means /\ stack' = caller
      BY <1>14, <2>10, Zenon DEF Return, caller, means
    <3>2. ~Exceeded => Means(K, f.at) = "PermError"
      <4>1. ~Exceeded => Errs(u, d, f.at)
        BY <1>10, <2>4, <2>7, <2>10
      <4> QED BY <1>4, <1>7, <1>8, <2>1, <4>1, ReadingMeans DEF d, u
    <3> QED BY <1>12, <2>10, <3>1, <3>2
  <2>11. means \in {"match", "no", "PermError"}
    BY <2>6, <2>7
  <2> QED BY <2>8, <2>9, <2>10, <2>11
<1> QED BY <1>7, <1>13, <1>14

\* At first nothing is read.
LEMMA ReadInit == Init => ReadInd
<1> SUFFICES ASSUME Init PROVE ReadInd
  OBVIOUS
<1>1. /\ lookups = 0 /\ void = 0
      /\ stack = IF id.sender = <<>> THEN <<>> ELSE <<Call(id.sender, "top")>>
      /\ ret = IF id.sender = <<>> THEN "None" ELSE Running
  BY Zenon DEF Init
<1>2. ~Exceeded
  BY <1>1, SpfAssumption DEF Exceeded
<1>3. CASE id.sender = <<>>
  <2>1. stack = <<>> /\ ret = "None" /\ Len(stack) = 0
    BY <1>1, <1>3
  <2> QED BY <1>2, <1>3, <2>1 DEF ReadInd, CallsOK, SenderOK, AnswerOK
<1>4. CASE id.sender # <<>>
  <2> DEFINE c == Call(id.sender, "top")
  <2>1. c.at = id.sender /\ c.fetched = FALSE
    BY DEF Call
  <2>2. stack = <<c>> /\ ret = Running
    BY <1>1, <1>4
  <2> HIDE DEF c
  <2>3. Len(stack) = 1 /\ stack[1] = c /\ stack # <<>>
    BY <2>2
  <2>4. CallsOK(stack)
    BY <2>1, <2>3 DEF CallsOK
  <2> QED BY <1>4, <2>1, <2>2, <2>3, <2>4 DEF ReadInd, SenderOK, AnswerOK
<1> QED BY <1>3, <1>4

\* Every step reads on.
LEMMA ReadNext == SpfInd /\ ReadInd /\ [Next]_vars => ReadInd'
<1> SUFFICES ASSUME SpfInd, ReadInd, [Next]_vars PROVE ReadInd'
  OBVIOUS
<1>1. CASE UNCHANGED vars
  <2>1. UNCHANGED <<dns, id, stack, ret, lookups, void>>
    BY <1>1 DEF vars
  <2>2. CallsOK(stack)'
    BY <2>1, MeansFrame DEF ReadInd
  <2>3. SenderOK'
    BY <2>1 DEF ReadInd, SenderOK, Exceeded
  <2>4. Means(Depth(stack, 1), stack[1].at)' = Means(Depth(stack, 1), stack[1].at)
    BY <2>1, MeansFrame DEF Depth
  <2>5. AnswerOK'
    BY <2>1, <2>4 DEF ReadInd, AnswerOK, Exceeded
  <2> QED BY <2>2, <2>3, <2>5 DEF ReadInd
<1> QED BY <1>1, FetchReadInd, LocalReadInd, DnsReadInd, NestedReadInd, DefaultReadInd, ReturnReadInd DEF Next

\* check_host() returns what the published policies mean, or an error because a
\* limit was exceeded: for any DNS, any policies and any nesting.
THEOREM ResultsAreRight == Spec => []ResultRight
<1>1. Init => SpfInd /\ ReadInd
  BY SpfInitInd, ReadInit
<1>2. SpfInd /\ ReadInd /\ [Next]_vars => (SpfInd /\ ReadInd)'
  BY SpfNextInd, ReadNext
<1>3. SpfInd /\ ReadInd => ResultRight
  <2> SUFFICES ASSUME SpfInd, ReadInd, Done PROVE ret = IF Exceeded THEN "PermError" ELSE Policy(id.sender)
    BY DEF ResultRight
  <2>1. Exceeded => ret = "PermError"
    BY DEF SpfInd, ChargesOK
  <2>2. stack \in Seq(Frames) /\ Len(stack) <= 1 /\ ret # Running
    BY DEF SpfInd, StackOK, Done
  <2>3. CASE stack = <<>>
    <3>1. id.sender = <<>> /\ ret = "None" /\ ~Exceeded
      BY <2>3 DEF ReadInd, SenderOK
    <3> QED BY <3>1 DEF Policy
  <2>4. CASE stack # <<>> /\ ~Exceeded
    <3>0. Len(stack) \in Nat \ {0}
      BY <2>2, <2>4, EmptySeq
    <3>1. Len(stack) = 1
      <4>1. \A n \in Nat \ {0} : n <= 1 => n = 1
        OBVIOUS
      <4> QED BY <2>2, <3>0, <4>1, Zenon
    <3>2. id.sender # <<>> /\ stack[1].at = id.sender
      BY <2>4, <3>1 DEF ReadInd, SenderOK
    <3>3. Depth(stack, 1) = MAX_LOOKUPS + 2
      BY <3>1, SpfAssumption DEF Depth
    <3>4. ret = Means(MAX_LOOKUPS + 2, id.sender)
      BY <2>2, <2>4, <3>2, <3>3 DEF ReadInd, AnswerOK
    <3> QED BY <2>4, <3>2, <3>4 DEF Policy, Means
  <2> QED BY <2>1, <2>3, <2>4
<1> QED BY <1>1, <1>2, <1>3, PTL DEF Spec
-----------------------------------------------------------------------------
(* MTA-STS: the policy cache *)

\* A line of a known key is there exactly if With has one, and its last is one.
LEMMA WithKey ==
    ASSUME NEW A, NEW ls \in Seq(A), NEW key
    PROVE  /\ With(key, ls) # <<>> <=> \E i \in DOMAIN ls : ls[i].key = key
           /\ With(key, ls) # <<>> => \E i \in DOMAIN ls : ls[i].key = key /\ Last(With(key, ls)) = ls[i]
           /\ Values(key, ls) = {ls[i].value : i \in {j \in DOMAIN ls : ls[j].key = key}}
<1> DEFINE T == {l \in Range(ls) : l.key = key}
           w == With(key, ls)
<1>1. w = Only(T, ls)
  BY DEF With
<1>2. T = {ls[i] : i \in {j \in DOMAIN ls : ls[j].key = key}}
  BY DEF Range
<1>3. /\ w \in Seq(A \cap T)
      /\ \A i \in DOMAIN ls : ls[i] \in T => \E k \in DOMAIN w : w[k] = ls[i]
  <2> HIDE DEF T, w
  <2> QED BY <1>1, OnlyTyped, OnlyKeeps
<1>4. \A k \in DOMAIN w : w[k] \in T
  <2> HIDE DEF T, w
  <2> QED BY <1>3
<1>5. Range(w) = T
  <2>1. \A t \in T : \E i \in DOMAIN ls : ls[i] = t
    BY <1>2
  <2> HIDE DEF T, w
  <2> QED BY <1>3, <1>4, <2>1 DEF Range
<1>6. w # <<>> <=> T # {}
  <2> HIDE DEF T, w
  <2>1. w # <<>> => 1 \in DOMAIN w
    BY <1>3, EmptySeq, LenProperties
  <2>2. w = <<>> => DOMAIN w = {}
    BY EmptySeq
  <2> QED BY <1>4, <1>5, <2>1, <2>2 DEF Range
<1>7. w # <<>> => Last(w) \in T
  <2> HIDE DEF T, w
  <2>1. w # <<>> => Len(w) \in DOMAIN w
    BY <1>3, EmptySeq, LenProperties
  <2> QED BY <1>4, <2>1 DEF Last
<1>8. Values(key, ls) = {l.value : l \in T}
  <2> HIDE DEF T
  <2> QED BY <1>5 DEF Values
<1>9. /\ T # {} <=> \E i \in DOMAIN ls : ls[i].key = key
      /\ \A t \in T : \E i \in DOMAIN ls : ls[i].key = key /\ t = ls[i]
      /\ {l.value : l \in T} = {ls[i].value : i \in {j \in DOMAIN ls : ls[j].key = key}}
  BY <1>2
<1> HIDE DEF T
<1> QED BY <1>6, <1>7, <1>8, <1>9

\* As much as is needed of it where a key is missing.
LEMMA WithSome == ASSUME NEW A, NEW ls \in Seq(A), NEW key
                  PROVE  With(key, ls) # <<>> <=> \E i \in DOMAIN ls : ls[i].key = key
  BY WithKey

\* Of the records of a domain only its policy's has an id.
LEMMA DiscoverFinds ==
    ASSUME NEW d, txt[d] \in Nat
    PROVE  discover_id(TxtRecords(d)) = txt[d]
<1> DEFINE other == <<Line("v", "spf1")>>
           sts == <<Line("v", "STSv1"), Line("id", txt[d])>>
<1>1. parse_sts_txt(other) = 0
  <2>1. other \in Seq({Line("v", "spf1")}) /\ DOMAIN other = {1} /\ other[1].value = "spf1"
    BY DEF Line
  <2>2. With("v", other) # <<>> => Last(With("v", other)).value = "spf1"
    <3> HIDE DEF other
    <3> QED BY <2>1, WithKey
  <2> HIDE DEF other
  <2> QED BY <2>2 DEF parse_sts_txt
<1>2. txt[d] # 0 => parse_sts_txt(sts) = txt[d]
  <2>1. /\ sts \in Seq({Line("v", "STSv1"), Line("id", txt[d])}) /\ DOMAIN sts = {1, 2}
        /\ sts[1].key = "v" /\ sts[1].value = "STSv1" /\ sts[2].key = "id" /\ sts[2].value = txt[d]
    BY DEF Line
  <2> HIDE DEF sts
  <2>2. With("v", sts) # <<>> /\ Last(With("v", sts)).value = "STSv1"
    BY <2>1, WithKey
  <2>3. With("id", sts) # <<>> /\ Last(With("id", sts)).value = txt[d]
    BY <2>1, WithKey
  <2> QED BY <2>2, <2>3 DEF parse_sts_txt, is_valid_id
<1>3. CASE txt[d] = 0
  <2> DEFINE r == TxtRecords(d)
  <2>1. r = <<other>>
    BY <1>3 DEF TxtRecords, NoId
  <2> HIDE DEF other, r
  <2>2. DOMAIN r = {1} /\ r[1] = other
    BY <2>1
  <2>3. {k \in DOMAIN r : is_valid_id(parse_sts_txt(r[k]))} = {}
    BY <1>1, <2>2 DEF is_valid_id
  <2>4. discover_id(r) = 0
    BY <2>3 DEF discover_id, NoId
  <2> QED BY <1>3, <2>4 DEF r
<1>4. CASE txt[d] # 0
  <2> DEFINE r == TxtRecords(d)
  <2>1. r = <<other>> \o <<sts>>
    BY <1>4, Zenon DEF TxtRecords, NoId
  <2> HIDE DEF other, sts, r
  <2>2. DOMAIN r = {1, 2} /\ r[1] = other /\ r[2] = sts
    BY <2>1
  <2>3. {k \in DOMAIN r : is_valid_id(parse_sts_txt(r[k]))} = {2}
    BY <1>1, <1>2, <1>4, <2>2 DEF is_valid_id
  <2>4. Min({2}) = 2
    BY DEF Min
  <2>5. discover_id(r) = txt[d]
    BY <1>2, <1>4, <2>2, <2>3, <2>4 DEF discover_id
  <2> QED BY <2>5 DEF r
<1> QED BY <1>3, <1>4

\* A body with a line that is none is no policy.
LEMMA NoPolicyParsed == ASSUME NEW A, NEW body \in Seq(A), \E i \in DOMAIN body : body[i].key = ""
                        PROVE  policy_parse(body) = Error
<1>1. With("", body) # <<>>
  BY WithKey
<1> QED BY <1>1 DEF policy_parse

\* A policy file is read as it was written, but for the cap of its age.
LEMMA FileParsed ==
    ASSUME NEW v \in Nat, NEW age \in Nat, MAX_AGE_CAP \in Nat
    PROVE  LET file == <<Line("version", "STSv1"), Line("mode", "enforce"),
                         Line("mx", <<v>>), Line("max_age", age)>>
           IN policy_parse(file) = [mode |-> "enforce", mx |-> {<<v>>},
                                      max_age |-> IF age <= MAX_AGE_CAP THEN age ELSE MAX_AGE_CAP]
<1> DEFINE b == <<Line("version", "STSv1"), Line("mode", "enforce"),
                  Line("mx", <<v>>), Line("max_age", age)>>
           B == {Line("version", "STSv1"), Line("mode", "enforce"), Line("mx", <<v>>), Line("max_age", age)}
<1>1. /\ b \in Seq(B) /\ DOMAIN b = {1, 2, 3, 4}
      /\ b[1] = Line("version", "STSv1") /\ b[2] = Line("mode", "enforce")
      /\ b[3] = Line("mx", <<v>>) /\ b[4] = Line("max_age", age)
  OBVIOUS
<1> HIDE DEF b, B
<1>2. /\ b[1].key = "version" /\ b[1].value = "STSv1" /\ b[2].key = "mode" /\ b[2].value = "enforce"
      /\ b[3].key = "mx" /\ b[3].value = <<v>> /\ b[4].key = "max_age" /\ b[4].value = age
  BY <1>1 DEF Line
<1>3. With("", b) = <<>>
  <2>1. \A i \in DOMAIN b : b[i].key # ""
    BY <1>1, <1>2
  <2>2. With("", b) # <<>> <=> \E i \in DOMAIN b : b[i].key = ""
    BY <1>1, WithSome
  <2> QED BY <2>1, <2>2, Zenon
<1>4. Values("version", b) = {"STSv1"}
  <2>1. {j \in DOMAIN b : b[j].key = "version"} = {1}
    BY <1>1, <1>2
  <2> QED BY <1>1, <1>2, <2>1, WithKey
<1>5. Values("mode", b) = {"enforce"} /\ Last(With("mode", b)).value = "enforce"
  <2>1. {j \in DOMAIN b : b[j].key = "mode"} = {2}
    BY <1>1, <1>2
  <2> QED BY <1>1, <1>2, <2>1, WithKey
<1>6. Values("max_age", b) = {age} /\ Last(With("max_age", b)).value = age
  <2>1. {j \in DOMAIN b : b[j].key = "max_age"} = {4}
    BY <1>1, <1>2
  <2> QED BY <1>1, <1>2, <2>1, WithKey
<1>7. Values("mx", b) \ {<<>>} = {<<v>>}
  <2>1. {j \in DOMAIN b : b[j].key = "mx"} = {3}
    BY <1>1, <1>2
  <2>2. Values("mx", b) = {<<v>>}
    BY <1>1, <1>2, <2>1, WithKey
  <2> QED BY <2>2
<1>8. Min({age, MAX_AGE_CAP}) = IF age <= MAX_AGE_CAP THEN age ELSE MAX_AGE_CAP
  BY DEF Min
<1>9. policy_parse(b) = [mode |-> "enforce", mx |-> {<<v>>}, max_age |-> Min({age, MAX_AGE_CAP})]
  <2>1. /\ Values("mode", b) # {} /\ Values("mode", b) \subseteq {"enforce", "testing", "none"}
        /\ Values("max_age", b) # {} /\ ~\E n \in Values("max_age", b) : n < 0
        /\ Values("mx", b) \ {<<>>} # {}
    <3>1. Values("mode", b) # {} /\ Values("mode", b) \subseteq {"enforce", "testing", "none"}
      BY <1>5
    <3>2. Values("max_age", b) # {} /\ ~\E n \in Values("max_age", b) : n < 0
      BY <1>6
    <3>3. Values("mx", b) \ {<<>>} # {}
      BY <1>7
    <3> QED BY <3>1, <3>2, <3>3
  <2> QED BY <1>3, <1>4, <1>5, <1>6, <1>7, <2>1, Zenon DEF policy_parse
<1> QED BY <1>8, <1>9 DEF b

\* An answer of the policy host is taken in full or not at all.
LEMMA AnswerRead ==
    ASSUME NEW B, NEW b \in Seq(B), Len(b) > 0, NEW code, NEW n \in {Len(b) - 1, Len(b)},
           NEW h \in {<<>>, <<Line("content-length", Len(b))>>,
                      <<Line("transfer-encoding", "chunked"), Line("content-length", Len(b))>>}
    PROVE  LET r == [code |-> code, headers |-> h, body |-> SubSeq(b, 1, n)]
           IN parse_http_response(r) \in {<<[key |-> "", value |-> 0]>>, b}
<1> DEFINE r == [code |-> code, headers |-> h, body |-> SubSeq(b, 1, n)]
           got == parse_http_response(r)
           bad == <<[key |-> "", value |-> 0]>>
<1>0. r.headers = h /\ r.body = SubSeq(b, 1, n) /\ Len(b) \in Nat
  BY LenProperties
<1> HIDE DEF r
<1>1. CASE h = <<>>
  <2>1. h \in Seq(B) /\ DOMAIN h = {}
    BY <1>1, EmptySeq
  <2>2. With("content-length", h) # <<>> <=> \E i \in DOMAIN h : h[i].key = "content-length"
    BY <2>1, WithSome
  <2>3. With("content-length", h) = <<>>
    BY <2>1, <2>2, Zenon
  <2> QED BY <1>0, <2>3, Zenon DEF parse_http_response
<1>2. CASE h = <<Line("transfer-encoding", "chunked"), Line("content-length", Len(b))>>
  <2>1. "transfer-encoding" \in {f.key : f \in Range(h)}
    <3>1. 1 \in DOMAIN h /\ h[1].key = "transfer-encoding"
      BY <1>2 DEF Line
    <3> QED BY <3>1 DEF Range
  <2> QED BY <1>0, <2>1, Zenon DEF parse_http_response
<1>3. CASE h = <<Line("content-length", Len(b))>>
  <2>1. /\ h \in Seq({Line("content-length", Len(b))}) /\ DOMAIN h = {1}
        /\ h[1].key = "content-length" /\ h[1].value = Len(b)
    BY <1>3 DEF Line
  <2>2. With("content-length", h) # <<>> /\ Last(With("content-length", h)).value = Len(b)
    BY <2>1, WithKey
  <2>3. Len(SubSeq(b, 1, n)) = n
    BY <1>0, SubSeqProperties
  <2>4. Len(b) <= Len(SubSeq(b, 1, n)) => SubSeq(SubSeq(b, 1, n), 1, Len(b)) = b
    <3>1. SubSeq(b, 1, Len(b)) = b
      BY <1>0, SubSeqFull
    <3>2. Len(b) <= Len(SubSeq(b, 1, n)) => n = Len(b)
      BY <1>0, <2>3
    <3> QED BY <3>1, <3>2, Zenon
  <2> QED BY <1>0, <2>2, <2>4, Zenon DEF parse_http_response
<1> QED BY <1>1, <1>2, <1>3 DEF r

\* The body that an answer which is no file leaves is no policy.
LEMMA NoFileParsed == policy_parse(<<Line("", 0)>>) = Error
<1> DEFINE bad == <<Line("", 0)>>
<1>1. bad \in Seq({Line("", 0)}) /\ 1 \in DOMAIN bad /\ bad[1] = Line("", 0)
  OBVIOUS
<1> HIDE DEF bad
<1>2. bad[1].key = ""
  <2>1. \A k, v : Line(k, v).key = k
    BY DEF Line
  <2> QED BY <1>1, <2>1
<1>3. policy_parse(bad) = Error
  BY <1>1, <1>2, NoPolicyParsed
<1> QED BY <1>3 DEF bad

\* The answers that carry b, in full or cut short, are read as b or fail.
LEMMA AnswerParsed ==
    ASSUME NEW B, NEW b \in Seq(B), Len(b) > 0, NEW code, NEW answer \in HttpReply(code, b)
    PROVE  fetch_and_parse(answer) \in {Error, policy_parse(b)}
<1> DEFINE bad == <<[key |-> "", value |-> 0]>>
<1>1. PICK c \in {code, 301}, n \in {Len(b) - 1, Len(b)},
           h \in {<<>>, <<Line("content-length", Len(b))>>,
                  <<Line("transfer-encoding", "chunked"), Line("content-length", Len(b))>>} :
          answer = [code |-> c, headers |-> h, body |-> SubSeq(b, 1, n)]
  BY DEF HttpReply
<1>2. parse_http_response(answer) \in {bad, b}
  BY <1>1, AnswerRead
<1>3. policy_parse(bad) = Error
  BY NoFileParsed DEF Line
<1> HIDE DEF bad
<1> QED BY <1>2, <1>3 DEF fetch_and_parse

\* What is fetched is the file that the domain serves at that moment.
LEMMA FetchReads ==
    ASSUME NEW d \in Domains, host[d] \in Files,
           NEW answer \in Answers(d), fetch_and_parse(answer) # Error
    PROVE  /\ host[d] \in [ver : Versions, maxAge : Ages]
           /\ fetch_and_parse(answer).mx = {<<host[d].ver>>}
           /\ fetch_and_parse(answer).max_age
                = IF host[d].maxAge <= MAX_AGE_CAP THEN host[d].maxAge ELSE MAX_AGE_CAP
<1> DEFINE file == <<Line("version", "STSv1"), Line("mode", "enforce"),
                     Line("mx", <<host[d].ver>>), Line("max_age", host[d].maxAge)>>
           none == <<Line("", 0)>>
<1>1. answer \in IF host[d] = NoPolicy THEN HttpReply(404, none) ELSE HttpReply(200, file)
  BY Zenon DEF Answers
<1>2. none \in Seq({Line("", 0)}) /\ Len(none) > 0
  OBVIOUS
<1>3. /\ file \in Seq({Line("version", "STSv1"), Line("mode", "enforce"),
                       Line("mx", <<host[d].ver>>), Line("max_age", host[d].maxAge)})
      /\ Len(file) > 0
  OBVIOUS
<1>4. host[d] # NoPolicy
  <2> SUFFICES ASSUME host[d] = NoPolicy PROVE FALSE
    OBVIOUS
  <2> HIDE DEF file, none
  <2>1. answer \in HttpReply(404, none)
    BY <1>1
  <2>2. fetch_and_parse(answer) \in {Error, policy_parse(none)}
    BY <1>2, <2>1, AnswerParsed
  <2> QED BY <2>2, NoFileParsed DEF none
<1>5. fetch_and_parse(answer) = policy_parse(file)
  <2> HIDE DEF file, none
  <2>1. answer \in HttpReply(200, file)
    BY <1>1, <1>4
  <2>2. fetch_and_parse(answer) \in {Error, policy_parse(file)}
    BY <1>3, <2>1, AnswerParsed
  <2> QED BY <2>2
<1>6. host[d] \in [ver : Versions, maxAge : Ages]
  BY <1>4 DEF Files
<1>7. host[d].ver \in Nat /\ host[d].maxAge \in Nat /\ MAX_AGE_CAP \in Nat
  <2>1. MAX_AGE_CAP \in Nat /\ MaxVersion \in Nat /\ Ages \subseteq Nat
    BY MtaStsAssumption, Zenon
  <2>2. host[d].ver \in Versions /\ host[d].maxAge \in Ages
    BY <1>6, Zenon
  <2> HIDE DEF file, none
  <2>3. host[d].ver \in Nat
    BY <2>1, <2>2 DEF Versions
  <2>4. host[d].maxAge \in Nat
    BY <2>1, <2>2, Zenon
  <2> QED BY <2>1, <2>3, <2>4, Zenon
<1>8. policy_parse(file) = [mode |-> "enforce", mx |-> {<<host[d].ver>>},
          max_age |-> IF host[d].maxAge <= MAX_AGE_CAP THEN host[d].maxAge ELSE MAX_AGE_CAP]
  BY <1>7, FileParsed
<1> HIDE DEF file
<1> QED BY <1>5, <1>6, <1>8

Distinct(s) == \A i, j \in 1 .. Len(s) : s[i] = s[j] => i = j

\* A domain that is stored is last in the order, once; the others keep their
\* places, but for the first one if there was no room.
LEMMA StoreOrders ==
    ASSUME MAX_CACHE \in Nat \ {0}, order \in Seq(Domains), Len(order) <= MAX_CACHE, Distinct(order),
           NEW d \in Domains, NEW entry, Store(d, entry)
    PROVE  /\ order' \in Seq(Domains) /\ Len(order') <= MAX_CACHE /\ Distinct(order')
           /\ Contains(order', d)
           /\ \A x \in Domains \ {d} : Contains(order, x) => \/ Contains(order', x)
                                                              \/ cache'[x] = NoEntry
<1> DEFINE evict == Len(order) >= MAX_CACHE /\ ~Contains(order, d)
           kept == IF evict THEN Tail(order) ELSE order
           o == Only(Domains \ {d}, kept)
<1>0. Len(order) \in Nat /\ DOMAIN order = 1 .. Len(order)
  BY LenProperties
<1>1. order' = Append(Only(Domains \ {d}, kept), d)
  BY Zenon DEF Store
<1>2. evict => \A x \in Domains \ {d} : x = Head(order) => cache'[x] = NoEntry
  BY DEF Store
<1>3. /\ kept \in Seq(Domains) /\ Len(kept) \in Nat /\ Distinct(kept)
      /\ Len(kept) < MAX_CACHE \/ (Len(kept) <= MAX_CACHE /\ Contains(kept, d))
      /\ \A x \in Domains : Contains(order, x) => Contains(kept, x) \/ (evict /\ x = Head(order))
  <2>1. CASE evict
    <3>1. order # <<>>
      BY <1>0, <2>1, EmptySeq
    <3>2. /\ kept = Tail(order) /\ kept \in Seq(Domains) /\ Len(kept) = Len(order) - 1
          /\ \A i \in 1 .. Len(kept) : kept[i] = order[i + 1]
          /\ Head(order) = order[1]
      BY <2>1, <3>1, HeadTailProperties
    <3> HIDE DEF kept, evict
    <3>3. Distinct(kept)
      BY <1>0, <3>2 DEF Distinct
    <3>4. ASSUME NEW x \in Domains, Contains(order, x), x # Head(order) PROVE Contains(kept, x)
      <4>1. PICK i \in 1 .. Len(order) : order[i] = x
        BY <3>4 DEF Contains
      <4>2. i - 1 \in 1 .. Len(kept) /\ kept[i - 1] = x
        BY <1>0, <3>2, <3>4, <4>1
      <4> QED BY <4>2 DEF Contains
    <3>5. Len(kept) \in Nat /\ Len(kept) < MAX_CACHE
      BY <1>0, <3>1, <3>2, LenProperties
    <3> QED BY <2>1, <3>2, <3>3, <3>4, <3>5
  <2>2. CASE ~evict
    <3>1. kept = order
      BY <2>2
    <3>2. Len(order) < MAX_CACHE \/ Contains(order, d)
      BY <1>0, <2>2
    <3> HIDE DEF kept, evict
    <3> QED BY <1>0, <3>1, <3>2
  <2> QED BY <2>1, <2>2
<1> HIDE DEF kept
<1>4. DOMAIN kept = 1 .. Len(kept)
  BY <1>3, LenProperties
<1>5. /\ o \in Seq(Domains \cap (Domains \ {d})) /\ Len(o) <= Len(kept)
      /\ \A i \in DOMAIN kept : kept[i] \in Domains \ {d} => \E k \in DOMAIN o : o[k] = kept[i]
      /\ (\E i \in DOMAIN kept : kept[i] \notin Domains \ {d}) => Len(o) < Len(kept)
      /\ (\A i, j \in DOMAIN kept : kept[i] = kept[j] => i = j) => \A i, j \in DOMAIN o : o[i] = o[j] => i = j
  <2>1. Filters(o, Domains \ {d}, kept, Domains)
    BY <1>3, OnlyFilters
  <2> HIDE DEF o
  <2> QED BY <2>1 DEF Filters
<1>6. order' = Append(o, d)
  BY <1>1, <1>3
<1> HIDE DEF o
<1>7. o \in Seq(Domains) /\ Len(o) \in Nat /\ DOMAIN o = 1 .. Len(o) /\ \A i \in 1 .. Len(o) : o[i] # d /\ o[i] \in Domains
  BY <1>5, LenProperties, ElementOfSeq
<1>8. Distinct(o)
  BY <1>3, <1>4, <1>5, <1>7 DEF Distinct
<1>9. Len(o) < MAX_CACHE
  <2>1. Contains(kept, d) => Len(o) < Len(kept)
    BY <1>4, <1>5 DEF Contains
  <2> QED BY <1>3, <1>5, <1>7, <2>1
<1>10. /\ order' \in Seq(Domains) /\ Len(order') = Len(o) + 1
       /\ \A i \in 1 .. Len(o) : order'[i] = o[i]
       /\ order'[Len(o) + 1] = d
  BY <1>6, <1>7, AppendProperties
<1>11. Distinct(order')
  <2> SUFFICES ASSUME NEW i \in 1 .. (Len(o) + 1), NEW j \in 1 .. (Len(o) + 1), order'[i] = order'[j] PROVE i = j
    BY <1>10 DEF Distinct
  <2>1. CASE i = Len(o) + 1 \/ j = Len(o) + 1
    BY <1>7, <1>10, <2>1
  <2>2. CASE i # Len(o) + 1 /\ j # Len(o) + 1
    <3>1. i \in 1 .. Len(o) /\ j \in 1 .. Len(o)
      BY <1>7, <2>2
    <3> QED BY <1>8, <1>10, <3>1 DEF Distinct
  <2> QED BY <2>1, <2>2
<1>12. Contains(order', d)
  BY <1>7, <1>10 DEF Contains
<1>13. ASSUME NEW x \in Domains \ {d}, Contains(kept, x) PROVE Contains(order', x)
  <2>1. PICK i \in 1 .. Len(kept) : kept[i] = x
    BY <1>13 DEF Contains
  <2>2. PICK k \in DOMAIN o : o[k] = x
    BY <1>4, <1>5, <2>1
  <2>3. k \in 1 .. Len(order') /\ order'[k] = x
    BY <1>7, <1>10, <2>2
  <2> QED BY <2>3 DEF Contains
<1> HIDE DEF evict
<1> QED BY <1>2, <1>3, <1>7, <1>9, <1>10, <1>11, <1>12, <1>13

StsIds == Versions \cup {NoId}
StsEntries == [id : StsIds, policy : Policies, left : 0..Horizon]
Gone == [Versions -> 0..Horizon]

\* The host serves the latest version or nothing, and no id is announced before
\* its version is served.
WorldOK ==
    /\ host \in [Domains -> Files] /\ txt \in [Domains -> StsIds]
    /\ published \in [Domains -> 0..MaxVersion] /\ gone \in [Domains -> Gone]
    /\ \A d \in Domains : txt[d] <= published[d]
    /\ \A d \in Domains : host[d] # NoPolicy => host[d].ver = published[d] /\ gone[d][host[d].ver] = 0

\* An entry is not older than its id, and has no more life left than its
\* max_age leaves after the time its version is gone.
EntryOK(e, g) ==
    /\ e.id # NoId => e.policy.ver >= e.id
    /\ e.left > 0 /\ e.policy # NoPolicy => g[e.policy.ver] + e.left <= Ttl(e.policy)
EntriesOK ==
    /\ cache \in [Domains -> StsEntries]
    /\ \A d \in Domains : EntryOK(cache[d], gone[d])

OrderOK ==
    /\ order \in Seq(Domains) /\ Len(order) <= MAX_CACHE /\ Distinct(order)
    /\ \A d \in Domains : Fresh(d) => Contains(order, d)

\* What was discovered is fetched after it was published.
CallOK ==
    /\ pc \in {"idle", "discover", "fetch", "done"} /\ dom \in Domains
    /\ discovered \in StsIds /\ result \in Policies
    /\ pc = "fetch" => discovered <= published[dom]

StsInd == WorldOK /\ EntriesOK /\ OrderOK /\ CallOK

\* The constants of the cache as the proofs need them.
LEMMA StsConstants ==
    /\ MAX_CACHE \in Nat \ {0} /\ NEGATIVE_TTL \in Nat \ {0} /\ Ages \subseteq Nat
    /\ MaxVersion \in Nat /\ Horizon \in Nat /\ MAX_AGE_CAP \in Nat
    /\ 1 <= Horizon /\ MAX_AGE_CAP <= Horizon /\ NEGATIVE_TTL <= Horizon
    /\ \A v \in Versions : v \in Nat /\ v # 0
    /\ NoId = 0
<1>1. /\ MAX_CACHE \in Nat \ {0} /\ NEGATIVE_TTL \in Nat \ {0} /\ Ages \subseteq Nat
      /\ MaxVersion \in Nat /\ Horizon \in Nat /\ MAX_AGE_CAP \in Nat
      /\ 1 <= Horizon /\ MAX_AGE_CAP <= Horizon /\ NEGATIVE_TTL <= Horizon
  BY MtaStsAssumption
<1> QED BY <1>1 DEF Versions, NoId

\* A policy lives for a tick at least, and not beyond the horizon.
LEMMA TtlBounds ==
    ASSUME NEW p \in Policies
    PROVE  Ttl(p) \in 1..Horizon /\ p.ver \in Nat /\ (p # NoPolicy => p.ver \in Versions)
<1>1. p.maxAge \in 0..MAX_AGE_CAP /\ p.ver \in Nat /\ (p # NoPolicy => p.ver \in Versions)
  BY StsConstants DEF Policies, NoPolicy
<1>2. Ttl(p) \in 1..Horizon
  BY <1>1, StsConstants DEF Ttl
<1> QED BY <1>1, <1>2

\* Nothing is published or cached at first.
LEMMA StsInitInd == StsInit => StsInd
<1> SUFFICES ASSUME StsInit PROVE StsInd
  OBVIOUS
<1>1. WorldOK
  BY StsConstants DEF StsInit, WorldOK, StsIds, Gone, Files, NoPolicy
<1>2. EntriesOK
  <2>1. NoEntry \in StsEntries /\ NoEntry.id = NoId /\ NoEntry.left = 0
    BY StsConstants DEF NoEntry, StsEntries, StsIds, Policies
  <2> QED BY <2>1 DEF StsInit, EntriesOK, EntryOK
<1>3. OrderOK
  <2>1. order = <<>> /\ Len(order) = 0 /\ order \in Seq(Domains)
    BY EmptySeq DEF StsInit
  <2>2. \A d \in Domains : ~Fresh(d)
    BY DEF StsInit, Fresh, NoEntry
  <2> QED BY <2>1, <2>2, StsConstants DEF OrderOK, Distinct
<1>4. CallOK
  BY DEF StsInit, CallOK, StsIds, Policies
<1> QED BY <1>1, <1>2, <1>3, <1>4 DEF StsInd

\* The invariant says all that CacheInv does.
LEMMA StsIndImplies == StsInd => CacheInv
<1> SUFFICES ASSUME StsInd PROVE CacheInv
  OBVIOUS
<1>1. StsTypeOK
  BY DEF StsTypeOK, StsInd, WorldOK, EntriesOK, OrderOK, CallOK, StsIds, StsEntries, Gone
<1>2. CacheConsistent
  BY DEF CacheConsistent, StsInd, OrderOK, Distinct
<1>3. IdNeverAhead
  BY DEF IdNeverAhead, StsInd, EntriesOK, EntryOK
<1> QED BY <1>1, <1>2, <1>3 DEF CacheInv

\* Entries that are unchanged stay right while no version is longer gone.
LEMMA FewerGone ==
    ASSUME EntriesOK, UNCHANGED cache,
           \A x \in Domains, w \in Versions :
                gone'[x][w] <= gone[x][w] /\ gone'[x][w] \in Nat /\ gone[x][w] \in Nat
    PROVE  EntriesOK'
<1> SUFFICES ASSUME NEW x \in Domains PROVE EntryOK(cache[x], gone'[x])
  BY DEF EntriesOK, EntryOK
<1>1. cache[x].policy \in Policies /\ cache[x].left \in Nat
  BY StsConstants DEF EntriesOK, StsEntries
<1>2. ASSUME cache[x].left > 0, cache[x].policy # NoPolicy
      PROVE  gone'[x][cache[x].policy.ver] + cache[x].left <= Ttl(cache[x].policy)
  <2>1. gone[x][cache[x].policy.ver] + cache[x].left <= Ttl(cache[x].policy)
    BY <1>2 DEF EntriesOK, EntryOK
  <2>2. cache[x].policy.ver \in Versions /\ Ttl(cache[x].policy) \in Nat
    BY <1>1, <1>2, TtlBounds, StsConstants
  <2> QED BY <1>1, <2>1, <2>2
<1> QED BY <1>2 DEF EntriesOK, EntryOK

\* A new version is served at once; its predecessor's life goes on in the cache.
LEMMA PublishInd ==
    ASSUME StsInd, NEW d \in Domains, NEW age \in Ages, Publish(d, age)
    PROVE  StsInd'
<1> DEFINE v == published[d] + 1
<1>1. /\ v \in Versions
      /\ published' = [published EXCEPT ![d] = v]
      /\ host' = [host EXCEPT ![d] = [ver |-> v, maxAge |-> age]]
      /\ gone' = [gone EXCEPT ![d][v] = 0]
      /\ UNCHANGED <<txt, cache, order, pc, dom, discovered, result>>
  BY DEF Publish
<1>2. /\ published' \in [Domains -> 0..MaxVersion] /\ published'[d] = v
      /\ \A x \in Domains : published[x] <= published'[x] /\ (x # d => published'[x] = published[x])
  BY <1>1, StsConstants DEF StsInd, WorldOK, Versions
<1>3. /\ host' \in [Domains -> Files] /\ host'[d].ver = v
      /\ \A x \in Domains : x # d => host'[x] = host[x]
  <2>1. [ver |-> v, maxAge |-> age] \in Files
    BY <1>1 DEF Files
  <2> HIDE DEF v
  <2> QED BY <1>1, <2>1 DEF StsInd, WorldOK
<1> HIDE DEF v
<1>4. /\ gone' \in [Domains -> Gone] /\ gone'[d][v] = 0
      /\ \A x \in Domains : x # d => gone'[x] = gone[x]
      /\ \A x \in Domains, w \in Versions : gone'[x][w] <= gone[x][w] /\ gone'[x][w] \in Nat /\ gone[x][w] \in Nat
  <2>1. gone \in [Domains -> Gone] /\ 0 \in 0..Horizon
    BY StsConstants DEF StsInd, WorldOK
  <2>2. [gone[d] EXCEPT ![v] = 0] \in Gone
    BY <1>1, <2>1 DEF Gone
  <2>3. gone' \in [Domains -> Gone] /\ gone'[d] = [gone[d] EXCEPT ![v] = 0]
    BY <1>1, <2>1, <2>2
  <2>4. \A x \in Domains : x # d => gone'[x] = gone[x]
    BY <1>1, <2>1
  <2>5. gone'[d][v] = 0 /\ \A w \in Versions : gone'[d][w] \in {0, gone[d][w]}
    BY <1>1, <2>1, <2>3 DEF Gone
  <2>6. \A x \in Domains, w \in Versions : gone[x][w] \in Nat
    BY <2>1, StsConstants DEF Gone
  <2>7. ASSUME NEW x \in Domains, NEW w \in Versions PROVE gone'[x][w] \in {0, gone[x][w]}
    BY <2>4, <2>5
  <2>8. \A x \in Domains, w \in Versions : gone'[x][w] <= gone[x][w] /\ gone'[x][w] \in Nat
    BY <2>6, <2>7
  <2> QED BY <2>3, <2>4, <2>5, <2>6, <2>8, Zenon
<1>5. WorldOK'
  <2>1. \A x \in Domains : txt[x] <= published'[x]
    <3>1. \A x \in Domains : txt[x] \in Nat /\ published[x] \in Nat /\ published'[x] \in Nat /\ txt[x] <= published[x]
      BY <1>2, StsConstants DEF StsInd, WorldOK, StsIds
    <3> QED BY <1>2, <3>1
  <2>2. ASSUME NEW x \in Domains, host'[x] # NoPolicy
        PROVE  host'[x].ver = published'[x] /\ gone'[x][host'[x].ver] = 0
    BY <1>2, <1>3, <1>4, <2>2 DEF StsInd, WorldOK
  <2> QED BY <1>1, <1>2, <1>3, <1>4, <2>1, <2>2 DEF StsInd, WorldOK, NoPolicy
<1>6. EntriesOK'
  BY <1>1, <1>4, FewerGone DEF StsInd
<1>7. OrderOK'
  BY <1>1 DEF StsInd, OrderOK, Fresh
<1>8. CallOK'
  <2>1. pc = "fetch" => discovered <= published'[dom]
    <3>1. dom \in Domains /\ discovered \in Nat /\ published[dom] \in Nat /\ published'[dom] \in Nat
      BY <1>2, StsConstants DEF StsInd, WorldOK, CallOK, StsIds
    <3> QED BY <1>2, <3>1 DEF StsInd, CallOK
  <2> QED BY <1>1, <2>1 DEF StsInd, CallOK
<1> QED BY <1>5, <1>6, <1>7, <1>8 DEF StsInd

\* What a domain announces or withdraws leaves the cache alone.
LEMMA WithdrawInd ==
    ASSUME StsInd, NEW d \in Domains,
           Announce(d) \/ WithdrawId(d) \/ WithdrawPolicy(d)
    PROVE  StsInd'
<1>1. /\ UNCHANGED <<published, cache, order, pc, dom, discovered, result, gone>>
      /\ host' = host \/ host' = [host EXCEPT ![d] = NoPolicy]
      /\ txt' = txt \/ txt' = [txt EXCEPT ![d] = NoId] \/ (host[d] # NoPolicy /\ txt' = [txt EXCEPT ![d] = host[d].ver])
  BY DEF Announce, WithdrawId, WithdrawPolicy
<1>2. /\ host' \in [Domains -> Files]
      /\ \A x \in Domains : host'[x] \in {host[x], NoPolicy}
  BY <1>1 DEF StsInd, WorldOK, Files
<1>3. /\ txt' \in [Domains -> StsIds]
      /\ \A x \in Domains : txt'[x] <= published[x]
  <2>1. NoId \in StsIds /\ (host[d] # NoPolicy => host[d].ver \in StsIds /\ host[d].ver = published[d])
    BY DEF StsIds, StsInd, WorldOK, Files
  <2>2. \A x \in Domains : published[x] \in Nat /\ txt[x] <= published[x]
    BY StsConstants DEF StsInd, WorldOK
  <2>3. txt \in [Domains -> StsIds]
    BY DEF StsInd, WorldOK
  <2> QED BY <1>1, <2>1, <2>2, <2>3, StsConstants
<1>4. WorldOK'
  <2>1. \A x \in Domains : host'[x] # NoPolicy => host'[x].ver = published[x] /\ gone[x][host'[x].ver] = 0
    BY <1>2 DEF StsInd, WorldOK
  <2> QED BY <1>1, <1>2, <1>3, <2>1 DEF StsInd, WorldOK, NoPolicy
<1>5. EntriesOK' /\ OrderOK' /\ CallOK'
  BY <1>1 DEF StsInd, EntriesOK, EntryOK, OrderOK, Fresh, CallOK
<1> QED BY <1>4, <1>5 DEF StsInd

\* A tick takes from every life what it adds to the time a version is gone.
LEMMA TickInd == ASSUME StsInd, Tick PROVE StsInd'
<1>1. /\ cache' = [d \in Domains |-> [cache[d] EXCEPT !.left = IF @ > 0 THEN @ - 1 ELSE 0]]
      /\ gone' = [d \in Domains |-> [v \in Versions |->
              IF host[d].ver = v THEN 0
              ELSE IF gone[d][v] < Horizon THEN gone[d][v] + 1 ELSE Horizon]]
      /\ UNCHANGED <<host, txt, published, order, pc, dom, discovered, result>>
  BY DEF Tick, world
<1>2. /\ gone' \in [Domains -> Gone]
      /\ \A x \in Domains, w \in Versions : gone[x][w] \in Nat /\ gone'[x][w] \in Nat /\ gone'[x][w] <= gone[x][w] + 1
      /\ \A x \in Domains, w \in Versions : host[x].ver = w => gone'[x][w] = 0
  <2>0. Horizon \in Nat
    BY StsConstants
  <2>1. \A x \in Domains, w \in Versions : gone[x][w] \in 0..Horizon
    BY DEF StsInd, WorldOK, Gone
  <2> DEFINE g(x, w) == IF host[x].ver = w THEN 0
                        ELSE IF gone[x][w] < Horizon THEN gone[x][w] + 1 ELSE Horizon
  <2>2. \A x \in Domains, w \in Versions : g(x, w) \in 0..Horizon
    BY <2>0, <2>1
  <2>3. \A x \in Domains, w \in Versions : g(x, w) \in Nat /\ gone[x][w] \in Nat /\ g(x, w) <= gone[x][w] + 1
    BY <2>0, <2>1
  <2>4. \A x \in Domains, w \in Versions : host[x].ver = w => g(x, w) = 0
    OBVIOUS
  <2>5. gone' = [x \in Domains |-> [w \in Versions |-> g(x, w)]]
    BY <1>1
  <2> HIDE DEF g
  <2>6. gone' \in [Domains -> Gone]
    BY <2>2, <2>5, Zenon DEF Gone
  <2>7. \A x \in Domains, w \in Versions : gone'[x][w] = g(x, w)
    BY <2>5, Zenon
  <2> QED BY <2>3, <2>4, <2>6, <2>7, Zenon
<1>3. WorldOK'
  <2>1. ASSUME NEW x \in Domains, host[x] # NoPolicy PROVE gone'[x][host[x].ver] = 0
    <3>1. host[x].ver \in Versions
      BY <2>1 DEF StsInd, WorldOK, Files
    <3> QED BY <1>2, <3>1
  <2> QED BY <1>1, <1>2, <2>1 DEF StsInd, WorldOK, NoPolicy
<1>4. ASSUME NEW x \in Domains
      PROVE  /\ cache'[x] \in StsEntries /\ EntryOK(cache'[x], gone'[x])
             /\ cache'[x].left > 0 => cache[x].left > 0
  <2> DEFINE e == cache[x]
             l == IF e.left > 0 THEN e.left - 1 ELSE 0
  <2>1. e \in StsEntries /\ EntryOK(e, gone[x])
    BY DEF StsInd, EntriesOK
  <2>2. cache'[x] = [e EXCEPT !.left = l]
    BY <1>1
  <2>3. e.left \in 0..Horizon /\ e.policy \in Policies
    BY <2>1 DEF StsEntries
  <2> HIDE DEF e
  <2>4. l \in 0..Horizon /\ (l > 0 => e.left > 0 /\ l = e.left - 1)
    BY <2>3, StsConstants
  <2> HIDE DEF l
  <2>5. cache'[x] \in StsEntries /\ cache'[x].left = l /\ cache'[x].id = e.id /\ cache'[x].policy = e.policy
    BY <2>1, <2>2, <2>4 DEF StsEntries
  <2>6. ASSUME l > 0, e.policy # NoPolicy PROVE gone'[x][e.policy.ver] + l <= Ttl(e.policy)
    <3>1. e.policy.ver \in Versions /\ Ttl(e.policy) \in Nat
      BY <2>3, <2>6, TtlBounds, StsConstants
    <3>2. gone[x][e.policy.ver] + e.left <= Ttl(e.policy)
      BY <2>1, <2>4, <2>6 DEF EntryOK
    <3> DEFINE g == gone[x][e.policy.ver]
               h == gone'[x][e.policy.ver]
    <3>3. g \in Nat /\ h \in Nat /\ h <= g + 1
      BY <1>2, <3>1
    <3>4. e.left \in Nat /\ l = e.left - 1
      BY <2>3, <2>4, <2>6, StsConstants
    <3> HIDE DEF g, h
    <3>5. h + l <= Ttl(e.policy)
      BY <3>1, <3>2, <3>3, <3>4 DEF g
    <3> QED BY <3>5 DEF h
  <2> QED BY <2>1, <2>4, <2>5, <2>6 DEF EntryOK, e
<1>5. EntriesOK'
  <2>1. cache' \in [Domains -> StsEntries]
    BY <1>1, <1>4
  <2> QED BY <1>4, <2>1 DEF EntriesOK, EntryOK
<1>6. OrderOK'
  BY <1>1, <1>4 DEF StsInd, OrderOK, Fresh
<1>7. CallOK'
  BY <1>1 DEF StsInd, CallOK
<1> QED BY <1>3, <1>5, <1>6, <1>7 DEF StsInd

\* store() keeps the cache right if the entry is.
LEMMA StoreInd ==
    ASSUME StsInd, UNCHANGED gone, NEW d \in Domains, NEW entry \in StsEntries,
           EntryOK(entry, gone[d]), Store(d, entry)
    PROVE  EntriesOK' /\ OrderOK'
<1>1. cache' \in [Domains -> StsEntries] /\ cache'[d] = entry
      /\ \A x \in Domains : cache'[x] \in {entry, NoEntry, cache[x]} /\ (x # d => cache'[x] \in {NoEntry, cache[x]})
  <2>1. NoEntry \in StsEntries
    BY StsConstants DEF NoEntry, StsEntries, StsIds, Policies
  <2>2. cache \in [Domains -> StsEntries]
    BY DEF StsInd, EntriesOK
  <2> QED BY <2>1, <2>2 DEF Store
<1>2. EntriesOK'
  <2>1. NoEntry.id = NoId /\ NoEntry.left = 0
    BY DEF NoEntry
  <2>2. \A x \in Domains : EntryOK(cache[x], gone[x])
    BY DEF StsInd, EntriesOK
  <2>3. \A x \in Domains : EntryOK(NoEntry, gone[x])
    BY <2>1 DEF EntryOK
  <2>4. \A x \in Domains : EntryOK(cache'[x], gone[x])
    BY <1>1, <2>2, <2>3
  <2> QED BY <1>1, <2>4 DEF EntriesOK, EntryOK
<1>3. /\ order' \in Seq(Domains) /\ Len(order') <= MAX_CACHE /\ Distinct(order')
      /\ Contains(order', d)
      /\ \A x \in Domains \ {d} : Contains(order, x) => Contains(order', x) \/ cache'[x] = NoEntry
  BY StoreOrders, StsConstants DEF StsInd, OrderOK
<1>4. ASSUME NEW x \in Domains, cache'[x].left > 0 PROVE Contains(order', x)
  <2>1. cache'[x] # NoEntry
    BY <1>4 DEF NoEntry
  <2>2. x # d => Contains(order, x)
    BY <1>1, <1>4, <2>1 DEF StsInd, OrderOK, Fresh
  <2> QED BY <1>3, <2>1, <2>2
<1> QED BY <1>2, <1>3, <1>4 DEF OrderOK, Fresh, Distinct, Contains

\* A negative entry is always right.
LEMMA NegativeOK == ASSUME NEW g PROVE Negative \in StsEntries /\ EntryOK(Negative, g)
<1>1. Negative.id = NoId /\ Negative.policy = NoPolicy
  BY DEF Negative
<1>2. Negative \in StsEntries
  BY StsConstants DEF Negative, StsEntries, StsIds, Policies
<1> QED BY <1>1, <1>2 DEF EntryOK

\* What is returned was served less than its max_age ago.
Current(p) == p # NoPolicy => gone[dom][p.ver] < Ttl(p)

\* A fresh entry is, whatever became of its version.
LEMMA FreshCurrent == ASSUME StsInd, Fresh(dom)
                      PROVE  cache[dom].policy \in Policies /\ Current(cache[dom].policy)
<1>1. dom \in Domains /\ cache[dom] \in StsEntries /\ EntryOK(cache[dom], gone[dom])
  BY DEF StsInd, CallOK, EntriesOK
<1>2. cache[dom].policy \in Policies /\ cache[dom].left \in Nat /\ cache[dom].left > 0
  BY <1>1, StsConstants DEF StsEntries, Fresh
<1>3. ASSUME cache[dom].policy # NoPolicy PROVE gone[dom][cache[dom].policy.ver] < Ttl(cache[dom].policy)
  <2>1. cache[dom].policy.ver \in Versions /\ Ttl(cache[dom].policy) \in Nat
    BY <1>2, <1>3, TtlBounds, StsConstants
  <2>2. gone[dom][cache[dom].policy.ver] \in Nat
    BY <1>1, <2>1, StsConstants DEF StsInd, WorldOK, Gone
  <2>3. gone[dom][cache[dom].policy.ver] + cache[dom].left <= Ttl(cache[dom].policy)
    BY <1>1, <1>2, <1>3 DEF EntryOK
  <2> QED BY <1>2, <2>1, <2>2, <2>3
<1> QED BY <1>2, <1>3 DEF Current

\* A call begins with nothing discovered.
LEMMA CallInd == ASSUME StsInd, NEW d \in Domains, policy_for(d) PROVE StsInd'
<1>1. /\ UNCHANGED <<host, txt, published, cache, order, gone>>
      /\ pc' = "discover" /\ dom' = d /\ discovered' = NoId /\ result' = NoPolicy
  BY DEF policy_for, world
<1>2. CallOK'
  BY <1>1 DEF CallOK, StsIds, Policies
<1> QED BY <1>1, <1>2 DEF StsInd, WorldOK, EntriesOK, EntryOK, OrderOK, Fresh, Distinct, Contains

\* Discovery finds what is announced, or nothing; what it returns is fresh.
LEMMA DiscoverInd ==
    ASSUME StsInd, NEW answered \in BOOLEAN, Discover(answered)
    PROVE  StsInd' /\ (pc' = "done" => Current(result'))
<1> DEFINE f == IF answered THEN discover_id(TxtRecords(dom)) ELSE NoId
<1>1. dom \in Domains /\ txt[dom] \in StsIds /\ txt[dom] \in Nat /\ published[dom] \in Nat /\ txt[dom] <= published[dom]
  BY StsConstants DEF StsInd, WorldOK, CallOK, StsIds
<1>2. f \in StsIds /\ f <= published[dom]
  <2>1. discover_id(TxtRecords(dom)) = txt[dom]
    BY <1>1, DiscoverFinds
  <2> QED BY <1>1, <2>1, StsConstants DEF StsIds
<1>3. /\ pc = "discover" /\ discovered' = f /\ UNCHANGED <<host, txt, published, dom, gone>>
      /\ \/ Applies(f) /\ Finish(cache[dom].policy) /\ UNCHANGED <<cache, order>>
         \/ Store(dom, Negative) /\ Finish(NoPolicy)
         \/ pc' = "fetch" /\ UNCHANGED <<cache, order, result>>
  BY DEF Discover, world
<1> HIDE DEF f
<1>4. WorldOK'
  BY <1>3 DEF StsInd, WorldOK, NoPolicy
<1>5. CASE Applies(f) /\ Finish(cache[dom].policy) /\ UNCHANGED <<cache, order>>
  <2>1. cache[dom].policy \in Policies /\ Current(cache[dom].policy)
    BY <1>5, FreshCurrent DEF Applies
  <2>2. CallOK'
    BY <1>1, <1>2, <1>3, <1>5, <2>1 DEF CallOK, Finish
  <2>3. EntriesOK' /\ OrderOK'
    BY <1>3, <1>5 DEF StsInd, EntriesOK, EntryOK, OrderOK, Fresh
  <2> QED BY <1>4, <1>5, <2>1, <2>2, <2>3 DEF StsInd, Finish
<1>6. CASE Store(dom, Negative) /\ Finish(NoPolicy)
  <2>1. EntriesOK' /\ OrderOK'
    BY <1>1, <1>3, <1>6, NegativeOK, StoreInd
  <2>2. CallOK'
    BY <1>1, <1>2, <1>3, <1>6 DEF CallOK, Finish, Policies
  <2> QED BY <1>4, <1>6, <2>1, <2>2 DEF StsInd, Finish, Current
<1>7. CASE pc' = "fetch" /\ UNCHANGED <<cache, order, result>>
  <2>1. CallOK'
    BY <1>1, <1>2, <1>3, <1>7 DEF StsInd, CallOK
  <2>2. EntriesOK' /\ OrderOK'
    BY <1>3, <1>7 DEF StsInd, EntriesOK, EntryOK, OrderOK, Fresh
  <2> QED BY <1>4, <1>7, <2>1, <2>2 DEF StsInd
<1> QED BY <1>3, <1>5, <1>6, <1>7

\* A fetch that succeeds caches what is served now, under an id not newer.
LEMMA FetchedInd == ASSUME StsInd, Fetched PROVE StsInd' /\ Current(result')
<1>1. PICK answer \in Answers(dom) :
          LET parsed == fetch_and_parse(answer)
              policy == [ver |-> Head(CHOOSE name \in parsed.mx : TRUE), maxAge |-> parsed.max_age]
          IN /\ parsed # Error
             /\ Store(dom, [id |-> discovered, policy |-> policy, left |-> Ttl(policy)])
             /\ Finish(policy)
  BY Zenon DEF Fetched
<1> DEFINE parsed == fetch_and_parse(answer)
           p == [ver |-> Head(CHOOSE name \in parsed.mx : TRUE), maxAge |-> parsed.max_age]
           e == [id |-> discovered, policy |-> p, left |-> Ttl(p)]
<1>2. parsed # Error /\ Store(dom, e) /\ Finish(p)
  BY <1>1
<1>3. pc = "fetch" /\ UNCHANGED <<host, txt, published, dom, discovered, gone>>
  BY DEF Fetched, world
<1>4. /\ dom \in Domains /\ host[dom] \in Files /\ discovered \in StsIds /\ discovered \in Nat
      /\ discovered <= published[dom] /\ published[dom] \in Nat
  BY <1>3, StsConstants DEF StsInd, WorldOK, CallOK, StsIds
<1>5. /\ host[dom] \in [ver : Versions, maxAge : Ages]
      /\ parsed.mx = {<<host[dom].ver>>}
      /\ parsed.max_age = IF host[dom].maxAge <= MAX_AGE_CAP THEN host[dom].maxAge ELSE MAX_AGE_CAP
  BY <1>2, <1>4, FetchReads
<1>6. p.ver = host[dom].ver /\ p.maxAge = parsed.max_age /\ p = [ver |-> host[dom].ver, maxAge |-> parsed.max_age]
  <2>1. (CHOOSE name \in {<<host[dom].ver>>} : TRUE) = <<host[dom].ver>>
    OBVIOUS
  <2>2. Head(CHOOSE name \in parsed.mx : TRUE) = host[dom].ver
    <3>1. parsed.mx = {<<host[dom].ver>>}
      BY <1>5
    <3> HIDE DEF parsed
    <3> QED BY <2>1, <3>1
  <2> HIDE DEF parsed
  <2> QED BY <2>2
<1> HIDE DEF parsed, p
<1>7. parsed.max_age \in 0..MAX_AGE_CAP
  <2>1. host[dom].maxAge \in Nat
    BY <1>5, StsConstants
  <2>2. MAX_AGE_CAP \in Nat
    BY StsConstants
  <2> QED BY <1>5, <2>1, <2>2
<1>8. /\ p \in Policies /\ host[dom] # NoPolicy
  BY <1>5, <1>6, <1>7, StsConstants DEF Policies, NoPolicy
<1>9. host[dom].ver = published[dom] /\ gone[dom][host[dom].ver] = 0
  BY <1>4, <1>8 DEF StsInd, WorldOK
<1>10. Ttl(p) \in 1..Horizon
  BY <1>8, TtlBounds
<1>11. e \in StsEntries /\ EntryOK(e, gone[dom])
  <2>1. e \in StsEntries
    BY <1>4, <1>8, <1>10, StsConstants DEF StsEntries
  <2>2. e.id = discovered /\ e.policy = p /\ e.left = Ttl(p)
    OBVIOUS
  <2>3. p.ver >= discovered
    BY <1>4, <1>6, <1>9
  <2>4. gone[dom][p.ver] + Ttl(p) <= Ttl(p)
    BY <1>6, <1>9, <1>10, StsConstants
  <2> HIDE DEF e
  <2> QED BY <2>1, <2>2, <2>3, <2>4 DEF EntryOK
<1>12. EntriesOK' /\ OrderOK'
  <2> HIDE DEF e
  <2> QED BY <1>2, <1>3, <1>4, <1>11, StoreInd
<1>13. CallOK' /\ result' = p
  BY <1>2, <1>3, <1>4, <1>8 DEF Finish, CallOK
<1>14. WorldOK'
  BY <1>3 DEF StsInd, WorldOK, NoPolicy
<1>15. Current(p)
  BY <1>6, <1>9, <1>10, StsConstants DEF Current
<1> QED BY <1>12, <1>13, <1>14, <1>15 DEF StsInd

\* A fetch that fails leaves a fresh policy, or a negative entry.
LEMMA FetchFailedInd == ASSUME StsInd, FetchFailed PROVE StsInd' /\ Current(result')
<1>1. /\ pc = "fetch" /\ UNCHANGED <<host, txt, published, dom, discovered, gone>>
      /\ \/ Fresh(dom) /\ Finish(cache[dom].policy) /\ UNCHANGED <<cache, order>>
         \/ Finish(NoPolicy) /\ Store(dom, Negative)
  BY DEF FetchFailed, world
<1>2. WorldOK' /\ dom \in Domains
  BY <1>1 DEF StsInd, WorldOK, CallOK, NoPolicy
<1>3. CASE Fresh(dom) /\ Finish(cache[dom].policy) /\ UNCHANGED <<cache, order>>
  <2>1. cache[dom].policy \in Policies /\ Current(cache[dom].policy)
    BY <1>3, FreshCurrent
  <2>2. CallOK'
    BY <1>1, <1>3, <2>1 DEF StsInd, CallOK, Finish
  <2>3. EntriesOK' /\ OrderOK'
    BY <1>1, <1>3 DEF StsInd, EntriesOK, EntryOK, OrderOK, Fresh
  <2> QED BY <1>2, <1>3, <2>1, <2>2, <2>3 DEF StsInd, Finish
<1>4. CASE Finish(NoPolicy) /\ Store(dom, Negative)
  <2>1. EntriesOK' /\ OrderOK'
    BY <1>1, <1>2, <1>4, NegativeOK, StoreInd
  <2>2. CallOK'
    BY <1>1, <1>4 DEF StsInd, CallOK, Finish, Policies
  <2> QED BY <1>2, <1>4, <2>1, <2>2 DEF StsInd, Finish, Current
<1> QED BY <1>1, <1>3, <1>4

\* Every step of the domains, of time and of policy_for() keeps the invariant.
LEMMA StsNextInd == StsInd /\ [StsNext]_stsVars => StsInd'
<1> SUFFICES ASSUME StsInd, [StsNext]_stsVars PROVE StsInd'
  OBVIOUS
<1>1. CASE UNCHANGED stsVars
  BY <1>1 DEF stsVars, world, StsInd, WorldOK, EntriesOK, EntryOK, OrderOK, Fresh, CallOK
<1> QED BY <1>1, PublishInd, WithdrawInd, CallInd, DiscoverInd, FetchedInd, FetchFailedInd, TickInd
        DEF StsNext

\* However domains publish and withdraw between the two awaits of policy_for(),
\* the cache never holds more than MAX_CACHE entries, evicts an entry together
\* with its place in the order (store), and never keeps a policy under an id that
\* is newer than the policy, so that an unchanged id means it is up to date.
THEOREM CacheStaysConsistent == StsSpec => []CacheInv
<1>1. StsInit => StsInd
  BY StsInitInd
<1>2. StsInd /\ [StsNext]_stsVars => StsInd'
  BY StsNextInd
<1>3. StsInd => CacheInv
  BY StsIndImplies
<1> QED BY <1>1, <1>2, <1>3, PTL DEF StsSpec

\* No failed refresh, new id or withdrawal makes policy_for() return a policy
\* that its domain served max_age ago or longer.
THEOREM PoliciesAreCurrent == StsSpec => PolicyCurrent
<1>1. StsInit => StsInd
  BY StsInitInd
<1>2. StsInd /\ [StsNext]_stsVars => StsInd'
  BY StsNextInd
<1>3. StsInd /\ [StsNext]_stsVars
        => [Returns /\ result' # NoPolicy => gone[dom][result'.ver] < Ttl(result')]_stsVars
  <2> SUFFICES ASSUME StsInd, StsNext, Returns, result' # NoPolicy
               PROVE  gone[dom][result'.ver] < Ttl(result')
    OBVIOUS
  <2>1. ASSUME pc' = pc PROVE FALSE
    BY <2>1 DEF Returns
  <2>2. CASE \E d \in Domains : \/ \E age \in Ages : Publish(d, age)
                                \/ Announce(d) \/ WithdrawId(d) \/ WithdrawPolicy(d)
    BY <2>1, <2>2 DEF Publish, Announce, WithdrawId, WithdrawPolicy
  <2>3. CASE Tick
    BY <2>1, <2>3 DEF Tick
  <2>4. CASE \E d \in Domains : policy_for(d)
    BY <2>4 DEF policy_for, Returns
  <2>5. CASE (\E answered \in BOOLEAN : Discover(answered)) \/ Fetched \/ FetchFailed
    <3>1. Current(result')
      BY <2>5, DiscoverInd, FetchedInd, FetchFailedInd DEF Returns
    <3> QED BY <3>1 DEF Current
  <2> QED BY <2>2, <2>3, <2>4, <2>5 DEF StsNext
<1> QED BY <1>1, <1>2, <1>3, PTL DEF StsSpec, PolicyCurrent
-----------------------------------------------------------------------------
(* DKIM, DMARC and the aggregate reports *)

\* Bags of rows, and what (+) makes of two.
Bag(b) == b \in [DOMAIN b -> Nat]
Merge(a, b) == [x \in DOMAIN a \cup DOMAIN b |->
                 (IF x \in DOMAIN a THEN a[x] ELSE 0) + (IF x \in DOMAIN b THEN b[x] ELSE 0)]
NoRows == [x \in {} |-> 1]

\* That is what the operators of Bags are.
LEMMA MergeIs == EmptyBag = NoRows /\ \A a, b : (a (+) b) = Merge(a, b)
  BY DEF (+), Merge, EmptyBag, SetToBag, NoRows

\* All the rows of a policy domain: open, drained, reported, lost.
Total(a, g, r, l) == Merge(Merge(Merge(a, g), r), l)

\* Two bags make one.
LEMMA MergeBag == ASSUME NEW a, NEW b, Bag(a), Bag(b) PROVE Bag(Merge(a, b))
  BY DEF Bag, Merge
AllBags(a, g, r, l) == Bag(a) /\ Bag(g) /\ Bag(r) /\ Bag(l)

\* What the steps of the aggregator and of the worker do to the total.
LEMMA TotalMoves ==
    ASSUME NEW a, NEW g, NEW r, NEW l, Bag(a), Bag(g), Bag(r), Bag(l)
    PROVE  /\ Total(NoRows, a, r, l) = Total(a, NoRows, r, l)
           /\ Total(a, NoRows, Merge(r, g), l) = Total(a, g, r, l)
           /\ Total(a, NoRows, r, Merge(l, g)) = Total(a, g, r, l)
           /\ Total(NoRows, NoRows, r, Merge(Merge(l, a), g)) = Total(a, g, r, l)
<1>1. Total(NoRows, a, r, l) = Total(a, NoRows, r, l)
  BY DEF Total, Bag, Merge, NoRows
<1>2. Total(a, NoRows, Merge(r, g), l) = Total(a, g, r, l)
  BY DEF Total, Bag, Merge, NoRows
<1>3. Total(a, NoRows, r, Merge(l, g)) = Total(a, g, r, l)
  BY DEF Total, Bag, Merge, NoRows
<1>4. Total(NoRows, NoRows, r, Merge(Merge(l, a), g)) = Total(a, g, r, l)
  BY DEF Total, Bag, Merge, NoRows
<1> QED BY <1>1, <1>2, <1>3, <1>4

\* A row more in the window is a row more in all.
LEMMA TotalGrows ==
    ASSUME NEW a, NEW g, NEW r, NEW l, NEW k, AllBags(a, g, r, l), Bag(k)
    PROVE  Total(Merge(a, k), g, r, l) = Merge(Total(a, g, r, l), k)
  BY DEF AllBags, Total, Bag, Merge

IsReport(e) == e = [rua |-> e.rua, policy |-> e.policy, rows |-> e.rows] /\ Bag(e.rows)

RowsOK ==
    /\ DOMAIN agg = Spellings /\ DOMAIN drained = Spellings
    /\ DOMAIN evaluated = Spellings /\ DOMAIN reported = Spellings /\ DOMAIN lost = Spellings
    /\ \A d \in Spellings :
        /\ IsReport(agg[d]) /\ IsReport(drained[d])
        /\ Bag(evaluated[d]) /\ Bag(reported[d]) /\ Bag(lost[d])
        /\ evaluated[d] = Total(agg[d].rows, drained[d].rows, reported[d], lost[d])

\* The message under evaluation is from nobody known or from a lowercased domain.
FromOK == auth.from \in Spellings \cup {""}

RowsInd == RowsOK /\ FromOK

\* There are no rows at first.
LEMMA EmptyReport == IsReport(NoReport) /\ NoReport.rows = NoRows /\ Bag(NoRows)
  BY MergeIs DEF NoReport, IsReport, Bag, NoRows

\* The account is right at first.
LEMMA RowsInit == AuthInit => RowsInd
<1> SUFFICES ASSUME AuthInit PROVE RowsInd
  OBVIOUS
<1>1. /\ agg = [d \in Spellings |-> NoReport] /\ drained = agg
      /\ evaluated = [d \in Spellings |-> NoRows] /\ reported = evaluated /\ lost = evaluated
      /\ auth = NoAuth
  BY MergeIs DEF AuthInit
<1>2. Total(NoRows, NoRows, NoRows, NoRows) = NoRows
  BY DEF Total, Merge, NoRows
<1>3. FromOK
  BY <1>1 DEF FromOK, NoAuth
<1> QED BY <1>1, <1>2, <1>3, EmptyReport DEF RowsInd, RowsOK

\* What evaluate() returns: nothing without a record, or by the record that
\* applies, whether an identifier is aligned and the policy.
RecordOf(own, org) == IF own # NoRecord THEN own ELSE org
SpfAligned(a, rec) == a.spf = "Pass" /\ aligned(a.spfdom, a.from, rec.aspf)
DkimAligned(a, rec) == \E d \in a.pass : aligned(d, a.from, rec.adkim)
PolicyOf(own, rec) == IF own = NoRecord /\ rec.sp # "absent" THEN rec.sp ELSE rec.policy

Result(a, own, rec, r) ==
    /\ rec = NoRecord => r = NoResult
    /\ rec # NoRecord
         => /\ r.rec = rec
            /\ r.pass = (SpfAligned(a, r.rec) \/ DkimAligned(a, r.rec))
            /\ r.pass => r.disposition = "none"
            /\ ~r.pass => r.disposition \in apply_pct(PolicyOf(own, r.rec), r.rec.pct)

\* evaluate() returns such a result, for the domain whose record it is.
LEMMA EvaluateIs ==
    ASSUME NEW a, NEW own, NEW org, NEW r \in evaluate(a, own, org)
    PROVE  /\ r.domain \in {"", a.from, organizational_domain(a.from)}
           /\ Result(a, own, RecordOf(own, org), r)
<1> DEFINE rec == RecordOf(own, org)
           spf == SpfAligned(a, rec)
           dkim == DkimAligned(a, rec)
           dom0 == IF own # NoRecord THEN a.from ELSE organizational_domain(a.from)
           ps == IF spf \/ dkim THEN {"none"} ELSE apply_pct(PolicyOf(own, rec), rec.pct)
<1>1. evaluate(a, own, org)
        = IF rec = NoRecord THEN {NoResult}
          ELSE {[pass |-> spf \/ dkim, spf |-> spf, dkim |-> dkim, disposition |-> p, domain |-> dom0, rec |-> rec]
                  : p \in ps}
  BY DEF evaluate, RecordOf, SpfAligned, DkimAligned, PolicyOf
<1> HIDE DEF rec, spf, dkim, dom0, ps
<1>2. CASE rec = NoRecord
  <2>1. r = NoResult /\ NoResult.domain = ""
    BY <1>1, <1>2 DEF NoResult
  <2> QED BY <1>2, <2>1 DEF rec, Result
<1>3. CASE rec # NoRecord
  <2>1. PICK p \in ps :
            r = [pass |-> spf \/ dkim, spf |-> spf, dkim |-> dkim, disposition |-> p, domain |-> dom0, rec |-> rec]
    BY <1>1, <1>3
  <2>2. r.rec = rec /\ r.pass = (spf \/ dkim) /\ r.disposition = p /\ r.domain = dom0
    BY <2>1
  <2>3. dom0 \in {"", a.from, organizational_domain(a.from)}
    BY DEF dom0
  <2>4. /\ spf \/ dkim => p = "none"
        /\ ~(spf \/ dkim) => p \in apply_pct(PolicyOf(own, rec), rec.pct)
    BY DEF ps
  <2>5. /\ r.domain \in {"", a.from, organizational_domain(a.from)}
        /\ r.pass = (SpfAligned(a, r.rec) \/ DkimAligned(a, r.rec))
        /\ r.pass => r.disposition = "none"
        /\ ~r.pass => r.disposition \in apply_pct(PolicyOf(own, r.rec), r.rec.pct)
    BY <2>2, <2>3, <2>4, Zenon DEF spf, dkim
  <2> QED BY <1>3, <2>2, <2>5 DEF rec, Result
<1> QED BY <1>2, <1>3

\* One row more in the window is one more in the total.
LEMMA RowGrows ==
    ASSUME RowsOK, NEW d \in Spellings, NEW k, Bag(k)
    PROVE  Merge(evaluated[d], k) = Total(Merge(agg[d].rows, k), drained[d].rows, reported[d], lost[d])
<1>1. /\ AllBags(agg[d].rows, drained[d].rows, reported[d], lost[d])
      /\ evaluated[d] = Total(agg[d].rows, drained[d].rows, reported[d], lost[d])
  BY DEF RowsOK, IsReport, AllBags
<1> QED BY <1>1, TotalGrows

\* A row is added to the window and to the history, or to neither.
LEMMA JudgeRows == ASSUME RowsInd, Judge PROVE RowsOK'
<1>1. UNCHANGED <<drained, reported, lost>>
  BY DEF Judge
<1>2. CASE UNCHANGED <<agg, evaluated>>
  BY <1>1, <1>2 DEF RowsInd, RowsOK
<1>3. ASSUME NEW own, NEW org, NEW r \in evaluate(auth, own, org), auth.from # "",
             agg' = record(agg, r, auth.from), agg' # agg,
             evaluated' = [evaluated EXCEPT ![r.domain] = @ (+) Row(r, auth.from)]
      PROVE  RowsOK'
  <2> DEFINE k == Row(r, auth.from)
             d == r.domain
             e == IF agg[d] = NoReport THEN [rua |-> r.rec.rua, policy |-> r.rec.policy, rows |-> EmptyBag]
                  ELSE agg[d]
  <2>1. Bag(k)
    BY DEF Bag, Row, SetToBag
  <2>2. d # "" /\ agg' = [agg EXCEPT ![d] = [e EXCEPT !.rows = @ (+) k]]
    BY <1>3 DEF record
  <2>3. d \in Spellings
    <3>1. auth.from \in Spellings
      BY <1>3 DEF RowsInd, FromOK
    <3>2. organizational_domain(auth.from) \in Spellings
      BY AuthAssumption, <3>1 DEF organizational_domain
    <3>3. d \in {"", auth.from, organizational_domain(auth.from)}
      BY <1>3, EvaluateIs, Zenon DEF d
    <3> QED BY <2>2, <3>1, <3>2, <3>3
  <2> HIDE DEF k, d
  <2>4. e.rows = agg[d].rows /\ IsReport(e) /\ Bag(agg[d].rows)
    <3>1. IsReport(agg[d])
      BY <2>3 DEF RowsInd, RowsOK
    <3>2. agg[d] = NoReport => agg[d].rows = EmptyBag
      BY EmptyReport, MergeIs
    <3>3. CASE agg[d] = NoReport
      <4>1. e = [rua |-> r.rec.rua, policy |-> r.rec.policy, rows |-> EmptyBag]
        BY <3>3
      <4> HIDE DEF e
      <4>2. e.rows = EmptyBag /\ e = [rua |-> e.rua, policy |-> e.policy, rows |-> e.rows]
        BY <4>1
      <4> QED BY <3>1, <3>2, <3>3, <4>2, Zenon DEF IsReport
    <3>4. CASE agg[d] # NoReport
      <4>1. e = agg[d]
        BY <3>4
      <4> HIDE DEF e
      <4> QED BY <3>1, <4>1, Zenon DEF IsReport
    <3> QED BY <3>3, <3>4
  <2> HIDE DEF e
  <2>5. agg' = [agg EXCEPT ![d] = [e EXCEPT !.rows = Merge(agg[d].rows, k)]]
    <3>1. (e.rows (+) k) = Merge(agg[d].rows, k)
      BY <2>4, MergeIs, Zenon
    <3> QED BY <2>2, <3>1, Zenon
  <2>6. evaluated' = [evaluated EXCEPT ![d] = Merge(evaluated[d], k)]
    BY <1>3, MergeIs DEF d, k
  <2>7. Bag(Merge(agg[d].rows, k)) /\ Bag(Merge(evaluated[d], k))
    BY <2>1, <2>3, <2>4, MergeBag DEF RowsInd, RowsOK
  <2>8. agg'[d].rows = Merge(agg[d].rows, k) /\ IsReport(agg'[d]) /\ evaluated'[d] = Merge(evaluated[d], k)
    BY <2>3, <2>4, <2>5, <2>6, <2>7 DEF RowsInd, RowsOK, IsReport
  <2>9. evaluated'[d] = Total(agg'[d].rows, drained[d].rows, reported[d], lost[d])
    BY <2>1, <2>3, <2>8, RowGrows DEF RowsInd
  <2>10. /\ DOMAIN agg' = Spellings /\ DOMAIN evaluated' = Spellings
         /\ \A x \in Spellings : x # d => agg'[x] = agg[x] /\ evaluated'[x] = evaluated[x]
    BY <2>5, <2>6 DEF RowsInd, RowsOK
  <2> QED BY <1>1, <2>3, <2>7, <2>8, <2>9, <2>10 DEF RowsInd, RowsOK
<1> QED BY <1>2, <1>3 DEF Judge

\* The worker moves rows from the window to a report, and out.
LEMMA WorkerRows == ASSUME RowsInd, Worker PROVE RowsOK'
<1>1. CASE drain
  <2>1. drained' = agg /\ agg' = [d \in Spellings |-> NoReport] /\ UNCHANGED <<evaluated, reported, lost>>
    BY <1>1 DEF drain, history
  <2>2. \A d \in Spellings : drained[d] = NoReport
    BY <1>1 DEF drain, Open
  <2>3. ASSUME NEW d \in Spellings
        PROVE  evaluated[d] = Total(NoRows, agg[d].rows, reported[d], lost[d])
    BY <2>2, EmptyReport, TotalMoves DEF RowsInd, RowsOK, IsReport
  <2> QED BY <2>1, <2>3, EmptyReport DEF RowsInd, RowsOK
<1>2. CASE SendReport
  <2>1. PICK d \in Spellings :
            /\ drained' = [drained EXCEPT ![d] = NoReport]
            /\ \/ /\ reported' = [reported EXCEPT ![d] = @ (+) drained[d].rows] /\ UNCHANGED lost
               \/ /\ lost' = [lost EXCEPT ![d] = @ (+) drained[d].rows] /\ UNCHANGED reported
            /\ UNCHANGED <<agg, evaluated>>
    BY <1>2 DEF SendReport, build_report, Open
  <2> DEFINE a == agg[d].rows
             g == drained[d].rows
  <2>2. /\ Bag(a) /\ Bag(g) /\ Bag(reported[d]) /\ Bag(lost[d]) /\ evaluated[d] = Total(a, g, reported[d], lost[d])
    BY DEF RowsInd, RowsOK, IsReport
  <2>3. DOMAIN drained' = Spellings /\ drained'[d] = NoReport
        /\ \A x \in Spellings : x # d => drained'[x] = drained[x]
    BY <2>1 DEF RowsInd, RowsOK
  <2>4. CASE reported' = [reported EXCEPT ![d] = @ (+) drained[d].rows] /\ UNCHANGED lost
    <3>1. reported' = [reported EXCEPT ![d] = Merge(reported[d], g)]
      BY <2>4, MergeIs
    <3>2. DOMAIN reported' = Spellings /\ reported'[d] = Merge(reported[d], g)
          /\ \A x \in Spellings : x # d => reported'[x] = reported[x]
      BY <3>1 DEF RowsInd, RowsOK
    <3>3. evaluated[d] = Total(a, NoRows, Merge(reported[d], g), lost[d]) /\ Bag(Merge(reported[d], g))
      BY <2>2, TotalMoves, MergeBag
    <3> QED BY <2>1, <2>3, <2>4, <3>2, <3>3, EmptyReport DEF RowsInd, RowsOK
  <2>5. CASE lost' = [lost EXCEPT ![d] = @ (+) drained[d].rows] /\ UNCHANGED reported
    <3>1. lost' = [lost EXCEPT ![d] = Merge(lost[d], g)]
      BY <2>5, MergeIs
    <3>2. DOMAIN lost' = Spellings /\ lost'[d] = Merge(lost[d], g)
          /\ \A x \in Spellings : x # d => lost'[x] = lost[x]
      BY <3>1 DEF RowsInd, RowsOK
    <3>3. evaluated[d] = Total(a, NoRows, reported[d], Merge(lost[d], g)) /\ Bag(Merge(lost[d], g))
      BY <2>2, TotalMoves, MergeBag
    <3> QED BY <2>1, <2>3, <2>5, <3>2, <3>3, EmptyReport DEF RowsInd, RowsOK
  <2> QED BY <2>1, <2>4, <2>5
<1> QED BY <1>1, <1>2 DEF Worker

\* A restart loses the window and what is drained.
LEMMA RestartRows == ASSUME RowsInd, Restart PROVE RowsOK'
<1>1. /\ lost' = [d \in Spellings |-> Merge(Merge(lost[d], agg[d].rows), drained[d].rows)]
      /\ agg' = [d \in Spellings |-> NoReport] /\ drained' = agg' /\ UNCHANGED <<evaluated, reported>>
  BY MergeIs DEF Restart
<1>2. ASSUME NEW d \in Spellings
      PROVE  /\ evaluated[d] = Total(NoRows, NoRows, reported[d], Merge(Merge(lost[d], agg[d].rows), drained[d].rows))
             /\ Bag(Merge(Merge(lost[d], agg[d].rows), drained[d].rows))
  BY TotalMoves, MergeBag DEF RowsInd, RowsOK, IsReport
<1> QED BY <1>1, <1>2, EmptyReport DEF RowsInd, RowsOK

\* The sender of a message is a lowercased domain, or none that is known.
LEMMA FromTyped == FromDomain \in Spellings \cup {""}
  BY AuthAssumption DEF FromDomain

\* The domains whose signatures pass, and those whose signatures are intact.
Passing(seen) == {seen[k].domain : k \in {x \in DOMAIN seen : seen[x].result = "Pass"}}
Vouching(fs, body) == {fs[i].sig.d : i \in {x \in Signatures(fs) : Intact(fs, x, body)}}

\* Authentication ends with SPF's refusal, or with results about this message.
LEMMA AuthenticateIs ==
    ASSUME Authenticate
    PROVE  \/ auth' = NoAuth /\ last' = [NoLast EXCEPT !.reply = "550 spf"]
           \/ /\ auth'.msg = msg /\ auth'.from = FromDomain /\ UNCHANGED last
              /\ \E key \in KeyStates :
                    /\ conf.resolver
                         => auth'.pass = Passing(verify(msg.fields, msg.body, [s \in Signers |-> key]))
                    /\ auth'.truth = IF key = "good" THEN Vouching(msg.fields, msg.body) ELSE {}
<1>1. PICK r \in {"Pass", "Fail"}, d \in Signers, key \in KeyStates :
          LET spf == IF conf.resolver THEN r ELSE "None"
              seen == verify(msg.fields, msg.body, [s \in Signers |-> key])
          IN IF spf = "Fail" /\ conf.spf
             THEN Replies("550 spf")
             ELSE /\ auth' = [msg |-> msg, from |-> FromDomain, spf |-> spf, spfdom |-> d,
                              pass |-> IF conf.resolver
                                       THEN {seen[k].domain : k \in {x \in DOMAIN seen : seen[x].result = "Pass"}}
                                       ELSE {},
                              truth |-> IF key = "good"
                                        THEN {msg.fields[i].sig.d : i \in
                                                 {x \in Signatures(msg.fields) : Intact(msg.fields, x, msg.body)}}
                                        ELSE {}]
                  /\ UNCHANGED last
  BY Zenon DEF Authenticate
<1> DEFINE spf == IF conf.resolver THEN r ELSE "None"
           seen == verify(msg.fields, msg.body, [s \in Signers |-> key])
           pass == IF conf.resolver
                   THEN {seen[k].domain : k \in {x \in DOMAIN seen : seen[x].result = "Pass"}} ELSE {}
           truth == IF key = "good"
                    THEN {msg.fields[i].sig.d : i \in
                             {x \in Signatures(msg.fields) : Intact(msg.fields, x, msg.body)}} ELSE {}
<1>2. \/ Replies("550 spf")
      \/ /\ auth' = [msg |-> msg, from |-> FromDomain, spf |-> spf, spfdom |-> d, pass |-> pass, truth |-> truth]
         /\ UNCHANGED last
  BY <1>1, Zenon
<1> HIDE DEF spf, pass, truth
<1>3. CASE Replies("550 spf")
  BY <1>3, Zenon DEF Replies
<1>4. ASSUME auth' = [msg |-> msg, from |-> FromDomain, spf |-> spf, spfdom |-> d, pass |-> pass, truth |-> truth]
      PROVE  /\ auth'.msg = msg /\ auth'.from = FromDomain
             /\ auth'.pass = pass /\ auth'.truth = truth
  BY <1>4
<1>5. conf.resolver => pass = Passing(verify(msg.fields, msg.body, [s \in Signers |-> key]))
  BY Zenon DEF pass, Passing
<1>6. truth = IF key = "good" THEN Vouching(msg.fields, msg.body) ELSE {}
  BY Zenon DEF truth, Vouching
<1>7. CASE auth' = [msg |-> msg, from |-> FromDomain, spf |-> spf, spfdom |-> d, pass |-> pass, truth |-> truth]
           /\ UNCHANGED last
  <2> HIDE DEF seen
  <2>1. /\ conf.resolver => auth'.pass = Passing(verify(msg.fields, msg.body, [s \in Signers |-> key]))
        /\ auth'.truth = IF key = "good" THEN Vouching(msg.fields, msg.body) ELSE {}
    BY <1>4, <1>5, <1>6, <1>7, Zenon
  <2> QED BY <1>4, <1>7, <2>1, Zenon
<1> QED BY <1>2, <1>3, <1>7, Zenon

\* Every step keeps the account.
LEMMA RowsNext == RowsInd /\ [AuthNext]_authVars => RowsInd'
<1> SUFFICES ASSUME RowsInd, [AuthNext]_authVars PROVE RowsInd'
  OBVIOUS
<1>1. ASSUME UNCHANGED <<agg, drained, evaluated, reported, lost>> PROVE RowsOK'
  BY <1>1 DEF RowsInd, RowsOK
<1>2. NoAuth.from = ""
  BY DEF NoAuth
<1>3. ASSUME auth' = auth \/ auth' = NoAuth PROVE FromOK'
  BY <1>2, <1>3 DEF RowsInd, FromOK
<1>4. CASE Authenticate
  <2>1. UNCHANGED <<agg, drained, evaluated, reported, lost>>
    BY <1>4 DEF Authenticate, history
  <2>2. auth' = NoAuth \/ auth'.from = FromDomain
    BY <1>4, AuthenticateIs
  <2>3. FromOK'
    BY <1>2, <2>2, FromTyped DEF FromOK
  <2> QED BY <1>1, <2>1, <2>3 DEF RowsInd
<1>5. CASE Judge
  <2>1. auth' = NoAuth
    BY <1>5 DEF Judge
  <2> QED BY <1>3, <1>5, <2>1, JudgeRows DEF RowsInd
<1>6. CASE Worker
  <2>1. auth' = auth
    BY <1>6 DEF Worker, drain, SendReport
  <2> QED BY <1>3, <1>6, <2>1, WorkerRows DEF RowsInd
<1>7. CASE Restart
  <2>1. auth' = NoAuth
    BY <1>7 DEF Restart
  <2> QED BY <1>3, <1>7, <2>1, RestartRows DEF RowsInd
<1>8. CASE Compose \/ AddSignature \/ Forward \/ ComeBack \/ PolicyChanges \/ Refuse \/ UNCHANGED authVars
  <2>1. UNCHANGED <<agg, drained, evaluated, reported, lost>> /\ (auth' = auth \/ auth' = NoAuth)
    BY <1>8 DEF Compose, AddSignature, Forward, ComeBack, PolicyChanges, Refuse, authVars,
                OnTheWay, history, Replies
  <2> QED BY <1>1, <1>3, <2>1 DEF RowsInd
<1> QED BY <1>4, <1>5, <1>6, <1>7, <1>8 DEF AuthNext

\* Whatever is evaluated while the window is drained, a report refused or the
\* process restarted, every row that the aggregator recorded (record) is in the
\* open window, in a report on its way (drain, flush_reports), in one that was
\* queued, or among the lost ones, and exactly once.
THEOREM RowsAreAccountedFor == AuthSpec => []RowsAccounted
<1>1. RowsInd => RowsAccounted
  BY MergeIs DEF RowsInd, RowsOK, RowsAccounted, Total
<1>2. RowsInd /\ [AuthNext]_authVars => RowsInd'
  BY RowsNext
<1> QED BY <1>1, <1>2, RowsInit, PTL DEF AuthSpec

IsList(f) == f \in Seq({f[i] : i \in DOMAIN f})

\* A sequence is a list.
LEMMA ListTyped == ASSUME NEW A, NEW a \in Seq(A) PROVE IsList(a)
<1> DEFINE R == {a[i] : i \in DOMAIN a}
<1>1. Len(a) \in Nat /\ DOMAIN a = 1 .. Len(a) /\ a \in [1 .. Len(a) -> R]
  BY LenProperties
<1> HIDE DEF R
<1> QED BY <1>1, SeqDef DEF IsList, R

\* What list operations leave is a list.
LEMMA ListJoins == ASSUME NEW a, NEW b, IsList(a), IsList(b)
                   PROVE  /\ IsList(a \o b) /\ Len(a) \in Nat /\ Len(b) \in Nat
                          /\ DOMAIN a = 1 .. Len(a) /\ DOMAIN b = 1 .. Len(b)
                          /\ DOMAIN (a \o b) = 1 .. (Len(a) + Len(b))
                          /\ \A i \in 1 .. (Len(a) + Len(b)) : (a \o b)[i] = IF i <= Len(a) THEN a[i] ELSE b[i - Len(a)]
<1> DEFINE A == {a[i] : i \in DOMAIN a}
           B == {b[i] : i \in DOMAIN b}
<1>1. a \in Seq(A \cup B) /\ b \in Seq(A \cup B)
  <2>1. a \in Seq(A) /\ b \in Seq(B)
    BY DEF IsList
  <2> HIDE DEF A, B
  <2> QED BY <2>1
<1> HIDE DEF A, B
<1>2. /\ a \o b \in Seq(A \cup B) /\ Len(a \o b) = Len(a) + Len(b) /\ Len(a) \in Nat /\ Len(b) \in Nat
      /\ \A i \in 1 .. (Len(a) + Len(b)) : (a \o b)[i] = IF i <= Len(a) THEN a[i] ELSE b[i - Len(a)]
      /\ DOMAIN a = 1 .. Len(a) /\ DOMAIN b = 1 .. Len(b)
  BY <1>1, ConcatProperties, LenProperties
<1> DEFINE c == a \o b
<1>3. c \in Seq(A \cup B) /\ Len(c) = Len(a) + Len(b) /\ Len(c) \in Nat
  BY <1>2
<1> HIDE DEF c
<1>4. DOMAIN c = 1 .. Len(c) /\ c \in [1 .. Len(c) -> {c[i] : i \in DOMAIN c}]
  BY <1>3, LenProperties
<1>5. IsList(c)
  <2> DEFINE C == {c[i] : i \in DOMAIN c}
  <2>1. c \in [1 .. Len(c) -> C]
    BY <1>4
  <2> HIDE DEF C
  <2>2. c \in Seq(C)
    BY <1>3, <2>1, SeqDef
  <2> QED BY <2>2 DEF C, IsList
<1> QED BY <1>2, <1>3, <1>4, <1>5 DEF c

\* A list of one element.
LEMMA ListFirst == ASSUME NEW x PROVE IsList(<<x>>) /\ Len(<<x>>) = 1 /\ <<x>>[1] = x
<1>1. <<x>> \in Seq({x}) /\ DOMAIN <<x>> = {1} /\ <<x>>[1] = x
  OBVIOUS
<1> QED BY <1>1 DEF IsList

\* A list with other elements is a list.
LEMMA ListEdits == ASSUME NEW a, IsList(a), NEW b, DOMAIN b = DOMAIN a, b = [i \in DOMAIN a |-> b[i]] PROVE IsList(b)
<1>1. DOMAIN a = 1 .. Len(a) /\ Len(a) \in Nat
  <2> DEFINE A == {a[i] : i \in DOMAIN a}
  <2>1. a \in Seq(A)
    BY DEF IsList
  <2> HIDE DEF A
  <2> QED BY <2>1, LenProperties
<1>2. b \in [1 .. Len(a) -> {b[i] : i \in DOMAIN b}]
  BY <1>1
<1> QED BY <1>1, <1>2, SeqDef DEF IsList

\* The positions of a list.
LEMMA ListDomain == ASSUME NEW a, IsList(a) PROVE Len(a) \in Nat /\ DOMAIN a = 1 .. Len(a)
<1> DEFINE A == {a[i] : i \in DOMAIN a}
<1>1. a \in Seq(A)
  BY DEF IsList
<1> HIDE DEF A
<1> QED BY <1>1, LenProperties

\* The fields of a name, the signature left out, and what the first j names of h=
\* take of all fields: of each name the lowest ones, as many as are mentioned.
Others(fs, idx, n) == {i \in DOMAIN fs \ {idx} : fs[i].name = n}
Taken(fs, idx, h, j) ==
    {i \in DOMAIN fs \ {idx} : Below(Others(fs, idx, fs[i].name), i) <= Uses(h, fs[i].name, j)}
Lowest(fs, idx, h, j) == {i \in Others(fs, idx, h[j]) : Below(Others(fs, idx, h[j]), i) = Uses(h, h[j], j)}

\* They are finitely many positions.
LEMMA OthersFinite ==
    ASSUME NEW fs, IsList(fs), NEW idx, NEW n
    PROVE  Others(fs, idx, n) \in SUBSET Nat /\ IsFiniteSet(Others(fs, idx, n))
<1>1. Len(fs) \in Nat /\ DOMAIN fs = 1 .. Len(fs)
  BY ListDomain
<1>2. Others(fs, idx, n) \in SUBSET (1 .. Len(fs)) /\ IsFiniteSet(1 .. Len(fs))
  BY <1>1, FS_Interval DEF Others
<1>3. IsFiniteSet(Others(fs, idx, n))
  BY <1>2, FS_Subset
<1> QED BY <1>1, <1>2, <1>3

\* Nothing is taken at first.
LEMMA TakenNone == ASSUME NEW fs, IsList(fs), NEW idx, NEW h PROVE Taken(fs, idx, h, 0) = {}
<1> SUFFICES ASSUME NEW i \in Taken(fs, idx, h, 0) PROVE FALSE
  OBVIOUS
<1> DEFINE n == fs[i].name
           S == Others(fs, idx, n)
<1>1. i \in S /\ Below(S, i) <= Uses(h, n, 0)
  BY DEF Taken, Others
<1>2. S \in SUBSET Nat /\ IsFiniteSet(S)
  BY OthersFinite
<1> HIDE DEF S, n
<1>3. /\ Below(S, i) \in Nat /\ Below(S, i) + Rank(S, i) = Cardinality(S) + 1
      /\ Rank(S, i) \in 1 .. Cardinality(S) /\ Cardinality(S) \in Nat
  BY <1>1, <1>2, BelowIs, RankGrows
<1>4. Uses(h, n, 0) = 0
  BY UsesGrow
<1> QED BY <1>1, <1>3, <1>4

\* One more name takes the lowest field of it that is left.
LEMMA TakenStep ==
    ASSUME NEW fs, IsList(fs), NEW idx, NEW h, NEW k \in Nat
    PROVE  /\ Pick(fs, idx, Taken(fs, idx, h, k), h[k + 1]) = Lowest(fs, idx, h, k + 1)
           /\ Taken(fs, idx, h, k + 1) = Taken(fs, idx, h, k) \cup Lowest(fs, idx, h, k + 1)
<1> DEFINE n == h[k + 1]
           S == Others(fs, idx, n)
           m == Uses(h, n, k)
           left == {i \in S : ~(Below(S, i) <= m)}
           T == Taken(fs, idx, h, k)
<1>1. S \in SUBSET Nat /\ IsFiniteSet(S)
  BY OthersFinite
<1>2. m \in Nat /\ Uses(h, n, k + 1) = m + 1 /\ \A x : x # n => Uses(h, x, k + 1) = Uses(h, x, k)
  BY UsesGrow
<1>3. {i \in DOMAIN fs : i # idx /\ i \notin T /\ fs[i].name = n} = left
  BY DEF Taken, Others
<1>4. Pick(fs, idx, T, n) = {i \in left : \A x \in left : x <= i}
  <2>1. Pick(fs, idx, T, n)
          = {i \in {y \in DOMAIN fs : y # idx /\ y \notin T /\ fs[y].name = n} :
                \A x \in {y \in DOMAIN fs : y # idx /\ y \notin T /\ fs[y].name = n} : x <= i}
    BY DEF Pick
  <2> HIDE DEF left, T, n
  <2> QED BY <1>3, <2>1, Zenon
<1>5. Lowest(fs, idx, h, k + 1) = {i \in S : Below(S, i) = m + 1}
  BY <1>2 DEF Lowest
<1>6. {i \in left : \A x \in left : x <= i} = {i \in S : Below(S, i) = m + 1}
  <2> HIDE DEF S, m
  <2> QED BY <1>1, <1>2, HighestLeft
<1>7. \A i \in S : Below(S, i) \in Nat
  <2> HIDE DEF S
  <2> QED BY <1>1, BelowIs
<1>8. ASSUME NEW i \in DOMAIN fs \ {idx}
      PROVE  i \in Taken(fs, idx, h, k + 1) <=> i \in T \/ i \in Lowest(fs, idx, h, k + 1)
  <2>1. CASE fs[i].name = n
    <3>1. i \in S
      BY <2>1 DEF Others
    <3>2. i \in Taken(fs, idx, h, k + 1) <=> Below(S, i) <= m + 1
      BY <1>2, <2>1 DEF Taken
    <3>3. i \in T <=> Below(S, i) <= m
      BY <2>1 DEF Taken
    <3>4. i \in Lowest(fs, idx, h, k + 1) <=> Below(S, i) = m + 1
      BY <1>5, <3>1
    <3>5. Below(S, i) \in Nat /\ m \in Nat
      BY <1>2, <1>7, <3>1
    <3> HIDE DEF S, m, T
    <3> QED BY <3>2, <3>3, <3>4, <3>5
  <2>2. CASE fs[i].name # n
    <3>1. Uses(h, fs[i].name, k + 1) = Uses(h, fs[i].name, k)
      BY <1>2, <2>2
    <3>2. i \notin Lowest(fs, idx, h, k + 1)
      BY <2>2 DEF Lowest, Others
    <3> QED BY <3>1, <3>2, Zenon DEF Taken
  <2> QED BY <2>1, <2>2
<1>9. Taken(fs, idx, h, k + 1) = T \cup Lowest(fs, idx, h, k + 1)
  <2>1. \A i : i \in Taken(fs, idx, h, k + 1) => i \in DOMAIN fs \ {idx}
    BY DEF Taken
  <2>2. \A i : i \in T => i \in DOMAIN fs \ {idx}
    BY DEF Taken
  <2>3. \A i : i \in Lowest(fs, idx, h, k + 1) => i \in DOMAIN fs \ {idx}
    BY DEF Lowest, Others
  <2> HIDE DEF T
  <2> QED BY <1>8, <2>1, <2>2, <2>3, Zenon
<1> QED BY <1>4, <1>5, <1>6, <1>9
\* The loop over h= takes exactly those.
LEMMA ConsumedIs ==
    ASSUME NEW fs, IsList(fs), NEW idx, NEW h, Len(h) \in Nat
    PROVE  \A j \in 0 .. Len(h) : consumed(fs, idx, h)[j] = Taken(fs, idx, h, j)
<1> DEFINE c == consumed(fs, idx, h)
           N == Len(h)
           t == [j \in 0 .. N |-> Taken(fs, idx, h, j)]
           Loop(f) == f = [j \in 0 .. N |-> IF j = 0 THEN {} ELSE f[j - 1] \cup Pick(fs, idx, f[j - 1], h[j])]
<1>1. c = CHOOSE f : Loop(f)
  BY DEF consumed
<1>2. \A j \in 1 .. N : Taken(fs, idx, h, j) = Taken(fs, idx, h, j - 1) \cup Pick(fs, idx, Taken(fs, idx, h, j - 1), h[j])
  <2> SUFFICES ASSUME NEW j \in 1 .. N
               PROVE  Taken(fs, idx, h, j) = Taken(fs, idx, h, j - 1) \cup Pick(fs, idx, Taken(fs, idx, h, j - 1), h[j])
    OBVIOUS
  <2> DEFINE k == j - 1
  <2>1. k \in Nat /\ k + 1 = j
    OBVIOUS
  <2> HIDE DEF k
  <2>2. /\ Pick(fs, idx, Taken(fs, idx, h, k), h[k + 1]) = Lowest(fs, idx, h, k + 1)
        /\ Taken(fs, idx, h, k + 1) = Taken(fs, idx, h, k) \cup Lowest(fs, idx, h, k + 1)
    BY <2>1, TakenStep
  <2> QED BY <2>1, <2>2, Zenon DEF k
<1>3. Loop(t)
  <2>1. \A j \in 0 .. N : t[j] = IF j = 0 THEN {} ELSE t[j - 1] \cup Pick(fs, idx, t[j - 1], h[j])
    <3> SUFFICES ASSUME NEW j \in 0 .. N
                 PROVE  t[j] = IF j = 0 THEN {} ELSE t[j - 1] \cup Pick(fs, idx, t[j - 1], h[j])
      OBVIOUS
    <3>1. CASE j = 0
      BY <3>1, TakenNone
    <3>2. CASE j # 0
      <4>1. j \in 1 .. N /\ j - 1 \in 0 .. N
        BY <3>2
      <4>2. t[j] = Taken(fs, idx, h, j) /\ t[j - 1] = Taken(fs, idx, h, j - 1)
        BY <4>1
      <4> HIDE DEF t, N
      <4> QED BY <1>2, <3>2, <4>1, <4>2
    <3> QED BY <3>1, <3>2
  <2>2. DOMAIN t = 0 .. N /\ t = [j \in 0 .. N |-> t[j]]
    OBVIOUS
  <2> HIDE DEF t, N
  <2> QED BY <2>1, <2>2
<1>4. Loop(c)
  <2> HIDE DEF Loop, t
  <2> QED BY <1>1, <1>3, Zenon
<1>5. \A j \in 0 .. N : c[j] = IF j = 0 THEN {} ELSE c[j - 1] \cup Pick(fs, idx, c[j - 1], h[j])
  <2> HIDE DEF c, N
  <2> QED BY <1>4
<1> HIDE DEF c, N
<1>6. ASSUME NEW j \in 0 .. N, c[j] # Taken(fs, idx, h, j) PROVE FALSE
  <2> DEFINE bad == {x \in 0 .. N : c[x] # Taken(fs, idx, h, x)}
  <2>1. N \in Nat
    BY DEF N
  <2>2. bad \in SUBSET Nat /\ bad # {}
    BY <1>6, <2>1
  <2>3. PICK x \in bad : \A y \in bad : x <= y
    <3> HIDE DEF bad
    <3> QED BY <2>2, LeastNat
  <2>4. x \in 0 .. N /\ c[x] # Taken(fs, idx, h, x)
    OBVIOUS
  <2>5. CASE x = 0
    BY <1>5, <2>4, <2>5, TakenNone
  <2>6. CASE x # 0
    <3>1. x - 1 \in 0 .. N /\ ~(x <= x - 1) /\ x \in 1 .. N
      BY <2>1, <2>4, <2>6
    <3>2. c[x - 1] = Taken(fs, idx, h, x - 1)
      BY <2>3, <3>1
    <3>3. c[x] = c[x - 1] \cup Pick(fs, idx, c[x - 1], h[x])
      BY <1>5, <2>4, <2>6
    <3>4. Taken(fs, idx, h, x) = Taken(fs, idx, h, x - 1) \cup Pick(fs, idx, Taken(fs, idx, h, x - 1), h[x])
      BY <1>2, <3>1 DEF N
    <3> QED BY <2>4, <3>2, <3>3, <3>4, Zenon
  <2> QED BY <2>5, <2>6
<1> QED BY <1>6 DEF c, N

\* What is hashed is what the signer covered: the fields as they are now.
LEMMA HashCovers ==
    ASSUME NEW fs, IsList(fs), NEW idx, NEW sig, IsList(sig.h)
    PROVE  compute_header_hash(fs, idx, sig)
             = Append(Covered(fs, {idx}, sig.h, parse_canon(sig.c).header), b_stripped(sig, fs[idx].ws))
<1> DEFINE h == sig.h
           hc == parse_canon(sig.c).header
           c == consumed(fs, idx, h)
           Here(j) == Pick(fs, idx, c[j - 1], h[j])
           From(j) == FromBelow(fs, {idx}, h[j], Mention(h, j))
<1>1. Len(h) \in Nat /\ DOMAIN h = 1 .. Len(h)
  BY ListDomain
<1>2. ASSUME NEW j \in DOMAIN h PROVE Here(j) = From(j)
  <2> DEFINE k == j - 1
  <2>1. k \in Nat /\ k \in 0 .. Len(h) /\ j = k + 1
    BY <1>1, <1>2
  <2>2. c[k] = Taken(fs, idx, h, k)
    <3> HIDE DEF k
    <3> QED BY <1>1, <2>1, ConsumedIs
  <2>3. Pick(fs, idx, Taken(fs, idx, h, k), h[k + 1]) = Lowest(fs, idx, h, k + 1)
    <3> HIDE DEF k
    <3> QED BY <2>1, TakenStep
  <2>4. Mention(h, j) = Uses(h, h[j], j)
    BY Zenon DEF Mention, Uses
  <2>5. From(j) = Lowest(fs, idx, h, j)
    BY <2>4, Zenon DEF FromBelow, Lowest, Others, Below
  <2> QED BY <2>1, <2>2, <2>3, <2>5, Zenon DEF k
<1>3. compute_header_hash(fs, idx, sig)
        = Append(FlattenSeq([j \in DOMAIN h |-> Input(fs, Here(j), hc)]), b_stripped(sig, fs[idx].ws))
  BY DEF compute_header_hash
<1>4. Covered(fs, {idx}, h, hc) = FlattenSeq([j \in DOMAIN h |-> Input(fs, From(j), hc)])
  BY DEF Covered
<1>5. [j \in DOMAIN h |-> Input(fs, Here(j), hc)] = [j \in DOMAIN h |-> Input(fs, From(j), hc)]
  <2> HIDE DEF Here, From, hc, h
  <2> QED BY <1>2, Zenon
<1> HIDE DEF Here, From, hc, h
<1> QED BY <1>3, <1>4, <1>5, Zenon DEF h, hc
\* The signatures of a list of fields, one after the other.
LEMMA SignaturesListed ==
    ASSUME NEW fs, IsList(fs)
    PROVE  LET S == Signatures(fs)
               n == Cardinality(S)
           IN /\ \A k \in 1 .. n : Nth(S, k) \in S
              /\ \A i \in S : \E k \in 1 .. n : Nth(S, k) = i
<1> DEFINE S == Signatures(fs)
           n == Cardinality(S)
<1>1. Len(fs) \in Nat /\ DOMAIN fs = 1 .. Len(fs)
  BY ListDomain
<1>2. S \in SUBSET Nat /\ IsFiniteSet(S)
  <2>1. S \in SUBSET (1 .. Len(fs)) /\ IsFiniteSet(1 .. Len(fs))
    BY <1>1, FS_Interval DEF Signatures
  <2>2. IsFiniteSet(S)
    BY <2>1, FS_Subset
  <2> QED BY <1>1, <2>1, <2>2
<1>3. Cardinality(S) = n
  OBVIOUS
<1> HIDE DEF S
<1>4. /\ n \in Nat
      /\ \A i \in S : Rank(S, i) \in 1 .. n
      /\ \A i, j \in S : i < j => Rank(S, i) < Rank(S, j)
      /\ \A k \in 1 .. n : Nth(S, k) \in S /\ Rank(S, Nth(S, k)) = k
  BY <1>2, RankGrows, NthMember
<1>5. \A i : Rank(S, i) = Rank(S, i)
  BY Zenon DEF Rank
<1>6. ASSUME NEW k \in 1 .. n PROVE Nth(S, k) \in S /\ Rank(S, Nth(S, k)) = k
  <2>1. \E i \in S : Rank(S, i) = k
    BY <1>4, <1>5
  <2>2. Nth(S, k) \in S /\ Rank(S, Nth(S, k)) = k
    BY <2>1, Zenon DEF Nth
  <2> QED BY <1>5, <2>2, Zenon
<1>7. ASSUME NEW i \in S PROVE Nth(S, Rank(S, i)) = i /\ Rank(S, i) \in 1 .. n
  <2> DEFINE k == Rank(S, i)
             j == Nth(S, k)
  <2>1. k \in 1 .. n
    BY <1>4
  <2>2. j \in S /\ Rank(S, j) = k
    BY <1>6, <2>1
  <2> HIDE DEF j
  <2>3. i \in Nat /\ j \in Nat
    BY <1>2, <2>2
  <2>4. ~(i < j) /\ ~(j < i)
    BY <1>4, <2>1, <2>2
  <2>5. i = j
    BY <2>3, <2>4
  <2> QED BY <2>1, <2>5 DEF j
<1>8. \A i \in S : \E k \in 1 .. n : Nth(S, k) = i
  BY <1>7
<1> HIDE DEF n
<1> QED BY <1>3, <1>6, <1>8, Zenon DEF S

\* A field's signature is as its signer made it.
SigOK(f) ==
    /\ "sig" \in DOMAIN f
    /\ f.sig.parses => f.sig.by = f.sig.d /\ f.sig.d \in Signers /\ IsList(f.sig.h)

\* A signature passes exactly when it is intact and its key is good.
LEMMA PassIs ==
    ASSUME NEW fs, IsList(fs), NEW i, NEW body, NEW key \in KeyStates, fs[i].sig.parses, SigOK(fs[i])
    PROVE  verify_one(fs, i, fs[i].sig, body, key) = "Pass" <=> key = "good" /\ Intact(fs, i, body)
<1> DEFINE sig == fs[i].sig
           hash == compute_header_hash(fs, i, sig)
           cov == Append(Covered(fs, {i}, sig.h, parse_canon(sig.c).header), b_stripped(sig, fs[i].ws))
           same == Hashed(body, sig) = sig.bh
           v == verify_one(fs, i, sig, body, key)
<1>1. sig.by = sig.d /\ IsList(sig.h)
  BY DEF SigOK
<1>2. hash = cov
  BY <1>1, HashCovers
<1>3. Intact(fs, i, body) <=> ~sig.expired /\ cov = sig.over /\ same
  BY Zenon DEF Intact
<1>4. /\ sig.expired \/ ~same => v = "Fail"
      /\ ~sig.expired /\ same /\ key = "missing" => v = "PermError"
      /\ ~sig.expired /\ same /\ key = "revoked" => v = "Fail"
      /\ ~sig.expired /\ same /\ key \in {"wrong_type", "undecodable"} => v = "PermError"
      /\ ~sig.expired /\ same /\ key = "good"
            => v = IF sig.by = sig.d /\ sig.over = hash THEN "Pass" ELSE "Fail"
  <2> DEFINE inner == CASE key = "missing" -> "PermError"
                        [] key = "revoked" -> "Fail"
                        [] key \in {"wrong_type", "undecodable"} -> "PermError"
                        [] key = "good" -> IF sig.by = sig.d /\ sig.over = hash THEN "Pass" ELSE "Fail"
  <2>1. v = CASE sig.expired -> "Fail" [] ~sig.expired /\ ~same -> "Fail" [] OTHER -> inner
    BY Zenon DEF verify_one
  <2>2. key = "missing" => inner = "PermError"
    BY Zenon
  <2>3. key = "revoked" => inner = "Fail"
    BY Zenon
  <2>4. key \in {"wrong_type", "undecodable"} => inner = "PermError"
    BY Zenon
  <2>5. key = "good" => inner = IF sig.by = sig.d /\ sig.over = hash THEN "Pass" ELSE "Fail"
    BY Zenon
  <2> HIDE DEF v, same, inner, hash, sig
  <2>6. sig.expired => v = "Fail"
    BY <2>1, Zenon
  <2>7. ~sig.expired /\ ~same => v = "Fail"
    BY <2>1, Zenon
  <2>8. ~sig.expired /\ same => v = inner
    BY <2>1, Zenon
  <2> QED BY <2>2, <2>3, <2>4, <2>5, <2>6, <2>7, <2>8, Zenon
<1>5. key \in {"good", "missing", "revoked", "wrong_type", "undecodable"}
  BY DEF KeyStates
<1> HIDE DEF v, same, hash, cov, sig
<1>6. CASE sig.expired \/ ~same
  BY <1>3, <1>4, <1>6 DEF v, sig
<1>7. CASE ~sig.expired /\ same
  <2>1. CASE key = "good"
    <3>1. v = "Pass" <=> cov = sig.over
      BY <1>1, <1>2, <1>4, <1>7, <2>1
    <3> QED BY <1>3, <1>7, <2>1, <3>1 DEF v, sig
  <2>2. CASE key # "good"
    BY <1>4, <1>5, <1>7, <2>2 DEF v, sig
  <2> QED BY <2>1, <2>2
<1> QED BY <1>6, <1>7
\* The parts of an outcome.
LEMMA OutcomeHas == \A a, b : [domain |-> a, result |-> b].result = b
  OBVIOUS

\* The domains whose signatures pass are those whose signatures are intact, when
\* the keys are good, and none otherwise.
LEMMA VerifyIs ==
    ASSUME NEW fs, IsList(fs), \A i \in DOMAIN fs : SigOK(fs[i]), NEW body, NEW key \in KeyStates
    PROVE  Passing(verify(fs, body, [s \in Signers |-> key])) = IF key = "good" THEN Vouching(fs, body) ELSE {}
<1> DEFINE keys == [s \in Signers |-> key]
           S == Signatures(fs)
           n == Cardinality(S)
           Answer(i) == IF fs[i].sig.parses
                         THEN [domain |-> fs[i].sig.d,
                               result |-> verify_one(fs, i, fs[i].sig, body, keys[fs[i].sig.d])]
                         ELSE [domain |-> "", result |-> "PermError"]
           seen == verify(fs, body, keys)
<1>1. seen = [k \in 1 .. n |-> Answer(Nth(S, k))]
  BY DEF verify
<1>2. /\ \A k \in 1 .. n : Nth(S, k) \in S
      /\ \A i \in S : \E k \in 1 .. n : Nth(S, k) = i
  BY SignaturesListed
<1>3. ASSUME NEW i \in S
      PROVE  /\ Answer(i).result = "Pass" <=> key = "good" /\ Intact(fs, i, body)
             /\ Answer(i).result = "Pass" => Answer(i).domain = fs[i].sig.d
  <2>1. CASE fs[i].sig.parses
    <3>1. SigOK(fs[i])
      BY DEF Signatures
    <3>2. keys[fs[i].sig.d] = key
      BY <2>1, <3>1 DEF SigOK
    <3> DEFINE v == verify_one(fs, i, fs[i].sig, body, key)
    <3>3. v = "Pass" <=> key = "good" /\ Intact(fs, i, body)
      BY <2>1, <3>1, PassIs, Zenon
    <3>4. Answer(i) = [domain |-> fs[i].sig.d, result |-> v]
      BY <2>1, <3>2, Zenon
    <3> HIDE DEF v, Answer
    <3>5. Answer(i).domain = fs[i].sig.d /\ Answer(i).result = v
      BY <3>4
    <3> QED BY <3>3, <3>5
  <2>2. CASE ~fs[i].sig.parses
    <3>1. Answer(i) = [domain |-> "", result |-> "PermError"]
      BY <2>2, Zenon
    <3>2. ~Intact(fs, i, body)
      BY <2>2, Zenon DEF Intact
    <3> HIDE DEF Answer
    <3>3. Answer(i).result = "PermError"
      BY <3>1, OutcomeHas, Zenon
    <3> QED BY <3>2, <3>3
  <2> QED BY <2>1, <2>2
<1> HIDE DEF Answer, S, n, seen, keys
<1>4. DOMAIN seen = 1 .. n /\ \A k \in 1 .. n : seen[k] = Answer(Nth(S, k))
  BY <1>1
<1>5. \A d : d \in Passing(seen) <=> \E k \in 1 .. n : seen[k].result = "Pass" /\ d = seen[k].domain
  BY <1>4, Zenon DEF Passing
<1>6. \A d : d \in Vouching(fs, body) <=> \E i \in S : Intact(fs, i, body) /\ d = fs[i].sig.d
  BY Zenon DEF Vouching, S
<1>7. ASSUME NEW d PROVE d \in Passing(seen) <=> key = "good" /\ d \in Vouching(fs, body)
  <2>1. ASSUME d \in Passing(seen) PROVE key = "good" /\ d \in Vouching(fs, body)
    <3>1. PICK k \in 1 .. n : seen[k].result = "Pass" /\ d = seen[k].domain
      BY <1>5, <2>1
    <3> DEFINE i == Nth(S, k)
    <3>2. i \in S /\ seen[k] = Answer(i)
      BY <1>2, <1>4
    <3> HIDE DEF i
    <3>3. Answer(i).result = "Pass" /\ d = Answer(i).domain
      BY <3>1, <3>2
    <3> QED BY <1>3, <1>6, <3>2, <3>3
  <2>2. ASSUME key = "good", d \in Vouching(fs, body) PROVE d \in Passing(seen)
    <3>1. PICK i \in S : Intact(fs, i, body) /\ d = fs[i].sig.d
      BY <1>6, <2>2
    <3>2. PICK k \in 1 .. n : Nth(S, k) = i
      BY <1>2
    <3>3. seen[k] = Answer(i)
      BY <1>4, <3>2
    <3>4. Answer(i).result = "Pass" /\ Answer(i).domain = d
      BY <1>3, <2>2, <3>1
    <3> QED BY <1>5, <3>3, <3>4
  <2> QED BY <2>1, <2>2
<1>8. Passing(seen) = IF key = "good" THEN Vouching(fs, body) ELSE {}
  <2>1. CASE key = "good"
    <3>1. \A d : d \in Passing(seen) <=> d \in Vouching(fs, body)
      BY <1>7, <2>1
    <3> QED BY <2>1, <3>1
  <2>2. CASE key # "good"
    <3>1. \A d : d \notin Passing(seen)
      BY <1>7, <2>2
    <3> QED BY <2>2, <3>1
  <2> QED BY <2>1, <2>2
<1> QED BY <1>8 DEF seen, keys

\* A message is a list of fields, their signatures as they were made, and a body.
IsMessage(m) ==
    /\ m = [fields |-> m.fields, body |-> m.body] /\ IsList(m.fields)
    /\ \A i \in DOMAIN m.fields : SigOK(m.fields[i])
Named(fs, n) == {i \in DOMAIN fs : fs[i].name = n}

\* Fields put on top of others: those of a name are the new ones and, further
\* down, the old ones.
LEMMA OnTop ==
    ASSUME NEW top, NEW fs, IsList(top), IsList(fs), NEW n
    PROVE  /\ Named(top \o fs, n) = Named(top, n) \cup {i + Len(top) : i \in Named(fs, n)}
           /\ IsFiniteSet(Named(top, n)) /\ IsFiniteSet(Named(fs, n)) /\ IsFiniteSet(Named(top \o fs, n))
           /\ Cardinality(Named(top \o fs, n)) <= Cardinality(Named(top, n)) + Cardinality(Named(fs, n))
<1> DEFINE k == Len(top)
           all == top \o fs
           T == Named(top, n)
           F == Named(fs, n)
           S == {i + k : i \in F}
           f == [i \in F |-> i + k]
<1>1. /\ k \in Nat /\ Len(fs) \in Nat /\ DOMAIN top = 1 .. k /\ DOMAIN fs = 1 .. Len(fs)
      /\ DOMAIN all = 1 .. (k + Len(fs))
      /\ \A i \in 1 .. (k + Len(fs)) : all[i] = IF i <= k THEN top[i] ELSE fs[i - k]
  BY ListJoins
<1> HIDE DEF k, all
<1>2. Named(all, n) = T \cup S
  <2>1. \A i \in Named(all, n) : i \in T \cup S
    <3> SUFFICES ASSUME NEW i \in Named(all, n) PROVE i \in T \cup S
      OBVIOUS
    <3>1. i \in 1 .. (k + Len(fs)) /\ all[i].name = n
      BY <1>1 DEF Named
    <3>2. CASE i <= k
      BY <1>1, <3>1, <3>2 DEF Named
    <3>3. CASE ~(i <= k)
      <4>1. i - k \in 1 .. Len(fs) /\ fs[i - k].name = n /\ i = (i - k) + k
        BY <1>1, <3>1, <3>3
      <4>2. i - k \in F
        BY <1>1, <4>1 DEF Named
      <4> QED BY <4>1, <4>2
    <3> QED BY <3>2, <3>3
  <2>2. \A i \in T : i \in Named(all, n)
    BY <1>1 DEF Named
  <2>3. \A i \in F : i + k \in Named(all, n)
    <3> SUFFICES ASSUME NEW i \in F PROVE i + k \in Named(all, n)
      OBVIOUS
    <3>1. i \in 1 .. Len(fs) /\ fs[i].name = n
      BY <1>1 DEF Named
    <3>2. i + k \in 1 .. (k + Len(fs)) /\ ~(i + k <= k) /\ (i + k) - k = i
      BY <1>1, <3>1
    <3>3. all[i + k] = fs[i]
      BY <1>1, <3>2
    <3> QED BY <1>1, <3>1, <3>2, <3>3 DEF Named
  <2> QED BY <2>1, <2>2, <2>3
<1>3. IsFiniteSet(T) /\ IsFiniteSet(F) /\ F \in SUBSET Nat
  <2>1. T \in SUBSET (1 .. k) /\ F \in SUBSET (1 .. Len(fs))
    BY <1>1 DEF Named
  <2>2. IsFiniteSet(1 .. k) /\ IsFiniteSet(1 .. Len(fs))
    BY <1>1, FS_Interval
  <2> HIDE DEF T, F
  <2>3. IsFiniteSet(T) /\ IsFiniteSet(F)
    BY <2>1, <2>2, FS_Subset
  <2> QED BY <1>1, <2>1, <2>3
<1> HIDE DEF T, F
<1>4. IsFiniteSet(S) /\ Cardinality(S) = Cardinality(F)
  <2>1. f \in Bijection(F, S)
    BY <1>1, <1>3 DEF Bijection, Injection, Surjection, IsInjective
  <2>2. ExistsBijection(F, S)
    BY <2>1 DEF ExistsBijection
  <2> HIDE DEF S
  <2> QED BY <1>3, <2>2, FS_Bijection
<1> HIDE DEF S
<1>5. IsFiniteSet(T \cup S) /\ Cardinality(T \cup S) <= Cardinality(T) + Cardinality(F)
  <2>1. IsFiniteSet(T \cup S) /\ Cardinality(T \cup S) = Cardinality(T) + Cardinality(S) - Cardinality(T \cap S)
    BY <1>3, <1>4, FS_Union
  <2>2. IsFiniteSet(T \cap S)
    BY <1>3, FS_Subset
  <2>3. Cardinality(T) \in Nat /\ Cardinality(S) \in Nat /\ Cardinality(T \cap S) \in Nat
    BY <1>3, <1>4, <2>2, FS_CardinalityType
  <2> QED BY <1>4, <2>1, <2>3
<1> QED BY <1>2, <1>3, <1>5 DEF T, F, S, k, all

\* Signatures stay as they are when fields are put on top of others.
LEMMA SigsJoin ==
    ASSUME NEW top, NEW fs, IsList(top), IsList(fs),
           \A i \in DOMAIN top : SigOK(top[i]), \A i \in DOMAIN fs : SigOK(fs[i])
    PROVE  \A i \in DOMAIN (top \o fs) : SigOK((top \o fs)[i])
<1> DEFINE all == top \o fs
           k == Len(top)
<1>1. /\ k \in Nat /\ Len(fs) \in Nat /\ DOMAIN top = 1 .. k /\ DOMAIN fs = 1 .. Len(fs)
      /\ DOMAIN all = 1 .. (k + Len(fs))
      /\ \A i \in 1 .. (k + Len(fs)) : all[i] = IF i <= k THEN top[i] ELSE fs[i - k]
  BY ListJoins
<1> HIDE DEF all, k
<1>2. ASSUME NEW i \in DOMAIN all PROVE SigOK(all[i])
  <2>1. CASE i <= k
    <3>1. i \in DOMAIN top /\ all[i] = top[i]
      BY <1>1, <2>1
    <3> QED BY <3>1
  <2>2. CASE ~(i <= k)
    <3>1. i - k \in DOMAIN fs /\ all[i] = fs[i - k]
      BY <1>1, <2>2
    <3> QED BY <3>1
  <2> QED BY <2>1, <2>2
<1> QED BY <1>2 DEF all

\* What is put on top of a delivered message.
StampTop(a, token) ==
    (<<Field("received", "here")>>
     \o (IF a.spf = "None" THEN <<>> ELSE <<Field("received-spf", a.spf)>>))
    \o <<Field("authentication-results", token)>>

\* A new field has its name and text, and no signature that parses.
LEMMA FieldHas == \A n, t : Field(n, t).name = n /\ Field(n, t).text = t /\ SigOK(Field(n, t))
<1>1. \A n, t : Field(n, t).name = n /\ Field(n, t).text = t /\ Field(n, t).sig = NoSig
      /\ "sig" \in DOMAIN Field(n, t)
  BY DEF Field
<1>2. ~NoSig.parses
  BY DEF NoSig
<1> QED BY <1>1, <1>2, Zenon DEF SigOK

\* The empty list.
LEMMA ListEmpty == IsList(<<>>) /\ Len(<<>>) = 0
<1>1. <<>> \in Seq({<<>>[i] : i \in DOMAIN <<>>})
  BY EmptySeq
<1> QED BY <1>1, EmptySeq DEF IsList

\* It has one hop, and one result, the last of it.
LEMMA StampTopHas ==
    ASSUME NEW a, NEW token
    PROVE  LET top == StampTop(a, token)
           IN /\ IsList(top) /\ Len(top) > 1 /\ Len(top) \in Nat /\ DOMAIN top = 1 .. Len(top)
              /\ top[1] = Field("received", "here")
              /\ top[Len(top)] = Field("authentication-results", token)
              /\ Named(top, "received") = {1}
              /\ Named(top, "authentication-results") = {Len(top)}
              /\ \A i \in DOMAIN top : SigOK(top[i])
<1> DEFINE one == <<Field("received", "here")>>
           mid == IF a.spf = "None" THEN <<>> ELSE <<Field("received-spf", a.spf)>>
           end == <<Field("authentication-results", token)>>
           top == StampTop(a, token)
<1>1. IsList(one) /\ Len(one) = 1 /\ one[1] = Field("received", "here")
  BY ListFirst
<1>2. IsList(end) /\ Len(end) = 1 /\ end[1] = Field("authentication-results", token)
  BY ListFirst
<1>3. IsList(mid) /\ Len(mid) \in {0, 1} /\ (Len(mid) = 1 => mid[1] = Field("received-spf", a.spf))
  <2>1. CASE a.spf = "None"
    BY <2>1, ListEmpty
  <2>2. CASE a.spf # "None"
    BY <2>2, ListFirst
  <2> QED BY <2>1, <2>2
<1>4. top = (one \o mid) \o end
  BY Zenon DEF StampTop
<1> HIDE DEF one, mid, end, top
<1>5. /\ IsList(one \o mid) /\ DOMAIN (one \o mid) = 1 .. (1 + Len(mid))
      /\ \A i \in 1 .. (1 + Len(mid)) : (one \o mid)[i] = IF i <= 1 THEN one[i] ELSE mid[i - 1]
  <2>1. /\ IsList(one \o mid) /\ DOMAIN (one \o mid) = 1 .. (Len(one) + Len(mid))
        /\ \A i \in 1 .. (Len(one) + Len(mid)) :
                (one \o mid)[i] = IF i <= Len(one) THEN one[i] ELSE mid[i - Len(one)]
    BY <1>1, <1>3, ListJoins
  <2> QED BY <1>1, <2>1, Zenon
<1> DEFINE om == one \o mid
<1>6. IsList(om) /\ DOMAIN om = 1 .. (1 + Len(mid)) /\ Len(om) = 1 + Len(mid)
      /\ om[1] = Field("received", "here") /\ (Len(mid) = 1 => om[2] = Field("received-spf", a.spf))
  <2>1. IsList(om) /\ DOMAIN om = 1 .. (1 + Len(mid)) /\ DOMAIN om = 1 .. Len(om) /\ Len(om) \in Nat
    <3>1. IsList(om) /\ DOMAIN om = 1 .. (1 + Len(mid))
      BY <1>5
    <3> HIDE DEF om
    <3> QED BY <1>2, <3>1, ListJoins
  <2>2. om[1] = Field("received", "here") /\ (Len(mid) = 1 => om[2] = Field("received-spf", a.spf))
    BY <1>1, <1>3, <1>5
  <2> HIDE DEF om
  <2>3. Len(om) = 1 + Len(mid)
    BY <1>3, <2>1
  <2> QED BY <2>1, <2>2, <2>3
<1>7. top = om \o end
  BY <1>4
<1> HIDE DEF om
<1>8. /\ IsList(top) /\ DOMAIN top = 1 .. (Len(om) + 1)
      /\ \A i \in 1 .. (Len(om) + 1) : top[i] = IF i <= Len(om) THEN om[i] ELSE end[i - Len(om)]
  <2>1. /\ IsList(om \o end) /\ DOMAIN (om \o end) = 1 .. (Len(om) + Len(end))
        /\ \A i \in 1 .. (Len(om) + Len(end)) :
                (om \o end)[i] = IF i <= Len(om) THEN om[i] ELSE end[i - Len(om)]
    BY <1>2, <1>6, ListJoins
  <2> QED BY <1>2, <1>7, <2>1, Zenon
<1>9. DOMAIN top = 1 .. Len(top) /\ Len(top) \in Nat
  BY <1>2, <1>8, ListJoins
<1>10. Len(top) = Len(mid) + 2
  BY <1>3, <1>6, <1>8, <1>9
<1>11. /\ top[1] = Field("received", "here")
       /\ top[Len(mid) + 2] = Field("authentication-results", token)
       /\ Len(mid) = 1 => top[2] = Field("received-spf", a.spf)
  BY <1>2, <1>3, <1>6, <1>8
<1>12. /\ Named(top, "received") = {1}
       /\ Named(top, "authentication-results") = {Len(top)}
  <2>1. CASE Len(mid) = 0
    <3>1. DOMAIN top = {1, 2} /\ Len(top) = 2
      BY <1>9, <1>10, <2>1
    <3> QED BY <1>11, <2>1, <3>1, FieldHas DEF Named
  <2>2. CASE Len(mid) = 1
    <3>1. DOMAIN top = {1, 2, 3} /\ Len(top) = 3
      BY <1>9, <1>10, <2>2
    <3> QED BY <1>11, <2>2, <3>1, FieldHas DEF Named
  <2> QED BY <1>3, <2>1, <2>2
<1>13. Len(top) > 1
  BY <1>3, <1>10
<1>14. \A i \in DOMAIN top : SigOK(top[i])
  <2>1. CASE Len(mid) = 0
    <3>1. DOMAIN top = {1, 2}
      BY <1>9, <1>10, <2>1
    <3> QED BY <1>11, <2>1, <3>1, FieldHas
  <2>2. CASE Len(mid) = 1
    <3>1. DOMAIN top = {1, 2, 3}
      BY <1>9, <1>10, <2>2
    <3> QED BY <1>11, <2>2, <3>1, FieldHas
  <2> QED BY <1>3, <2>1, <2>2
<1> QED BY <1>8, <1>9, <1>10, <1>11, <1>12, <1>13, <1>14 DEF top

\* A delivered message has one hop more, on top, and its topmost result is the
\* token.
LEMMA StampedHas ==
    ASSUME NEW a, NEW token, IsMessage(a.msg)
    PROVE  LET m == Stamped(a, token)
           IN /\ IsMessage(m) /\ m.fields[1] = Field("received", "here")
              /\ Cardinality(Named(m.fields, "received")) <= Cardinality(Named(a.msg.fields, "received")) + 1
              /\ m.fields[Min(Named(m.fields, "authentication-results"))].text = token
<1> DEFINE m == Stamped(a, token)
           top == StampTop(a, token)
           old == a.msg.fields
           all == top \o old
           k == Len(top)
<1>1. m = [a.msg EXCEPT !.fields = all]
  BY DEF Stamped, StampTop
<1>2. /\ IsList(top) /\ k > 1 /\ k \in Nat /\ DOMAIN top = 1 .. k
      /\ top[1] = Field("received", "here")
      /\ top[k] = Field("authentication-results", token)
      /\ Named(top, "received") = {1}
      /\ Named(top, "authentication-results") = {k}
      /\ \A i \in DOMAIN top : SigOK(top[i])
  BY StampTopHas
<1>3. /\ IsList(old) /\ a.msg = [fields |-> old, body |-> a.msg.body]
      /\ \A i \in DOMAIN old : SigOK(old[i])
  BY DEF IsMessage
<1> HIDE DEF top, old, k
<1>4. /\ IsList(all) /\ Len(old) \in Nat /\ DOMAIN all = 1 .. (k + Len(old)) /\ DOMAIN old = 1 .. Len(old)
      /\ \A i \in 1 .. (k + Len(old)) : all[i] = IF i <= k THEN top[i] ELSE old[i - k]
  BY <1>2, <1>3, ListJoins DEF k
<1>5. /\ Cardinality(Named(all, "received")) <= 1 + Cardinality(Named(old, "received"))
      /\ Cardinality(Named(old, "received")) \in Nat
  <2>1. /\ Cardinality(Named(all, "received")) <= Cardinality(Named(top, "received")) + Cardinality(Named(old, "received"))
        /\ IsFiniteSet(Named(old, "received"))
    BY <1>2, <1>3, OnTop
  <2>2. Cardinality({1}) = 1
    BY FS_Singleton
  <2> HIDE DEF all
  <2> QED BY <1>2, <2>1, <2>2, FS_CardinalityType
<1>6. Named(all, "authentication-results") = {k} \cup {i + k : i \in Named(old, "authentication-results")}
  <2>1. Named(top \o old, "authentication-results")
          = Named(top, "authentication-results") \cup {i + Len(top) : i \in Named(old, "authentication-results")}
    BY <1>2, <1>3, OnTop
  <2> QED BY <1>2, <2>1, Zenon DEF k
<1>7. Min(Named(all, "authentication-results")) = k
  <2> DEFINE N == Named(all, "authentication-results")
  <2>1. k \in N /\ \A i \in N : i \in Nat /\ k <= i
    BY <1>2, <1>4, <1>6 DEF Named
  <2> HIDE DEF N
  <2>2. \E x \in N : \A y \in N : x <= y
    BY <2>1, Zenon
  <2>3. Min(N) \in N /\ \A y \in N : Min(N) <= y
    BY <2>2, Zenon DEF Min
  <2> DEFINE x == Min(N)
  <2>4. x \in Nat /\ k <= x /\ x <= k
    BY <2>1, <2>3, Zenon
  <2> HIDE DEF x
  <2>5. x = k
    BY <1>2, <2>4
  <2> QED BY <2>5 DEF N, x
<1>8. all[1] = Field("received", "here") /\ all[k].text = token
  <2>1. all[1] = top[1] /\ all[k] = top[k]
    BY <1>2, <1>4
  <2> HIDE DEF all
  <2> QED BY <1>2, <2>1, FieldHas
<1> HIDE DEF all, m
<1>9. m.fields = all /\ m = [fields |-> all, body |-> a.msg.body] /\ m.body = a.msg.body
  BY <1>1, <1>3
<1>10. IsMessage(m)
  <2>1. \A i \in DOMAIN all : SigOK(all[i])
    BY <1>2, <1>3, SigsJoin DEF all
  <2> QED BY <1>4, <1>9, <2>1, Zenon DEF IsMessage
<1> QED BY <1>5, <1>7, <1>8, <1>9, <1>10 DEF m, old
\* A message is a list of fields and a body, and one under evaluation has fewer
\* hops than the limit.
Hops(m) == Cardinality(Named(m.fields, "received"))
MessagesOK ==
    /\ IsMessage(msg) /\ IsMessage(auth.msg) /\ IsMessage(last.msg)
    /\ auth # NoAuth => Hops(auth.msg) < MAX_RECEIVED_HOPS

\* No message is a message without fields.
LEMMA NoMessage == IsMessage(NoMsg) /\ NoAuth.msg = NoMsg /\ NoLast.msg = NoMsg
<1>1. NoMsg.fields = <<>> /\ NoMsg = [fields |-> NoMsg.fields, body |-> NoMsg.body]
  BY DEF NoMsg
<1>2. NoAuth.msg = NoMsg /\ NoLast.msg = NoMsg
  BY DEF NoAuth, NoLast
<1> QED BY <1>1, <1>2, ListEmpty DEF IsMessage

\* Nothing was promised about a message that was neither delivered nor refused
\* by its sender's policy.
LEMMA NoVerdict ==
    ASSUME last'.reply \notin {"250", "550 dmarc"}
    PROVE  VerdictRight'
  BY DEF PolicyEnforced, TraceTrue, VerdictRight

\* Lists of one and of two fields.
LEMMA NewFields ==
    ASSUME NEW x, NEW y, SigOK(x), SigOK(y)
    PROVE  /\ \A i \in DOMAIN <<x>> : SigOK(<<x>>[i])
           /\ IsList(<<x, y>>) /\ \A i \in DOMAIN <<x, y>> : SigOK(<<x, y>>[i])
<1>1. DOMAIN <<x>> = {1} /\ <<x>>[1] = x
  OBVIOUS
<1>2. <<x, y>> \in Seq({x, y}) /\ DOMAIN <<x, y>> = {1, 2} /\ <<x, y>>[1] = x /\ <<x, y>>[2] = y
  OBVIOUS
<1>3. IsList(<<x, y>>)
  BY <1>2 DEF IsList
<1> QED BY <1>1, <1>2, <1>3, Zenon

\* What a signer puts on top is its own signature.
LEMMA SignIs ==
    ASSUME NEW m, NEW d \in Signers, NEW p \in Profiles
    PROVE  \E f : SigOK(f) /\ Sign(m, d, p) = [m EXCEPT !.fields = <<f>> \o m.fields]
<1> DEFINE draft == [NoSig EXCEPT !.parses = TRUE, !.d = d, !.h = p.h, !.c = p.c, !.l = p.l,
                                    !.expired = p.expired, !.by = d]
           sig == [draft EXCEPT !.bh = Hashed(m.body, draft)]
           over == Append(Covered(m.fields, {}, p.h, parse_canon(p.c).header), b_stripped(sig, Plain))
           full == [sig EXCEPT !.over = over]
           f == [Field("dkim-signature", d) EXCEPT !.sig = full]
<1>1. Sign(m, d, p) = [m EXCEPT !.fields = <<f>> \o m.fields]
  BY DEF Sign
<1>2. draft.by = d /\ draft.d = d /\ draft.h = p.h /\ {"by", "d", "h"} \subseteq DOMAIN draft
  BY DEF NoSig
<1> HIDE DEF draft
<1>3. sig.by = d /\ sig.d = d /\ sig.h = p.h /\ {"by", "d", "h"} \subseteq DOMAIN sig
  BY <1>2
<1> HIDE DEF sig, over
<1>4. full.by = d /\ full.d = d /\ full.h = p.h
  BY <1>3
<1> HIDE DEF full
<1>5. f.sig = full /\ "sig" \in DOMAIN f
  BY DEF Field
<1>6. IsList(p.h)
  BY AuthAssumption, ListTyped
<1> HIDE DEF f
<1>7. SigOK(f)
  BY <1>4, <1>5, <1>6 DEF SigOK
<1> QED BY <1>1, <1>7

\* What senders, signers and forwarders make of a message is a message.
LEMMA OnItsWay ==
    ASSUME IsMessage(msg), IsMessage(last.msg),
           Compose \/ AddSignature \/ Forward \/ ComeBack
    PROVE  IsMessage(msg')
<1>1. ASSUME NEW fs, IsList(fs), \A i \in DOMAIN fs : SigOK(fs[i]), msg' = [msg EXCEPT !.fields = fs]
      PROVE  IsMessage(msg')
  <2>1. msg' = [fields |-> fs, body |-> msg.body]
    BY <1>1 DEF IsMessage
  <2>2. msg'.fields = fs /\ msg'.body = msg.body
    BY <2>1
  <2> QED BY <1>1, <2>1, <2>2, Zenon DEF IsMessage
<1>2. IsList(msg.fields) /\ \A i \in DOMAIN msg.fields : SigOK(msg.fields[i])
  BY DEF IsMessage
<1>3. ASSUME NEW f, SigOK(f), msg' = [msg EXCEPT !.fields = <<f>> \o msg.fields] PROVE IsMessage(msg')
  <2>1. IsList(<<f>> \o msg.fields)
    BY <1>2, ListFirst, ListJoins
  <2>2. \A i \in DOMAIN <<f>> : SigOK(<<f>>[i])
    BY <1>3, NewFields, Zenon
  <2> DEFINE fs == <<f>> \o msg.fields
  <2>3. \A i \in DOMAIN fs : SigOK(fs[i])
    BY <1>2, <2>2, ListFirst, SigsJoin
  <2>4. msg' = [msg EXCEPT !.fields = fs]
    BY <1>3
  <2> HIDE DEF fs
  <2> QED BY <1>1, <2>1, <2>3, <2>4 DEF fs
<1>4. ASSUME NEW d, msg' = [fields |-> <<Field("from", d), Field("subject", "s")>>,
                            body |-> <<[text |-> "hello", ws |-> Plain]>>]
      PROVE  IsMessage(msg')
  <2> DEFINE x == Field("from", d)
             y == Field("subject", "s")
             fs == <<x, y>>
             b == <<[text |-> "hello", ws |-> Plain]>>
  <2>1. SigOK(x) /\ SigOK(y)
    BY FieldHas, Zenon
  <2>2. msg' = [fields |-> fs, body |-> b]
    BY <1>4
  <2> HIDE DEF x, y, b
  <2>3. IsList(fs) /\ \A i \in DOMAIN fs : SigOK(fs[i])
    BY <2>1, NewFields, Zenon
  <2> HIDE DEF fs
  <2>4. msg'.fields = fs /\ msg'.body = b
    BY <2>2
  <2> QED BY <2>2, <2>3, <2>4, Zenon DEF IsMessage
<1>5. CASE Compose
  BY <1>4, <1>5 DEF Compose
<1>6. CASE AddSignature
  <2>1. PICK d \in Signers, p \in Profiles : msg' = Sign(msg, d, p)
    BY <1>6, Zenon DEF AddSignature
  <2>2. PICK f : SigOK(f) /\ Sign(msg, d, p) = [msg EXCEPT !.fields = <<f>> \o msg.fields]
    BY SignIs
  <2>3. msg' = [msg EXCEPT !.fields = <<f>> \o msg.fields]
    BY <2>1, <2>2, Zenon
  <2> QED BY <1>3, <2>2, <2>3
<1>7. CASE ComeBack
  BY <1>7 DEF ComeBack
<1>8. CASE Forward
  <2>1. ASSUME NEW i \in DOMAIN msg.fields,
               \/ msg' = [msg EXCEPT !.fields[i].ws = "spaced"]
               \/ msg' = [msg EXCEPT !.fields[i].text = "forged"]
        PROVE  IsMessage(msg')
    <3> DEFINE old == msg.fields[i]
    <3>1. PICK x \in {[old EXCEPT !.ws = "spaced"], [old EXCEPT !.text = "forged"]} :
              msg' = [msg EXCEPT !.fields = [msg.fields EXCEPT ![i] = x]]
      BY <2>1
    <3>2. SigOK(x)
      <4>1. SigOK(old)
        BY <1>2
      <4> HIDE DEF old
      <4>2. "sig" \in DOMAIN old
        BY <4>1, Zenon DEF SigOK
      <4>3. x.sig = old.sig /\ "sig" \in DOMAIN x
        BY <3>1, <4>2
      <4> QED BY <4>1, <4>3, Zenon DEF SigOK
    <3> DEFINE fs == [msg.fields EXCEPT ![i] = x]
    <3>3. /\ DOMAIN fs = DOMAIN msg.fields /\ fs = [j \in DOMAIN msg.fields |-> fs[j]]
          /\ \A j \in DOMAIN msg.fields : fs[j] = IF j = i THEN x ELSE msg.fields[j]
      OBVIOUS
    <3>4. msg' = [msg EXCEPT !.fields = fs]
      BY <3>1
    <3> HIDE DEF fs
    <3>5. IsList(fs)
      BY <1>2, <3>3, ListEdits
    <3>6. \A j \in DOMAIN fs : SigOK(fs[j])
      BY <1>2, <3>2, <3>3
    <3> QED BY <1>1, <3>4, <3>5, <3>6
  <2>2. ASSUME NEW b, msg' = [msg EXCEPT !.body = b] PROVE IsMessage(msg')
    <3>1. msg' = [fields |-> msg.fields, body |-> b]
      BY <2>2 DEF IsMessage
    <3>2. msg'.fields = msg.fields /\ msg'.body = b
      BY <3>1
    <3> QED BY <1>2, <3>1, <3>2, Zenon DEF IsMessage
  <2>3. ASSUME NEW n, NEW t, msg' = [msg EXCEPT !.fields = <<Field(n, t)>> \o msg.fields] PROVE IsMessage(msg')
    <3>1. SigOK(Field(n, t))
      BY FieldHas, Zenon
    <3> QED BY <1>3, <2>3, <3>1
  <2> DEFINE news == {Field("received", "r"), Field("subject", "x"), Field("dkim-signature", "?"),
                      Field("authentication-results", "pass")} \cup {Field("from", d) : d \in Signers}
  <2>4. \A f \in news : \E n, t : f = Field(n, t)
    BY Zenon
  <2> HIDE DEF news
  <2>5. CASE \E f \in news : msg' = [msg EXCEPT !.fields = <<f>> \o msg.fields]
    <3>1. PICK f \in news : msg' = [msg EXCEPT !.fields = <<f>> \o msg.fields]
      BY <2>5
    <3>2. PICK n, t : f = Field(n, t)
      BY <2>4
    <3>3. msg' = [msg EXCEPT !.fields = <<Field(n, t)>> \o msg.fields]
      BY <3>1, <3>2, Zenon
    <3> QED BY <2>3, <3>3
  <2>6. \/ \E f \in news : msg' = [msg EXCEPT !.fields = <<f>> \o msg.fields]
        \/ \E i \in DOMAIN msg.fields : msg' \in {[msg EXCEPT !.fields[i].ws = "spaced"],
                                                 [msg EXCEPT !.fields[i].text = "forged"]}
        \/ \E b : msg' = [msg EXCEPT !.body = b]
    BY <1>8 DEF Forward, news
  <2> QED BY <2>1, <2>2, <2>5, <2>6
<1> QED BY <1>5, <1>6, <1>7, <1>8

\* Only a policy of rejection makes a rejection, and at 100 percent nothing else.
LEMMA PctRejects ==
    ASSUME NEW p, NEW pct
    PROVE  /\ "reject" \in apply_pct(p, pct) => p = "reject"
           /\ \A x \in apply_pct("reject", 100) : x = "reject"
<1>1. Milder(p) # "reject"
  BY Zenon DEF Milder
<1>2. apply_pct(p, pct) \in {{p}, {Milder(p)}, {p, Milder(p)}}
  BY Zenon DEF apply_pct
<1>3. apply_pct("reject", 100) = {"reject"}
  <2>1. 100 # 0
    OBVIOUS
  <2>2. \A q, n : n = 100 /\ n # 0 => apply_pct(q, n) = {q}
    BY Zenon DEF apply_pct
  <2> QED BY <2>1, <2>2, Zenon
<1> QED BY <1>1, <1>2, <1>3

\* Unless DNS fails, the record that evaluate() goes by and the policy it takes
\* from it are the ones the zone holds for the sender.
LEMMA RecordIsTrue ==
    ASSUME NEW from, NEW own, NEW org,
           own = lookup(from),
           own = NoRecord => org = lookup(organizational_domain(from))
    PROVE  LET rec == RecordOf(own, IF organizational_domain(from) = from THEN NoRecord ELSE org)
           IN rec = TrueRecord(from) /\ PolicyOf(own, rec) = TruePolicy(from)
<1> DEFINE od == organizational_domain(from)
           rec == RecordOf(own, IF od = from THEN NoRecord ELSE org)
           true == TrueRecord(from)
<1>1. true = IF lookup(from) # NoRecord THEN lookup(from) ELSE lookup(od)
  BY DEF TrueRecord
<1>2. TruePolicy(from) = IF true # lookup(from) /\ true.sp # "absent" THEN true.sp ELSE true.policy
  BY DEF TruePolicy
<1>3. rec = IF own # NoRecord THEN own ELSE IF od = from THEN NoRecord ELSE org
  BY DEF RecordOf
<1>4. NoRecord.sp = "absent"
  BY DEF NoRecord
<1> HIDE DEF od, rec, true
<1>5. rec = true
  <2>1. CASE own # NoRecord
    BY <1>1, <1>3, <2>1
  <2>2. CASE own = NoRecord
    BY <1>1, <1>3, <2>2 DEF od
  <2> QED BY <2>1, <2>2
<1>6. PolicyOf(own, rec) = TruePolicy(from)
  <2>1. CASE own # NoRecord
    BY <1>1, <1>2, <1>5, <2>1 DEF PolicyOf
  <2>2. CASE own = NoRecord
    BY <1>1, <1>2, <1>4, <1>5, <2>2 DEF PolicyOf
  <2> QED BY <2>1, <2>2
<1> QED BY <1>5, <1>6 DEF rec, od, true

\* One more hop than less than the limit is within it.
LEMMA OneMore == \A x, y, z \in Nat : x <= y + 1 /\ y < z => x <= z
  OBVIOUS

\* A delivered message has one hop more than it came with, on top.
LEMMA StampedTrace ==
    ASSUME MessagesOK, auth # NoAuth, NEW token
    PROVE  LET m == Stamped(auth, token)
           IN /\ IsMessage(m) /\ m.fields[1] = Field("received", "here")
              /\ Cardinality(Named(m.fields, "received")) <= MAX_RECEIVED_HOPS
              /\ m.fields[Min(Named(m.fields, "authentication-results"))].text = token
<1> DEFINE m == Stamped(auth, token)
           old == auth.msg.fields
           N == Named(m.fields, "received")
           O == Named(old, "received")
<1>1. /\ IsMessage(m) /\ m.fields[1] = Field("received", "here")
      /\ Cardinality(N) <= Cardinality(O) + 1
      /\ m.fields[Min(Named(m.fields, "authentication-results"))].text = token
  BY StampedHas DEF MessagesOK
<1>2. Cardinality(O) < MAX_RECEIVED_HOPS /\ MAX_RECEIVED_HOPS \in Nat
  BY AuthAssumption DEF MessagesOK, Hops
<1>3. Cardinality(O) \in Nat /\ Cardinality(N) \in Nat
  <2>1. IsList(m.fields) /\ IsList(old)
    BY <1>1 DEF IsMessage, MessagesOK
  <2>2. IsFiniteSet(N) /\ IsFiniteSet(O)
    BY <2>1, ListEmpty, OnTop
  <2> QED BY <2>2, FS_CardinalityType
<1>4. Cardinality(N) = Cardinality(N)
  OBVIOUS
<1> HIDE DEF m, N, O
<1>5. Cardinality(N) <= MAX_RECEIVED_HOPS
  <2>1. Cardinality(N) <= MAX_RECEIVED_HOPS
    BY <1>1, <1>2, <1>3, OneMore, Zenon
  <2> QED BY <1>4, <2>1, Zenon
<1> QED BY <1>1, <1>5 DEF m, N

\* The reply and the trace of a message judged without a policy.
LEMMA DeliveredAnyway ==
    ASSUME MessagesOK, auth # NoAuth,
           last' = [NoLast EXCEPT !.reply = "250", !.msg = Stamped(auth, "absent")]
    PROVE  VerdictRight' /\ IsMessage(last'.msg)
<1> DEFINE m == Stamped(auth, "absent")
<1>1. last'.reply = "250" /\ last'.msg = m /\ last'.policy = "absent"
  BY DEF NoLast
<1>2. /\ IsMessage(m) /\ m.fields[1] = Field("received", "here")
      /\ Cardinality(Named(m.fields, "received")) <= MAX_RECEIVED_HOPS
  BY StampedTrace
<1> HIDE DEF m
<1>3. PolicyEnforced'
  BY <1>1 DEF PolicyEnforced
<1>4. TraceTrue'
  BY <1>1, <1>2 DEF TraceTrue, Named
<1> QED BY <1>1, <1>2, <1>3, <1>4 DEF VerdictRight

\* The parts of the last verdict.
Parts(x, a, b, c, d, e, f) ==
    x.reply = a /\ x.msg = b /\ x.authentic = c /\ x.policy = d /\ x.pct = e /\ x.trouble = f
Verdict(a, b, c, d, e, f) ==
    [reply |-> a, msg |-> b, authentic |-> c, policy |-> d, pct |-> e, trouble |-> f]

\* A verdict has its parts.
LEMMA VerdictHas ==
    ASSUME NEW a, NEW b, NEW c, NEW d, NEW e, NEW f, NEW x, x = Verdict(a, b, c, d, e, f)
    PROVE  Parts(x, a, b, c, d, e, f)
  BY DEF Parts, Verdict

\* The reply and the trace of a message judged by its sender's policy.
LEMMA JudgedRight ==
    ASSUME MessagesOK, DkimRight, auth # NoAuth, conf.resolver, UNCHANGED conf,
           NEW own, NEW org,
           NEW r \in evaluate(auth, own,
                                IF organizational_domain(auth.from) = auth.from THEN NoRecord ELSE org),
           last' = [reply |-> IF refused(r) THEN "550 dmarc" ELSE "250",
                    msg |-> IF refused(r) THEN NoMsg ELSE Stamped(auth, Token(r)),
                    authentic |-> Authentic(auth), policy |-> TruePolicy(auth.from),
                    pct |-> TrueRecord(auth.from).pct,
                    trouble |-> own # lookup(auth.from)
                                \/ (own = NoRecord /\ org # lookup(organizational_domain(auth.from)))]
    PROVE  VerdictRight' /\ IsMessage(last'.msg)
<1> DEFINE parent == IF organizational_domain(auth.from) = auth.from THEN NoRecord ELSE org
           rec == RecordOf(own, parent)
           m == Stamped(auth, Token(r))
           no == refused(r)
           vouched == Authentic(auth)
           policy == TruePolicy(auth.from)
           pct == TrueRecord(auth.from).pct
           trouble == own # lookup(auth.from)
                      \/ (own = NoRecord /\ org # lookup(organizational_domain(auth.from)))
<1>1. /\ last'.reply = IF no THEN "550 dmarc" ELSE "250"
      /\ last'.msg = IF no THEN NoMsg ELSE m
      /\ last'.authentic = vouched /\ last'.policy = policy /\ last'.pct = pct /\ last'.trouble = trouble
  <2> HIDE DEF no, m, vouched, policy, pct, trouble
  <2> DEFINE ans == IF no THEN "550 dmarc" ELSE "250"
             left == IF no THEN NoMsg ELSE m
  <2>1. last' = Verdict(ans, left, vouched, policy, pct, trouble)
    BY Zenon DEF Verdict, no, m, vouched, policy, pct, trouble
  <2> HIDE DEF ans, left
  <2>2. \A x : x = Verdict(ans, left, vouched, policy, pct, trouble)
                 => Parts(x, ans, left, vouched, policy, pct, trouble)
    BY VerdictHas, Zenon
  <2>3. Parts(last', ans, left, vouched, policy, pct, trouble)
    BY <2>1, <2>2, Zenon
  <2> QED BY <2>3, Zenon DEF Parts, ans, left
<1>2. /\ IsMessage(m) /\ m.fields[1] = Field("received", "here")
      /\ Cardinality(Named(m.fields, "received")) <= MAX_RECEIVED_HOPS
      /\ m.fields[Min(Named(m.fields, "authentication-results"))].text = Token(r)
  BY StampedTrace
<1>3. no = (conf.dmarc /\ r.disposition = "reject")
  BY DEF refused
<1>4. ASSUME ~trouble PROVE /\ rec = TrueRecord(auth.from) /\ PolicyOf(own, rec) = policy
  BY <1>4, RecordIsTrue
<1>5. ASSUME ~trouble PROVE vouched = (SpfAligned(auth, rec) \/ DkimAligned(auth, rec))
  <2>1. auth.pass = auth.truth
    BY DEF DkimRight
  <2> QED BY <1>4, <1>5, <2>1, Zenon DEF Authentic, SpfAligned, DkimAligned
<1>6. /\ rec = NoRecord => r = NoResult
      /\ rec # NoRecord
            => /\ r.rec = rec
               /\ r.pass = (SpfAligned(auth, r.rec) \/ DkimAligned(auth, r.rec))
               /\ r.pass => r.disposition = "none"
               /\ ~r.pass => r.disposition \in apply_pct(PolicyOf(own, r.rec), r.rec.pct)
  <2> HIDE DEF parent
  <2>1. r \in evaluate(auth, own, parent)
    BY Zenon DEF parent
  <2>2. rec = RecordOf(own, parent)
    OBVIOUS
  <2> HIDE DEF rec
  <2>3. Result(auth, own, RecordOf(own, parent), r)
    BY <2>1, EvaluateIs, Zenon
  <2> QED BY <2>2, <2>3, Zenon DEF Result
<1>7. /\ NoResult.disposition = "none"
      /\ PolicyOf(own, NoRecord) = "absent"
  BY DEF NoResult, NoRecord, PolicyOf
<1>8. Token(r) = IF r.rec = NoRecord THEN "none" ELSE IF r.pass THEN "pass" ELSE "fail"
  BY DEF Token
<1> HIDE DEF m, no, vouched, policy, pct, trouble, rec, parent
\* A rejection: the policy's, of a message nobody vouches for.
<1>9. ASSUME ~trouble, no PROVE conf.dmarc /\ ~vouched /\ policy = "reject"
  <2>1. rec # NoRecord
    BY <1>3, <1>6, <1>7, <1>9
  <2>2. ~r.pass /\ "reject" \in apply_pct(PolicyOf(own, rec), rec.pct)
    BY <1>3, <1>6, <1>9, <2>1
  <2> QED BY <1>3, <1>4, <1>5, <1>6, <1>9, <2>1, <2>2, PctRejects
\* A message nobody vouches for under a policy of rejection: it fails, and
\* it is refused when no share is let through.
<1>10. ASSUME ~trouble, ~vouched, policy = "reject" PROVE Token(r) = "fail" /\ (pct = 100 /\ conf.dmarc => no)
  <2>1. rec # NoRecord
    BY <1>4, <1>7, <1>10
  <2>2. r.rec = rec /\ ~r.pass /\ r.disposition \in apply_pct("reject", rec.pct)
    BY <1>4, <1>5, <1>6, <1>10, <2>1
  <2>3. rec.pct = pct
    BY <1>4, <1>10 DEF pct
  <2>4. pct = 100 => r.disposition = "reject"
    BY <2>2, <2>3, PctRejects
  <2> QED BY <1>3, <1>8, <2>1, <2>2, <2>4
<1>11. PolicyEnforced'
  BY <1>1, <1>9, <1>10 DEF PolicyEnforced
<1>12. TraceTrue'
  <2>1. CASE no
    BY <1>1, <2>1 DEF TraceTrue
  <2>2. CASE ~no
    <3>1. last'.reply = "250" /\ last'.msg = m
      BY <1>1, <2>2
    <3>2. last'.policy = "reject" /\ ~last'.authentic /\ ~last'.trouble
            => m.fields[Min(Named(m.fields, "authentication-results"))].text = "fail"
      BY <1>1, <1>2, <1>10
    <3> QED BY <1>2, <3>1, <3>2, Zenon DEF TraceTrue, Named
  <2> QED BY <2>1, <2>2
<1> QED BY <1>1, <1>2, <1>11, <1>12, NoMessage DEF VerdictRight

\* There is no message and no verdict at first.
LEMMA VerdictInit == AuthInit => MessagesOK /\ VerdictRight
<1> SUFFICES ASSUME AuthInit PROVE MessagesOK /\ VerdictRight
  OBVIOUS
<1>1. msg = NoMsg /\ auth = NoAuth /\ last = NoLast
  BY DEF AuthInit
<1>2. last.reply = "none"
  BY <1>1 DEF NoLast
<1>3. MessagesOK
  BY <1>1, NoMessage DEF MessagesOK
<1>4. VerdictRight
  BY <1>2 DEF VerdictRight, PolicyEnforced, TraceTrue
<1> QED BY <1>3, <1>4

\* A message is handed to authentication with fewer hops than the limit.
LEMMA AuthenticateVerdict ==
    ASSUME MessagesOK, VerdictRight, Authenticate PROVE MessagesOK' /\ VerdictRight'
<1>1. msg' = NoMsg /\ UNCHANGED conf /\ hops < MAX_RECEIVED_HOPS
  BY DEF Authenticate
<1>2. Hops(msg) = hops
  BY Zenon DEF Hops, hops, FieldsNamed, Named
<1>3. CASE auth' = NoAuth /\ last' = [NoLast EXCEPT !.reply = "550 spf"]
  <2>1. last'.reply = "550 spf" /\ last'.msg = NoMsg
    BY <1>3 DEF NoLast
  <2>2. MessagesOK'
    BY <1>1, <1>3, <2>1, NoMessage DEF MessagesOK
  <2> QED BY <2>1, <2>2, NoVerdict
<1>4. CASE auth'.msg = msg /\ UNCHANGED last
  <2>1. MessagesOK'
    BY <1>1, <1>2, <1>4, NoMessage DEF MessagesOK, Hops
  <2>2. VerdictRight'
    BY <1>1, <1>4 DEF VerdictRight, PolicyEnforced, TraceTrue
  <2> QED BY <2>1, <2>2
<1> QED BY <1>3, <1>4, AuthenticateIs

\* The verdict on a message whose DKIM results are right is right.
LEMMA JudgeVerdict ==
    ASSUME MessagesOK, DkimRight, Judge PROVE MessagesOK' /\ VerdictRight'
<1>1. auth # NoAuth /\ auth' = NoAuth /\ UNCHANGED conf /\ UNCHANGED msg
  BY DEF Judge
<1>2. VerdictRight' /\ IsMessage(last'.msg)
  <2>1. CASE ~conf.resolver \/ auth.from = ""
    <3>1. last' = [NoLast EXCEPT !.reply = "250", !.msg = Stamped(auth, "absent")]
      BY <2>1, Zenon DEF Judge
    <3> QED BY <1>1, <3>1, DeliveredAnyway
  <2>2. CASE ~(~conf.resolver \/ auth.from = "")
    <3>1. PICK own, org :
            \E r \in evaluate(auth, own,
                                IF organizational_domain(auth.from) = auth.from THEN NoRecord ELSE org) :
                last' = [reply |-> IF refused(r) THEN "550 dmarc" ELSE "250",
                         msg |-> IF refused(r) THEN NoMsg ELSE Stamped(auth, Token(r)),
                         authentic |-> Authentic(auth), policy |-> TruePolicy(auth.from),
                         pct |-> TrueRecord(auth.from).pct,
                         trouble |-> own # lookup(auth.from)
                                     \/ (own = NoRecord /\ org # lookup(organizational_domain(auth.from)))]
      BY <2>2, Zenon DEF Judge
    <3> QED BY <1>1, <2>2, <3>1, JudgedRight, Zenon
  <2> QED BY <2>1, <2>2
<1>3. MessagesOK'
  BY <1>1, <1>2, NoMessage DEF MessagesOK
<1> QED BY <1>2, <1>3

\* Every step from a state with right DKIM results keeps the verdicts right.
LEMMA VerdictNext ==
    ASSUME MessagesOK, VerdictRight, DkimRight, [AuthNext]_authVars
    PROVE  MessagesOK' /\ VerdictRight'
<1>1. ASSUME UNCHANGED <<conf, last>> PROVE VerdictRight'
  BY <1>1 DEF VerdictRight, PolicyEnforced, TraceTrue
<1>2. NoLast.reply = "none" /\ NoLast.msg = NoMsg
  BY DEF NoLast
<1>3. ASSUME last' = NoLast PROVE VerdictRight' /\ IsMessage(last'.msg)
  <2>1. last'.reply = "none" /\ last'.msg = NoMsg
    BY <1>2, <1>3
  <2> QED BY <2>1, NoVerdict, NoMessage
<1>4. CASE Compose \/ AddSignature \/ Forward \/ ComeBack
  <2>1. UNCHANGED <<auth, conf>> /\ (last' = last \/ last' = NoLast)
    BY <1>4 DEF Compose, AddSignature, Forward, ComeBack, OnTheWay
  <2>2. IsMessage(msg')
    BY <1>4, OnItsWay, Zenon DEF MessagesOK
  <2> QED BY <1>1, <1>3, <2>1, <2>2 DEF MessagesOK
<1>5. CASE PolicyChanges \/ Worker \/ UNCHANGED authVars
  <2>1. UNCHANGED <<conf, msg, auth, last>>
    BY <1>5 DEF PolicyChanges, Worker, drain, SendReport, authVars
  <2> QED BY <1>1, <2>1 DEF MessagesOK
<1>6. CASE Refuse
  <2>1. PICK rep \in {"554 loop", "554"} : last' = [NoLast EXCEPT !.reply = rep]
    BY <1>6 DEF Refuse, Replies
  <2>2. msg' = NoMsg /\ auth' = NoAuth
    BY <1>6 DEF Refuse, Replies
  <2>3. last'.reply = rep /\ last'.msg = NoMsg
    BY <2>1 DEF NoLast
  <2>4. VerdictRight'
    BY <2>3, NoVerdict
  <2> QED BY <2>2, <2>3, <2>4, NoMessage DEF MessagesOK
<1>7. CASE Restart
  <2>1. msg' = NoMsg /\ auth' = NoAuth /\ last' = NoLast
    BY <1>7 DEF Restart
  <2> QED BY <1>3, <2>1, NoMessage DEF MessagesOK
<1>8. CASE Authenticate
  BY <1>8, AuthenticateVerdict
<1>9. CASE Judge
  BY <1>9, JudgeVerdict
<1> QED BY <1>4, <1>5, <1>6, <1>7, <1>8, <1>9 DEF AuthNext

\* DKIM's results are right when they are made, and kept until they are used.
LEMMA DkimNext == ASSUME MessagesOK, DkimRight, [AuthNext]_authVars PROVE DkimRight'
<1>1. ASSUME UNCHANGED conf, auth' = auth \/ auth' = NoAuth PROVE DkimRight'
  BY <1>1 DEF DkimRight
<1>2. CASE Authenticate
  <2>1. UNCHANGED conf
    BY <1>2 DEF Authenticate
  <2>2. CASE auth' = NoAuth
    BY <1>1, <2>1, <2>2
  <2>3. ASSUME NEW key \in KeyStates,
               conf.resolver => auth'.pass = Passing(verify(msg.fields, msg.body, [s \in Signers |-> key])),
               auth'.truth = IF key = "good" THEN Vouching(msg.fields, msg.body) ELSE {}
        PROVE  DkimRight'
    <3>1. IsList(msg.fields) /\ \A i \in DOMAIN msg.fields : SigOK(msg.fields[i])
      BY DEF MessagesOK, IsMessage
    <3>2. Passing(verify(msg.fields, msg.body, [s \in Signers |-> key]))
            = IF key = "good" THEN Vouching(msg.fields, msg.body) ELSE {}
      BY <3>1, VerifyIs
    <3>3. conf.resolver => auth'.pass = auth'.truth
      BY <2>3, <3>2, Zenon
    <3> QED BY <2>1, <3>3, Zenon DEF DkimRight
  <2> QED BY <1>2, <2>2, <2>3, AuthenticateIs
<1>3. CASE Judge
  <2>1. UNCHANGED conf /\ auth' = NoAuth
    BY <1>3 DEF Judge
  <2> QED BY <1>1, <2>1
<1>4. CASE Worker
  BY <1>1, <1>4 DEF Worker, drain, SendReport
<1>5. CASE Restart
  BY <1>1, <1>5 DEF Restart
<1>6. CASE Compose \/ AddSignature \/ Forward \/ ComeBack \/ PolicyChanges \/ Refuse \/ UNCHANGED authVars
  <2>1. UNCHANGED conf /\ (auth' = auth \/ auth' = NoAuth)
    BY <1>6 DEF Compose, AddSignature, Forward, ComeBack, PolicyChanges, Refuse, authVars,
                OnTheWay, Replies
  <2> QED BY <1>1, <2>1
<1> QED BY <1>2, <1>3, <1>4, <1>5, <1>6 DEF AuthNext

AuthInd == MessagesOK /\ DkimRight /\ VerdictRight

\* The invariant of authentication and judgement.
LEMMA AuthInvariant == AuthSpec => []AuthInd
<1>1. AuthInit => AuthInd
  BY VerdictInit DEF AuthInd, AuthInit, DkimRight
<1>2. AuthInd /\ [AuthNext]_authVars => AuthInd'
  BY VerdictNext, DkimNext DEF AuthInd
<1> QED BY <1>1, <1>2, PTL DEF AuthSpec

\* Whatever fields are put on top of a message, folded, or changed on its way, and
\* however often a name is listed in h=: verify() lets a signature pass exactly
\* when its key is good and every field it covers and the hashed part of the body
\* are as they were signed, up to its canonicalisation (compute_header_hash).
THEOREM SignaturesAreRight == AuthSpec => []DkimRight
<1>1. AuthInd => DkimRight
  BY DEF AuthInd
<1> QED BY <1>1, AuthInvariant, PTL

\* With enforcement only a message that nobody vouches for and whose sender asks
\* for rejection is refused, none such is delivered when no share is let through
\* (evaluate, apply_pct), and what is delivered carries one hop more, never above
\* MAX_RECEIVED_HOPS, and this server's own result on top.
THEOREM VerdictsAreRight == AuthSpec => []VerdictRight
<1>1. AuthInd => VerdictRight
  BY DEF AuthInd
<1> QED BY <1>1, AuthInvariant, PTL
=============================================================================
