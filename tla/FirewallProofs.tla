--------------------------- MODULE FirewallProofs ---------------------------
(***************************************************************************)
(* What the connection gate guarantees for any addresses, lists, quota,    *)
(* table sizes and number of concurrent calls: its tables stay bounded, a  *)
(* blocklisted address needs a pause to get in, and every transition of    *)
(* the pause switch reaches the audit trail.                               *)
(***************************************************************************)
EXTENDS Firewall, ListTheorems

Records    == [count : Nat, idle : Nat]
Limiters   == [keys : SUBSET Ips, level : [Ips -> Nat]]
Trackers   == [rec : [Ips -> Records], since : Nat]
Firewalls  == [allow : SUBSET Ips, block : SUBSET Ips, paused : BOOLEAN, audited : BOOLEAN,
               limiter : Limiters, trace : Nat, checks : Nat, tracker : Trackers]

Steps      == {"none", "switch", "allow", "block", "limit", "trace"}
Calls      == [at : Steps, ip : Ips \cup {NoCall.ip}, sawPause : BOOLEAN, blocked : BOOLEAN, decision : Decisions]
Events     == {"none", "paused", "resumed", "auth"}
Jobs       == {"idle", "trace", "append", "ring"} \X Events

Types ==
    /\ fw \in Firewalls
    /\ call \in [Checkers -> Calls]
    /\ attempts \in [Ips -> Nat] /\ grants \in [Ips -> Nat]
    /\ calls \in Nat /\ reloads \in Nat
    /\ job \in [Recorders -> Jobs]
    /\ trail \in Seq(Events)

\* What the limiter has handed out it still counts, but for the bursts of
\* limiters that a reload has replaced.
QuotaKept ==
    \A i \in Ips : /\ fw.limiter.level[i] <= Burst
                   /\ grants[i] <= fw.limiter.level[i] + Burst * reloads

TrackerKept ==
    /\ IsFiniteSet(Tracked(fw.tracker))
    /\ Cardinality(Tracked(fw.tracker)) <= MaxTracked
    /\ \A i \in Ips : fw.tracker.rec[i].count <= attempts[i]

\* A call c that is under way has seen the switch on while it is on; until the
\* blocklist is read an address that was on it is still on it, and behind it
\* there is none.
CallKept(c) ==
    /\ c.at # "none" => c.ip \in Ips
    /\ c.at # "none" /\ fw.paused => c.sawPause
    /\ c.at \in {"switch", "allow", "block"} /\ c.blocked => c.ip \in fw.block
    /\ c.at = "limit" => ~c.blocked
    /\ c.at = "trace" /\ c.decision = "allow" /\ c.blocked => c.sawPause \/ c.ip \in fw.allow

CallsKept == \A t \in Checkers : CallKept(call[t])

\* Transitions handed to the log and not traced yet.
Handed(e) == {t \in Recorders : job[t] = <<"trace", e>>}

Balanced ==
    /\ IsFiniteSet(Handed("paused")) /\ IsFiniteSet(Handed("resumed"))
    /\ fw.audited =>
        (CountOf("paused") + Cardinality(Handed("paused")))
          - (CountOf("resumed") + Cardinality(Handed("resumed"))) = IF fw.paused THEN 1 ELSE 0

FirewallInd == Types /\ QuotaKept /\ TrackerKept /\ CallsKept /\ Balanced
-----------------------------------------------------------------------------
(* The limiter and the tracker *)

\* Pruning and recording keep the tracker's types.
LEMMA RecordTyped ==
    ASSUME NEW t \in Trackers, NEW i \in Ips
    PROVE  prune(t) \in Trackers /\ record(t, i) \in Trackers
<1> USE FirewallAssumption
<1>1. Unseen \in Records
  BY DEF Unseen, Records
<1>2. prune(t) \in Trackers
  BY <1>1 DEF prune, Trackers
<1>3. [t EXCEPT !.since = @ + 1] \in Trackers
  BY DEF Trackers
<1> DEFINE s == IF t.since + 1 >= PRUNE_INTERVAL THEN prune(t) ELSE [t EXCEPT !.since = @ + 1]
<1>4. s \in Trackers
  BY <1>2, <1>3
<1>5. [s EXCEPT !.rec[i] = [count |-> @.count + 1, idle |-> 0]] \in Trackers
  <2> HIDE DEF s
  <2>1. [count |-> s.rec[i].count + 1, idle |-> 0] \in Records
    BY <1>4 DEF Trackers, Records
  <2>2. [s.rec EXCEPT ![i] = [count |-> s.rec[i].count + 1, idle |-> 0]] \in [Ips -> Records]
    BY <1>4, <2>1 DEF Trackers
  <2> QED BY <1>4, <2>2 DEF Trackers
<1> QED BY <1>2, <1>4, <1>5 DEF record

\* record() counts one attempt for one address, forgets at most, and adds an
\* address only where there is room.
LEMMA RecordKeeps ==
    ASSUME NEW t \in Trackers, NEW i \in Ips,
           IsFiniteSet(Tracked(t)), Cardinality(Tracked(t)) <= MaxTracked
    PROVE  /\ IsFiniteSet(Tracked(record(t, i)))
           /\ Cardinality(Tracked(record(t, i))) <= MaxTracked
           /\ \A x \in Ips : record(t, i).rec[x].count <= t.rec[x].count + (IF x = i THEN 1 ELSE 0)
<1> USE FirewallAssumption
<1> DEFINE s == IF t.since + 1 >= PRUNE_INTERVAL THEN prune(t) ELSE [t EXCEPT !.since = @ + 1]
           r == [s EXCEPT !.rec[i] = [count |-> @.count + 1, idle |-> 0]]
<1>1. s \in Trackers /\ \A x \in Ips : s.rec[x] = t.rec[x] \/ s.rec[x] = Unseen
  <2>1. prune(t) \in Trackers /\ [t EXCEPT !.since = @ + 1] \in Trackers
    BY RecordTyped DEF Trackers
  <2>2. \A x \in Ips : prune(t).rec[x] \in {t.rec[x], Unseen}
    BY DEF prune
  <2>3. [t EXCEPT !.since = @ + 1].rec = t.rec
    BY DEF Trackers
  <2> QED BY <2>1, <2>2, <2>3
<1>2. \A x \in Ips : s.rec[x].count \in Nat /\ t.rec[x].count \in Nat
                     /\ s.rec[x].count <= t.rec[x].count
  BY <1>1 DEF Trackers, Records, Unseen
<1>3. Tracked(s) \subseteq Tracked(t)
  BY <1>1 DEF Tracked, Unseen
<1> HIDE DEF s
<1>4. /\ IsFiniteSet(Tracked(s)) /\ Cardinality(Tracked(s)) <= MaxTracked
      /\ Cardinality(Tracked(s)) \in Nat
  <2>1. IsFiniteSet(Tracked(s)) /\ Cardinality(Tracked(s)) <= Cardinality(Tracked(t))
    BY <1>3, FS_Subset
  <2>2. Cardinality(Tracked(s)) \in Nat /\ Cardinality(Tracked(t)) \in Nat
    BY <2>1, FS_CardinalityType
  <2> QED BY <2>1, <2>2
<1>5. record(t, i) = IF i \in Tracked(s) \/ Cardinality(Tracked(s)) < MaxTracked THEN r ELSE s
  BY DEF record, s
<1>6. CASE ~(i \in Tracked(s) \/ Cardinality(Tracked(s)) < MaxTracked)
  BY <1>2, <1>4, <1>5, <1>6
<1>7. CASE i \in Tracked(s) \/ Cardinality(Tracked(s)) < MaxTracked
  <2>1. r.rec = [s.rec EXCEPT ![i] = [count |-> s.rec[i].count + 1, idle |-> 0]]
    BY <1>1 DEF Trackers
  <2>2. \A x \in Ips : r.rec[x].count = IF x = i THEN s.rec[x].count + 1 ELSE s.rec[x].count
    BY <1>1, <2>1 DEF Trackers
  <2>3. Tracked(r) = Tracked(s) \cup {i}
    BY <1>2, <2>2 DEF Tracked
  <2>4. /\ IsFiniteSet(Tracked(s) \cup {i})
        /\ Cardinality(Tracked(s) \cup {i})
             = IF i \in Tracked(s) THEN Cardinality(Tracked(s)) ELSE Cardinality(Tracked(s)) + 1
    BY <1>4, FS_AddElement, Zenon
  <2>5. Cardinality(Tracked(r)) <= MaxTracked
    BY <1>4, <1>7, <2>3, <2>4
  <2>6. \A x \in Ips : r.rec[x].count <= t.rec[x].count + (IF x = i THEN 1 ELSE 0)
    BY <1>2, <2>2
  <2>7. record(t, i) = r
    BY <1>5, <1>7
  <2> HIDE DEF r
  <2> QED BY <2>3, <2>4, <2>5, <2>6, <2>7
<1> QED BY <1>6, <1>7
-----------------------------------------------------------------------------
(* Steps that leave a part of the state alone *)

\* The limiter's levels and the grants stay.
LEMMA QuotaFrame ==
    ASSUME FirewallInd, fw'.limiter.level = fw.limiter.level, UNCHANGED <<grants, reloads>>
    PROVE  QuotaKept'
  BY DEF FirewallInd, QuotaKept

\* The tracker stays.
LEMMA TrackerFrame ==
    ASSUME FirewallInd, fw'.tracker = fw.tracker, UNCHANGED attempts
    PROVE  TrackerKept'
  BY DEF FirewallInd, TrackerKept, Tracked

\* Switch, jobs and trail stay.
LEMMA AuditFrame ==
    ASSUME FirewallInd, UNCHANGED <<job, trail>>, fw'.audited = fw.audited, fw'.paused = fw.paused
    PROVE  Balanced'
<1>1. /\ CountOf("paused")' = CountOf("paused") /\ CountOf("resumed")' = CountOf("resumed")
      /\ Handed("paused")' = Handed("paused") /\ Handed("resumed")' = Handed("resumed")
  BY DEF CountOf, Handed
<1> QED BY <1>1 DEF FirewallInd, Balanced

\* One call moves on, or ends; the switch and the lists stay.
LEMMA CallFrame ==
    ASSUME FirewallInd, NEW t \in Checkers, NEW c \in Calls, CallKept(c),
           call' = [call EXCEPT ![t] = c],
           fw'.paused = fw.paused, fw'.block = fw.block, fw'.allow = fw.allow
    PROVE  CallsKept' /\ call' \in [Checkers -> Calls]
<1>1. call' \in [Checkers -> Calls]
  BY DEF FirewallInd, Types
<1>2. ASSUME NEW x \in Checkers PROVE CallKept(call[x])'
  <2>1. CallKept(call'[x])
    BY DEF FirewallInd, Types, CallsKept
  <2> QED BY <2>1 DEF CallKept
<1> QED BY <1>1, <1>2 DEF CallsKept

\* There may be no call.
LEMMA NoCallKept == NoCall \in Calls /\ CallKept(NoCall)
  BY DEF NoCall, Calls, CallKept, Steps, Decisions

\* The firewall as it is built.
LEMMA BuildTyped ==
    ASSUME NEW a \in BOOLEAN
    PROVE  /\ build(a) \in Firewalls
           /\ \A i \in Ips : build(a).limiter.level[i] = 0 /\ build(a).tracker.rec[i].count = 0
           /\ Tracked(build(a).tracker) = {}
           /\ ~build(a).paused /\ build(a).audited = a
<1> USE FirewallAssumption
<1>1. FreshLimiter \in Limiters
  BY DEF FreshLimiter, Limiters
<1>2. [rec |-> [i \in Ips |-> Unseen], since |-> 0] \in Trackers
  BY DEF Trackers, Records, Unseen
<1>3. build(a) \in Firewalls
  BY <1>1, <1>2 DEF build, Firewalls
<1>4. \A i \in Ips : build(a).limiter.level[i] = 0 /\ build(a).tracker.rec[i].count = 0
  BY DEF build, FreshLimiter, Unseen
<1> QED BY <1>3, <1>4 DEF build, Tracked
-----------------------------------------------------------------------------
(* check() *)

\* A new call: housekeeping, tracking, and what it sees.
LEMMA CheckInd ==
    ASSUME FirewallInd, NEW t \in Checkers, NEW i \in Ips, Check(t, i) PROVE FirewallInd'
<1> USE FirewallAssumption
<1> DEFINE lim == IF fw.checks % MAINTENANCE_INTERVAL = 0 THEN maintain(fw.limiter) ELSE fw.limiter
           tr  == record(fw.tracker, i)
           b   == i \in fw.block
           c == [[[[NoCall EXCEPT !.at = "switch"] EXCEPT !.ip = i]
                      EXCEPT !.sawPause = fw.paused] EXCEPT !.blocked = b]
<1>1. fw \in Firewalls /\ fw.limiter \in Limiters /\ fw.tracker \in Trackers
  BY DEF FirewallInd, Types, Firewalls
<1>2. lim \in Limiters /\ lim.level = fw.limiter.level
  BY <1>1 DEF Limiters, maintain
<1>3. record(fw.tracker, i) \in Trackers
  BY <1>1, RecordTyped
<1>4. /\ fw' = [[[fw EXCEPT !.checks = @ + 1] EXCEPT !.limiter = lim]
                   EXCEPT !.tracker = tr]
      /\ call' = [call EXCEPT ![t] = c]
      /\ attempts' = [attempts EXCEPT ![i] = @ + 1] /\ calls' = calls + 1
      /\ UNCHANGED <<audit, grants, reloads>>
  BY <1>1 DEF Check, Call, Firewalls
<1> HIDE DEF lim, tr, b
<1>5. /\ fw' \in Firewalls /\ fw'.limiter = lim /\ fw'.tracker = tr
      /\ fw'.paused = fw.paused /\ fw'.block = fw.block /\ fw'.allow = fw.allow
      /\ fw'.audited = fw.audited
  <2>1. fw.checks + 1 \in Nat
    BY <1>1 DEF Firewalls
  <2>2. tr \in Trackers
    BY <1>3 DEF tr
  <2> QED BY <1>1, <1>2, <1>4, <2>1, <2>2 DEF Firewalls
<1>6. c \in Calls /\ c.at = "switch" /\ c.ip = i /\ c.sawPause = fw.paused /\ c.blocked = b
  <2>1. b \in BOOLEAN /\ fw.paused \in BOOLEAN
    BY <1>1 DEF Firewalls, b
  <2>2. NoCall \in Calls /\ "switch" \in Steps
    BY NoCallKept DEF Steps
  <2> QED BY <2>1, <2>2 DEF Calls
<1>7. CallKept(c)
  BY <1>6 DEF CallKept, b
<1>8. CallsKept' /\ call' \in [Checkers -> Calls]
  <2> HIDE DEF c
  <2> QED BY <1>4, <1>5, <1>6, <1>7, CallFrame
<1>9. Types'
  <2>1. attempts' \in [Ips -> Nat] /\ calls' \in Nat
    BY <1>4 DEF FirewallInd, Types
  <2>2. UNCHANGED <<grants, reloads, job, trail>>
    BY <1>4 DEF audit
  <2> QED BY <1>5, <1>8, <2>1, <2>2 DEF FirewallInd, Types
<1>10. QuotaKept'
  BY <1>2, <1>4, <1>5, QuotaFrame
<1>11. TrackerKept'
  <2>1. /\ IsFiniteSet(Tracked(record(fw.tracker, i)))
        /\ Cardinality(Tracked(record(fw.tracker, i))) <= MaxTracked
        /\ \A x \in Ips : record(fw.tracker, i).rec[x].count
                            <= fw.tracker.rec[x].count + (IF x = i THEN 1 ELSE 0)
    BY <1>1, RecordKeeps DEF FirewallInd, TrackerKept
  <2>2. \A x \in Ips : /\ record(fw.tracker, i).rec[x].count \in Nat
                       /\ fw.tracker.rec[x].count \in Nat
    BY <1>1, <1>3 DEF Trackers, Records
  <2>3. ASSUME NEW x \in Ips PROVE record(fw.tracker, i).rec[x].count <= attempts'[x]
    <3>1. attempts[x] \in Nat /\ fw.tracker.rec[x].count <= attempts[x]
      BY DEF FirewallInd, Types, TrackerKept
    <3>2. attempts'[x] = IF x = i THEN attempts[x] + 1 ELSE attempts[x]
      BY <1>4, <3>1 DEF FirewallInd, Types
    <3> QED BY <2>1, <2>2, <3>1, <3>2
  <2> QED BY <1>5, <2>1, <2>3 DEF TrackerKept, Tracked, tr
<1>12. Balanced'
  BY <1>4, <1>5, AuditFrame DEF audit
<1> QED BY <1>8, <1>9, <1>10, <1>11, <1>12 DEF FirewallInd

\* The reads, the draw from the limiter and the end of the call.
LEMMA CheckStepsInd ==
    ASSUME FirewallInd, NEW t \in Checkers, CheckSteps(t) PROVE FirewallInd'
<1> USE FirewallAssumption
<1>0. /\ fw \in Firewalls /\ fw.limiter \in Limiters /\ call[t] \in Calls /\ CallKept(call[t])
      /\ call \in [Checkers -> Calls]
  BY DEF FirewallInd, Types, CallsKept, Firewalls
<1>1. ASSUME NEW c \in Calls, CallKept(c), call' = [call EXCEPT ![t] = c],
             UNCHANGED <<fw, grants>>, QuietFw
      PROVE  FirewallInd'
  <2>1. CallsKept' /\ call' \in [Checkers -> Calls]
    BY <1>1, CallFrame
  <2>2. QuotaKept' /\ TrackerKept' /\ Balanced'
    BY <1>1, QuotaFrame, TrackerFrame, AuditFrame DEF QuietFw, audit
  <2> QED BY <1>1, <2>1, <2>2 DEF FirewallInd, Types, QuietFw, audit
<1>2. ASSUME NEW step \in Steps
      PROVE  /\ [call[t] EXCEPT !.at = step] \in Calls
             /\ [call[t] EXCEPT !.at = step].at = step
             /\ [call[t] EXCEPT !.at = step].ip = call[t].ip
             /\ [call[t] EXCEPT !.at = step].blocked = call[t].blocked
             /\ [call[t] EXCEPT !.at = step].sawPause = call[t].sawPause
  BY <1>0 DEF Calls
<1> DEFINE Ruled(d) == [[call[t] EXCEPT !.at = "trace"] EXCEPT !.decision = d]
<1>3. ASSUME NEW d \in Decisions
      PROVE  /\ Ruled(d) \in Calls /\ Ruled(d).at = "trace" /\ Ruled(d).decision = d
             /\ Ruled(d).ip = call[t].ip
             /\ Ruled(d).blocked = call[t].blocked /\ Ruled(d).sawPause = call[t].sawPause
  BY <1>0 DEF Calls, Steps
<1>4. ASSUME NEW step \in Steps, Goes(t, step) PROVE call' = [call EXCEPT ![t] = [call[t] EXCEPT !.at = step]]
  BY <1>4 DEF Goes
<1>5. ASSUME NEW d \in Decisions, Decides(t, d) PROVE call' = [call EXCEPT ![t] = Ruled(d)]
  BY <1>0, <1>5 DEF Decides
<1> HIDE DEF Ruled
<1>6. "allow" \in Decisions /\ "blocklisted" \in Decisions /\ "rate_limited" \in Decisions
      /\ {"allow", "block", "limit"} \subseteq Steps
  BY DEF Decisions, Steps
<1>7. CASE CheckSwitch(t)
  <2>1. CASE fw.paused
    <3>1. CallKept(Ruled("allow"))
      BY <1>0, <1>3, <1>6, <1>7, <2>1 DEF CallKept, CheckSwitch, At
    <3> QED BY <1>1, <1>3, <1>5, <1>6, <1>7, <2>1, <3>1 DEF CheckSwitch
  <2>2. CASE ~fw.paused
    <3>1. CallKept([call[t] EXCEPT !.at = "allow"])
      BY <1>0, <1>2, <1>6, <1>7, <2>2 DEF CallKept, CheckSwitch, At
    <3> QED BY <1>1, <1>2, <1>4, <1>6, <1>7, <2>2, <3>1 DEF CheckSwitch
  <2> QED BY <2>1, <2>2
<1>8. CASE CheckAllow(t)
  <2>1. CASE call[t].ip \in fw.allow
    <3>1. CallKept(Ruled("allow"))
      BY <1>0, <1>3, <1>6, <1>8, <2>1 DEF CallKept, CheckAllow, At
    <3> QED BY <1>1, <1>3, <1>5, <1>6, <1>8, <2>1, <3>1 DEF CheckAllow
  <2>2. CASE call[t].ip \notin fw.allow
    <3>1. CallKept([call[t] EXCEPT !.at = "block"])
      BY <1>0, <1>2, <1>6, <1>8, <2>2 DEF CallKept, CheckAllow, At
    <3> QED BY <1>1, <1>2, <1>4, <1>6, <1>8, <2>2, <3>1 DEF CheckAllow
  <2> QED BY <2>1, <2>2
<1>9. CASE CheckBlock(t)
  <2>1. CASE call[t].ip \in fw.block
    <3>1. CallKept(Ruled("blocklisted"))
      BY <1>0, <1>3, <1>6, <1>9, <2>1 DEF CallKept, CheckBlock, At
    <3> QED BY <1>1, <1>3, <1>5, <1>6, <1>9, <2>1, <3>1 DEF CheckBlock
  <2>2. CASE call[t].ip \notin fw.block
    <3>1. CallKept([call[t] EXCEPT !.at = "limit"])
      BY <1>0, <1>2, <1>6, <1>9, <2>2 DEF CallKept, CheckBlock, At
    <3> QED BY <1>1, <1>2, <1>4, <1>6, <1>9, <2>2, <3>1 DEF CheckBlock
  <2> QED BY <2>1, <2>2
<1>10. CASE CheckLimit(t)
  <2> DEFINE i == call[t].ip
  <2>0. i \in Ips /\ call[t].at = "limit" /\ ~call[t].blocked
    BY <1>0, <1>10 DEF CallKept, CheckLimit, At
  <2>1. CASE ~(fw.limiter.level[i] < Burst)
    <3>1. CallKept(Ruled("rate_limited"))
      BY <1>0, <1>3, <1>6, <2>0 DEF CallKept
    <3> QED BY <1>1, <1>3, <1>5, <1>6, <1>10, <2>1, <3>1 DEF CheckLimit
  <2>2. CASE fw.limiter.level[i] < Burst
    <3> DEFINE lim == Draw(fw.limiter, i)
    <3>1. /\ fw' = [fw EXCEPT !.limiter = lim] /\ call' = [call EXCEPT ![t] = Ruled("allow")]
          /\ grants' = [grants EXCEPT ![i] = @ + 1] /\ QuietFw
      BY <1>5, <1>6, <1>10, <2>2 DEF CheckLimit
    <3>2. lim \in Limiters /\ lim.level = [fw.limiter.level EXCEPT ![i] = @ + 1]
      BY <1>0, <2>0 DEF Draw, Limiters
    <3> HIDE DEF lim
    <3>3. /\ fw' \in Firewalls /\ fw'.limiter = lim /\ fw'.tracker = fw.tracker
          /\ fw'.paused = fw.paused /\ fw'.block = fw.block /\ fw'.allow = fw.allow
          /\ fw'.audited = fw.audited
      BY <1>0, <3>1, <3>2 DEF Firewalls
    <3>4. CallKept(Ruled("allow"))
      BY <1>0, <1>3, <1>6, <2>0 DEF CallKept
    <3>5. CallsKept' /\ call' \in [Checkers -> Calls]
      BY <1>3, <1>6, <3>1, <3>3, <3>4, CallFrame
    <3>6. TrackerKept' /\ Balanced'
      BY <3>1, <3>3, TrackerFrame, AuditFrame DEF QuietFw, audit
    <3>7. Types'
      BY <2>0, <3>1, <3>3, <3>5 DEF FirewallInd, Types, QuietFw, audit
    <3>8. QuotaKept'
      <4> SUFFICES ASSUME NEW x \in Ips
                   PROVE  /\ fw'.limiter.level[x] <= Burst
                          /\ grants'[x] <= fw'.limiter.level[x] + Burst * reloads'
        BY DEF QuotaKept
      <4>1. /\ fw.limiter.level[x] \in Nat /\ grants[x] \in Nat /\ reloads' = reloads
            /\ fw.limiter.level[x] <= Burst
            /\ grants[x] <= fw.limiter.level[x] + Burst * reloads
            /\ Burst * reloads \in Nat
        BY <1>0, <3>1 DEF FirewallInd, Types, QuotaKept, Limiters, QuietFw
      <4>2. CASE x = i
        <5>1. fw'.limiter.level[x] = fw.limiter.level[x] + 1
          BY <1>0, <3>2, <3>3, <4>2 DEF Limiters
        <5>2. grants'[x] = grants[x] + 1
          BY <3>1, <4>2 DEF FirewallInd, Types
        <5> QED BY <2>2, <4>1, <4>2, <5>1, <5>2
      <4>3. CASE x # i
        <5>1. fw'.limiter.level[x] = fw.limiter.level[x]
          BY <1>0, <3>2, <3>3, <4>3 DEF Limiters
        <5>2. grants'[x] = grants[x]
          BY <3>1, <4>3 DEF FirewallInd, Types
        <5> QED BY <4>1, <5>1, <5>2
      <4> QED BY <4>2, <4>3
    <3> QED BY <3>5, <3>6, <3>7, <3>8 DEF FirewallInd
  <2> QED BY <2>1, <2>2
<1>11. CASE CheckTrace(t)
  <2>1. /\ fw' = [fw EXCEPT !.trace = IF @ = TraceCapacity THEN @ ELSE @ + 1]
        /\ call' = [call EXCEPT ![t] = NoCall] /\ UNCHANGED grants /\ QuietFw
    BY <1>11 DEF CheckTrace
  <2>2. /\ fw' \in Firewalls /\ fw'.limiter = fw.limiter /\ fw'.tracker = fw.tracker
        /\ fw'.paused = fw.paused /\ fw'.block = fw.block /\ fw'.allow = fw.allow
        /\ fw'.audited = fw.audited
    BY <1>0, <2>1 DEF Firewalls
  <2>3. CallsKept' /\ call' \in [Checkers -> Calls]
    BY <2>1, <2>2, NoCallKept, CallFrame
  <2>4. QuotaKept' /\ TrackerKept' /\ Balanced'
    BY <2>1, <2>2, QuotaFrame, TrackerFrame, AuditFrame DEF QuietFw, audit
  <2> QED BY <2>1, <2>2, <2>3, <2>4 DEF FirewallInd, Types, QuietFw, audit
<1> QED BY <1>7, <1>8, <1>9, <1>10, <1>11 DEF CheckSteps
-----------------------------------------------------------------------------
(* The administrators and time *)

\* allow_ip() and block_ip() only ever add to the lists.
LEMMA AdminInd == ASSUME FirewallInd, NEW t \in Recorders, Admin(t) PROVE FirewallInd'
<1>0. fw \in Firewalls
  BY DEF FirewallInd, Types
<1>1. PICK i \in Ips : fw' \in {[fw EXCEPT !.allow = @ \cup {i}], [fw EXCEPT !.block = @ \cup {i}]}
  BY DEF Admin
<1>2. /\ fw' \in Firewalls /\ fw'.limiter = fw.limiter /\ fw'.tracker = fw.tracker
      /\ fw'.paused = fw.paused /\ fw'.audited = fw.audited
      /\ fw.block \subseteq fw'.block /\ fw.allow \subseteq fw'.allow
  BY <1>0, <1>1 DEF Firewalls
<1>3. /\ UNCHANGED <<job, trail, call, attempts, grants, reloads>> /\ calls' = calls + 1
  BY DEF Admin, Call, audit
<1>4. CallsKept'
  BY <1>2, <1>3 DEF FirewallInd, CallsKept, CallKept
<1>5. QuotaKept' /\ TrackerKept' /\ Balanced'
  BY <1>2, <1>3, QuotaFrame, TrackerFrame, AuditFrame
<1> QED BY <1>2, <1>3, <1>4, <1>5 DEF FirewallInd, Types

\* reload(): a new limiter and no call under way.
LEMMA ReloadInd == ASSUME FirewallInd, Reload PROVE FirewallInd'
<1> USE FirewallAssumption
<1>1. /\ ~fw.audited /\ fw' = build(FALSE) /\ reloads' = reloads + 1
      /\ attempts' = [i \in Ips |-> 0] /\ UNCHANGED <<job, trail, call, grants, calls>>
      /\ \A t \in Checkers : call[t] = NoCall
  BY DEF Reload, audit
<1>2. /\ fw' \in Firewalls /\ ~fw'.audited
      /\ \A i \in Ips : fw'.limiter.level[i] = 0 /\ fw'.tracker.rec[i].count = 0
      /\ Tracked(fw'.tracker) = {}
  BY <1>1, BuildTyped
<1>3. Types'
  <2>1. attempts' \in [Ips -> Nat] /\ reloads' \in Nat
    BY <1>1 DEF FirewallInd, Types
  <2> QED BY <1>1, <1>2, <2>1 DEF FirewallInd, Types
<1>4. CallsKept'
  <2>1. NoCall.at = "none"
    BY DEF NoCall
  <2> QED BY <1>1, <2>1 DEF CallsKept, CallKept
<1>5. QuotaKept'
  <2> SUFFICES ASSUME NEW i \in Ips
               PROVE  /\ fw'.limiter.level[i] <= Burst
                      /\ grants'[i] <= fw'.limiter.level[i] + Burst * reloads'
    BY DEF QuotaKept
  <2>1. /\ fw.limiter.level[i] \in Nat /\ grants[i] \in Nat /\ reloads \in Nat /\ Burst \in Nat
        /\ fw.limiter.level[i] <= Burst /\ grants[i] <= fw.limiter.level[i] + Burst * reloads
    BY DEF FirewallInd, Types, QuotaKept, Firewalls, Limiters
  <2>2. Burst * reloads \in Nat /\ Burst * (reloads + 1) = Burst * reloads + Burst
    BY <2>1
  <2>3. fw'.limiter.level[i] = 0 /\ grants'[i] = grants[i] /\ Burst * reloads' = Burst * reloads + Burst
    BY <1>1, <1>2, <2>2
  <2> QED BY <2>1, <2>2, <2>3
<1>6. TrackerKept'
  <2>1. IsFiniteSet(Tracked(fw'.tracker)) /\ Cardinality(Tracked(fw'.tracker)) = 0
    BY <1>2, FS_EmptySet
  <2>2. ASSUME NEW i \in Ips PROVE fw'.tracker.rec[i].count <= attempts'[i]
    <3>1. fw'.tracker.rec[i].count = 0 /\ attempts'[i] = 0
      BY <1>1, <1>2
    <3> QED BY <3>1
  <2> QED BY <2>1, <2>2 DEF TrackerKept, Tracked
<1>7. Balanced'
  <2>1. Handed("paused")' = Handed("paused") /\ Handed("resumed")' = Handed("resumed")
    BY <1>1 DEF Handed
  <2> QED BY <1>2, <2>1 DEF FirewallInd, Balanced
<1> QED BY <1>3, <1>4, <1>5, <1>6, <1>7 DEF FirewallInd

\* A cell is refilled and a tracked address ages.
LEMMA TickInd == ASSUME FirewallInd, Tick PROVE FirewallInd'
<1> USE FirewallAssumption
<1> DEFINE lim == Refill(fw.limiter)
           aged == [i \in Ips |-> Aged(fw.tracker.rec[i])]
           tr == [fw.tracker EXCEPT !.rec = aged]
<1>0. fw \in Firewalls /\ fw.limiter \in Limiters /\ fw.tracker \in Trackers
  BY DEF FirewallInd, Types, Firewalls
<1>1. fw' = [[fw EXCEPT !.limiter = lim] EXCEPT !.tracker = tr]
  <2>1. [fw EXCEPT !.limiter = lim].tracker = fw.tracker
    BY <1>0 DEF Firewalls
  <2> QED BY <2>1, Zenon DEF Tick
<1>2. /\ lim \in Limiters
      /\ \A i \in Ips : lim.level[i] = IF fw.limiter.level[i] = 0 THEN 0 ELSE fw.limiter.level[i] - 1
  BY <1>0 DEF Refill, Limiters
<1>3. aged \in [Ips -> Records] /\ \A i \in Ips : aged[i].count = fw.tracker.rec[i].count
  BY <1>0 DEF Trackers, Records, Aged
<1> HIDE DEF aged
<1>4. tr \in Trackers /\ tr.rec = aged
  BY <1>0, <1>3 DEF Trackers
<1> HIDE DEF tr, lim
<1>5. /\ fw' \in Firewalls /\ fw'.limiter = lim /\ fw'.tracker = tr
      /\ fw'.paused = fw.paused /\ fw'.block = fw.block /\ fw'.allow = fw.allow
      /\ fw'.audited = fw.audited
  BY <1>0, <1>1, <1>2, <1>4 DEF Firewalls
<1>6. /\ grants' = [i \in Ips |-> IF grants[i] = 0 THEN 0 ELSE grants[i] - 1]
      /\ UNCHANGED <<job, trail, call, attempts, calls, reloads>>
  BY DEF Tick, audit
<1>7. Types'
  <2>1. grants' \in [Ips -> Nat]
    BY <1>6 DEF FirewallInd, Types
  <2> QED BY <1>5, <1>6, <2>1 DEF FirewallInd, Types
<1>8. QuotaKept'
  <2> SUFFICES ASSUME NEW i \in Ips
               PROVE  /\ fw'.limiter.level[i] <= Burst
                      /\ grants'[i] <= fw'.limiter.level[i] + Burst * reloads'
    BY DEF QuotaKept
  <2>1. /\ fw.limiter.level[i] \in Nat /\ grants[i] \in Nat /\ Burst * reloads \in Nat
        /\ fw.limiter.level[i] <= Burst /\ grants[i] <= fw.limiter.level[i] + Burst * reloads
    BY <1>0 DEF FirewallInd, Types, QuotaKept, Limiters
  <2>2. /\ fw'.limiter.level[i] = IF fw.limiter.level[i] = 0 THEN 0 ELSE fw.limiter.level[i] - 1
        /\ grants'[i] = IF grants[i] = 0 THEN 0 ELSE grants[i] - 1
        /\ reloads' = reloads
    BY <1>2, <1>5, <1>6
  <2> QED BY <2>1, <2>2
<1>9. TrackerKept'
  <2>1. Tracked(fw'.tracker) = Tracked(fw.tracker)
    BY <1>3, <1>4, <1>5 DEF Tracked
  <2> QED BY <1>3, <1>4, <1>5, <1>6, <2>1 DEF FirewallInd, TrackerKept, Tracked
<1>10. CallsKept' /\ Balanced'
  BY <1>5, <1>6, AuditFrame DEF FirewallInd, CallsKept, CallKept
<1> QED BY <1>7, <1>8, <1>9, <1>10 DEF FirewallInd
-----------------------------------------------------------------------------
(* The switch and the audit log *)

\* The counts are numbers, and an event at the end of the trail adds to its own.
LEMMA CountTyped ==
    ASSUME NEW e, trail \in Seq(Events)
    PROVE  CountOf(e) \in Nat /\ IsFiniteSet({i \in DOMAIN trail : trail[i] = e})
<1> DEFINE S == {i \in DOMAIN trail : trail[i] = e}
<1>1. Len(trail) \in Nat /\ DOMAIN trail = 1..Len(trail)
  OBVIOUS
<1>2. IsFiniteSet(1..Len(trail))
  BY <1>1, FS_Interval
<1>3. IsFiniteSet(S)
  BY <1>1, <1>2, FS_Subset
<1> QED BY <1>3, FS_CardinalityType DEF CountOf

\* Appending an event adds one to its count and to no other.
LEMMA CountAppend ==
    ASSUME NEW e \in Events, NEW x \in Events, trail \in Seq(Events), trail' = Append(trail, x)
    PROVE  CountOf(e)' = IF e = x THEN CountOf(e) + 1 ELSE CountOf(e)
<1> DEFINE S == {i \in DOMAIN trail : trail[i] = e}
           n == Len(trail) + 1
<1>1. IsFiniteSet(S)
  BY CountTyped
<1>2. /\ n \in Nat /\ DOMAIN trail = 1..(n - 1) /\ DOMAIN trail' = 1..n
      /\ \A i \in 1..(n - 1) : trail'[i] = trail[i]
      /\ trail'[n] = x
  OBVIOUS
<1>3. {i \in DOMAIN trail' : trail'[i] = e} = IF e = x THEN S \cup {n} ELSE S
  <2>1. 1..n = 1..(n - 1) \cup {n}
    BY <1>2
  <2> HIDE DEF n
  <2> QED BY <1>2, <2>1
<1>4. n \notin S
  BY <1>2
<1>5. Cardinality(S \cup {n}) = Cardinality(S) + 1
  <2> HIDE DEF S, n
  <2> QED BY <1>1, <1>4, FS_AddElement, Zenon
<1> QED BY <1>3, <1>5 DEF CountOf

\* record() begins: the event is handed to the log.
LEMMA RecordHands ==
    ASSUME FirewallInd, NEW r \in Recorders, NEW e \in Events, Record(r, e), NEW f \in Events
    PROVE  /\ job' \in [Recorders -> Jobs] /\ UNCHANGED trail
           /\ r \notin Handed(f)
           /\ Handed(f)' = IF f = e THEN Handed(f) \cup {r} ELSE Handed(f)
<1>1. job \in [Recorders -> Jobs] /\ job[r] = Idle /\ job' = [job EXCEPT ![r] = <<"trace", e>>]
      /\ UNCHANGED trail
  BY DEF FirewallInd, Types, Record
<1>2. <<"trace", e>> \in Jobs /\ Idle # <<"trace", f>>
  BY DEF Jobs, Idle
<1> QED BY <1>1, <1>2 DEF Handed

\* A transition of the switch is handed to the log by the call that made it.
LEMMA SwitchInd ==
    ASSUME FirewallInd, NEW t \in Recorders, NEW on \in BOOLEAN, Switch(t, on) PROVE FirewallInd'
<1> USE FirewallAssumption
<1>0. fw \in Firewalls /\ call \in [Checkers -> Calls]
  BY DEF FirewallInd, Types
<1>1. /\ fw' = [fw EXCEPT !.paused = on] /\ call' = Witnessed(on) /\ calls' = calls + 1
      /\ UNCHANGED <<attempts, grants, reloads>>
  BY DEF Switch, Call
<1>2. /\ fw' \in Firewalls /\ fw'.limiter = fw.limiter /\ fw'.tracker = fw.tracker
      /\ fw'.paused = on /\ fw'.block = fw.block /\ fw'.allow = fw.allow
      /\ fw'.audited = fw.audited
  BY <1>0, <1>1 DEF Firewalls
<1>3. ASSUME NEW x \in Checkers
      PROVE  call'[x] \in Calls /\ CallKept(call[x])'
  <2> DEFINE saw == call[x].sawPause \/ (on /\ call[x] # NoCall)
  <2>1. call'[x] = [call[x] EXCEPT !.sawPause = saw]
    BY <1>1 DEF Witnessed
  <2>2. saw \in BOOLEAN /\ call[x] \in Calls /\ CallKept(call[x])
    BY <1>0 DEF FirewallInd, CallsKept, Calls
  <2>3. call[x].at # "none" => (on => saw)
    BY DEF NoCall
  <2>4. call[x].sawPause => saw
    OBVIOUS
  <2> HIDE DEF saw
  <2>5. /\ call'[x] \in Calls /\ call'[x].at = call[x].at /\ call'[x].ip = call[x].ip
        /\ call'[x].blocked = call[x].blocked /\ call'[x].decision = call[x].decision
        /\ call'[x].sawPause = saw
    BY <2>1, <2>2 DEF Calls
  <2> QED BY <1>2, <2>2, <2>3, <2>4, <2>5 DEF CallKept
<1>4. call' \in [Checkers -> Calls] /\ CallsKept'
  <2>1. call' = [x \in Checkers |-> call'[x]]
    BY <1>1 DEF Witnessed
  <2> QED BY <1>3, <2>1 DEF CallsKept
<1>5. QuotaKept' /\ TrackerKept'
  BY <1>1, <1>2, QuotaFrame, TrackerFrame
<1>6. job' \in [Recorders -> Jobs] /\ trail' = trail /\ Balanced'
  <2> DEFINE e == IF on THEN "paused" ELSE "resumed"
             P == Cardinality(Handed("paused"))
             R == Cardinality(Handed("resumed"))
  <2>1. CASE fw.paused # on /\ fw.audited
    <3>1. Record(t, e) /\ e \in Events /\ {"paused", "resumed"} \subseteq Events
      BY <2>1 DEF Switch, Events
    <3>2. /\ job' \in [Recorders -> Jobs] /\ trail' = trail
          /\ t \notin Handed("paused") /\ t \notin Handed("resumed")
          /\ Handed("paused")' = IF "paused" = e THEN Handed("paused") \cup {t} ELSE Handed("paused")
          /\ Handed("resumed")' = IF "resumed" = e THEN Handed("resumed") \cup {t} ELSE Handed("resumed")
      BY <3>1, RecordHands
    <3>3. /\ CountOf("paused") \in Nat /\ CountOf("resumed") \in Nat
          /\ CountOf("paused")' = CountOf("paused") /\ CountOf("resumed")' = CountOf("resumed")
      BY <3>2, CountTyped DEF CountOf, FirewallInd, Types
    <3>4. /\ IsFiniteSet(Handed("paused")) /\ IsFiniteSet(Handed("resumed"))
          /\ (CountOf("paused") + P) - (CountOf("resumed") + R) = IF fw.paused THEN 1 ELSE 0
      BY <2>1 DEF FirewallInd, Balanced
    <3>5. /\ P \in Nat /\ R \in Nat
          /\ IsFiniteSet(Handed("paused") \cup {t}) /\ IsFiniteSet(Handed("resumed") \cup {t})
          /\ Cardinality(Handed("paused") \cup {t}) = P + 1
          /\ Cardinality(Handed("resumed") \cup {t}) = R + 1
      <4>1. P \in Nat /\ R \in Nat
        BY <3>4, FS_CardinalityType
      <4>2. IsFiniteSet(Handed("paused") \cup {t}) /\ Cardinality(Handed("paused") \cup {t}) = P + 1
        BY <3>2, <3>4, FS_AddElement, Zenon
      <4>3. IsFiniteSet(Handed("resumed") \cup {t}) /\ Cardinality(Handed("resumed") \cup {t}) = R + 1
        BY <3>2, <3>4, FS_AddElement, Zenon
      <4> QED BY <4>1, <4>2, <4>3
    <3>6. CASE on
      <4>1. /\ Handed("paused")' = Handed("paused") \cup {t}
            /\ Handed("resumed")' = Handed("resumed") /\ ~fw.paused
        BY <1>0, <2>1, <3>2, <3>6 DEF Firewalls
      <4>2. (CountOf("paused") + P) - (CountOf("resumed") + R) = 0
        BY <3>4, <4>1
      <4>3. /\ IsFiniteSet(Handed("paused")') /\ IsFiniteSet(Handed("resumed")')
            /\ (CountOf("paused")' + Cardinality(Handed("paused")'))
                 - (CountOf("resumed")' + Cardinality(Handed("resumed")')) = 1
        <5>1. IsFiniteSet(Handed("paused")') /\ IsFiniteSet(Handed("resumed")')
          BY <3>4, <3>5, <4>1, Zenon
        <5>2. Cardinality(Handed("paused")') = P + 1 /\ Cardinality(Handed("resumed")') = R
          BY <3>5, <4>1, Zenon
        <5>3. P \in Nat /\ R \in Nat
          BY <3>5
        <5> HIDE DEF P, R
        <5> QED BY <3>3, <4>2, <5>1, <5>2, <5>3
      <4>4. fw'.paused = TRUE
        BY <1>2, <3>6
      <4> QED BY <3>2, <4>3, <4>4 DEF Balanced
    <3>7. CASE ~on
      <4>1. /\ Handed("resumed")' = Handed("resumed") \cup {t}
            /\ Handed("paused")' = Handed("paused") /\ fw.paused
        BY <1>0, <2>1, <3>2, <3>7 DEF Firewalls
      <4>2. (CountOf("paused") + P) - (CountOf("resumed") + R) = 1
        BY <3>4, <4>1
      <4>3. /\ IsFiniteSet(Handed("paused")') /\ IsFiniteSet(Handed("resumed")')
            /\ (CountOf("paused")' + Cardinality(Handed("paused")'))
                 - (CountOf("resumed")' + Cardinality(Handed("resumed")')) = 0
        <5>1. IsFiniteSet(Handed("paused")') /\ IsFiniteSet(Handed("resumed")')
          BY <3>4, <3>5, <4>1, Zenon
        <5>2. Cardinality(Handed("paused")') = P /\ Cardinality(Handed("resumed")') = R + 1
          BY <3>5, <4>1, Zenon
        <5>3. P \in Nat /\ R \in Nat
          BY <3>5
        <5> HIDE DEF P, R
        <5> QED BY <3>3, <4>2, <5>1, <5>2, <5>3
      <4>4. fw'.paused = FALSE
        BY <1>2, <3>7
      <4> QED BY <3>2, <4>3, <4>4 DEF Balanced
    <3> QED BY <3>6, <3>7
  <2>2. CASE ~(fw.paused # on /\ fw.audited)
    <3>1. UNCHANGED <<job, trail>>
      BY <2>2 DEF Switch, audit
    <3>2. CASE fw.audited
      BY <1>2, <2>2, <3>1, <3>2, AuditFrame DEF FirewallInd, Types
    <3>3. CASE ~fw.audited
      <4>1. Handed("paused")' = Handed("paused") /\ Handed("resumed")' = Handed("resumed")
        BY <3>1 DEF Handed
      <4> QED BY <1>2, <3>1, <3>3, <4>1 DEF FirewallInd, Types, Balanced
    <3> QED BY <3>2, <3>3
  <2> QED BY <2>1, <2>2
<1>7. Types'
  BY <1>1, <1>2, <1>4, <1>6 DEF FirewallInd, Types
<1> QED BY <1>4, <1>5, <1>6, <1>7 DEF FirewallInd

\* A step of record() behind the trace, or before it, hands nothing over.
LEMMA JobSteps ==
    ASSUME FirewallInd, NEW r \in Recorders, NEW to \in {"append", "ring"}
    PROVE  /\ [job[r] EXCEPT ![1] = to] = <<to, job[r][2]>>
           /\ <<to, job[r][2]>> \in Jobs
           /\ job[r] = <<job[r][1], job[r][2]>>
           /\ job[r][2] \in Events
<1>1. PICK a \in {"idle", "trace", "append", "ring"}, e \in Events : job[r] = <<a, e>>
  BY DEF FirewallInd, Types, Jobs
<1>2. [<<a, e>> EXCEPT ![1] = to] = <<to, e>>
  OBVIOUS
<1>3. <<to, e>> \in Jobs
  BY DEF Jobs
<1> QED BY <1>1, <1>2, <1>3

\* The steps of the log: tracing turns a handed transition into a traced one,
\* and the others touch neither.
LEMMA LoggedInd == ASSUME FirewallInd, NEW r \in Recorders, Logged(r) PROVE FirewallInd'
<1>0. UNCHANGED <<fw, call, attempts, grants, reloads>> /\ calls' \in Nat
  BY DEF Logged, Call, FirewallInd, Types
<1>1. CallsKept' /\ QuotaKept' /\ TrackerKept'
  BY <1>0, QuotaFrame, TrackerFrame DEF FirewallInd, CallsKept, CallKept
<1>2. SUFFICES job' \in [Recorders -> Jobs] /\ trail' \in Seq(Events) /\ Balanced'
  BY <1>0, <1>1 DEF FirewallInd, Types
<1>3. {"paused", "resumed", "auth"} \subseteq Events /\ trail \in Seq(Events)
      /\ job \in [Recorders -> Jobs]
  BY DEF Events, FirewallInd, Types
<1>4. ASSUME UNCHANGED trail, Handed("paused")' = Handed("paused"),
             Handed("resumed")' = Handed("resumed")
      PROVE  Balanced'
  <2>1. CountOf("paused")' = CountOf("paused") /\ CountOf("resumed")' = CountOf("resumed")
    BY <1>4 DEF CountOf
  <2> QED BY <1>0, <1>4, <2>1 DEF FirewallInd, Balanced
<1>5. CASE Record(r, "auth")
  <2>1. /\ job' \in [Recorders -> Jobs] /\ UNCHANGED trail
        /\ Handed("paused")' = Handed("paused") /\ Handed("resumed")' = Handed("resumed")
    BY <1>3, <1>5, RecordHands
  <2> QED BY <1>3, <1>4, <2>1
<1>6. ASSUME UNCHANGED trail, job[r][1] # "trace", NEW new \in Jobs,
             \A e : new # <<"trace", e>>, job' = [job EXCEPT ![r] = new]
      PROVE  job' \in [Recorders -> Jobs] /\ trail' \in Seq(Events) /\ Balanced'
  <2>1. \A e : job[r] # <<"trace", e>>
    BY <1>6
  <2>2. Handed("paused")' = Handed("paused") /\ Handed("resumed")' = Handed("resumed")
    BY <1>3, <1>6, <2>1 DEF Handed
  <2> QED BY <1>3, <1>4, <1>6, <2>2
<1>7. CASE Persist(r) \/ PersistFails(r)
  <2>1. /\ job' = [job EXCEPT ![r] = <<"ring", job[r][2]>>] /\ UNCHANGED trail
        /\ job[r][1] = "append"
    BY <1>7, JobSteps DEF Persist, PersistFails
  <2>2. <<"ring", job[r][2]>> \in Jobs /\ \A e : <<"ring", job[r][2]>> # <<"trace", e>>
    BY JobSteps
  <2> QED BY <1>6, <2>1, <2>2
<1>8. CASE Push(r)
  <2>1. job' = [job EXCEPT ![r] = Idle] /\ UNCHANGED trail /\ job[r][1] = "ring"
    BY <1>8 DEF Push
  <2>2. Idle \in Jobs /\ \A e : Idle # <<"trace", e>>
    BY DEF Idle, Jobs, Events
  <2> QED BY <1>6, <2>1, <2>2
<1>9. CASE Trace(r)
  <2> DEFINE e == job[r][2]
             to == IF sink = Closed THEN "ring" ELSE "append"
             P == Cardinality(Handed("paused"))
             R == Cardinality(Handed("resumed"))
  <2>1. /\ job[r] = <<"trace", e>> /\ e \in Events
        /\ job' = [job EXCEPT ![r] = <<to, e>>] /\ trail' = Append(trail, e)
        /\ <<to, e>> \in Jobs /\ \A f : <<to, e>> # <<"trace", f>>
    <3>1. to \in {"append", "ring"}
      OBVIOUS
    <3> QED BY <1>9, <3>1, JobSteps DEF Trace
  <2> HIDE DEF to
  <2>2. job' \in [Recorders -> Jobs] /\ trail' \in Seq(Events)
    BY <1>3, <2>1
  <2>3. ASSUME NEW f \in Events
        PROVE  /\ Handed(f)' = IF f = e THEN Handed(f) \ {r} ELSE Handed(f)
               /\ r \in Handed(f) <=> f = e
    BY <1>3, <2>1 DEF Handed
  <2>4. /\ CountOf("paused")' = IF "paused" = e THEN CountOf("paused") + 1 ELSE CountOf("paused")
        /\ CountOf("resumed")' = IF "resumed" = e THEN CountOf("resumed") + 1 ELSE CountOf("resumed")
        /\ CountOf("paused") \in Nat /\ CountOf("resumed") \in Nat
    BY <1>3, <2>1, CountAppend, CountTyped
  <2>5. /\ IsFiniteSet(Handed("paused")) /\ IsFiniteSet(Handed("resumed"))
        /\ P \in Nat /\ R \in Nat
    BY FS_CardinalityType DEF FirewallInd, Balanced
  <2>6. ASSUME NEW f \in {"paused", "resumed"}
        PROVE  /\ IsFiniteSet(Handed(f)')
               /\ Cardinality(Handed(f)') = IF f = e THEN Cardinality(Handed(f)) - 1
                                                     ELSE Cardinality(Handed(f))
    <3>1. f \in Events /\ IsFiniteSet(Handed(f))
      BY <1>3, <2>5
    <3>2. CASE f = e
      <4>1. Handed(f)' = Handed(f) \ {r} /\ r \in Handed(f)
        BY <2>3, <3>1, <3>2
      <4>2. IsFiniteSet(Handed(f) \ {r})
            /\ Cardinality(Handed(f) \ {r}) = IF r \in Handed(f) THEN Cardinality(Handed(f)) - 1
                                                                 ELSE Cardinality(Handed(f))
        BY <3>1, FS_RemoveElement, Zenon
      <4> QED BY <3>2, <4>1, <4>2
    <3>3. CASE f # e
      <4>1. Handed(f)' = Handed(f)
        BY <2>3, <3>1, <3>3
      <4> QED BY <3>1, <3>3, <4>1
    <3> QED BY <3>2, <3>3
  <2>7. /\ IsFiniteSet(Handed("paused")') /\ IsFiniteSet(Handed("resumed")')
        /\ Cardinality(Handed("paused")') = IF "paused" = e THEN P - 1 ELSE P
        /\ Cardinality(Handed("resumed")') = IF "resumed" = e THEN R - 1 ELSE R
    BY <2>6
  <2>8. (CountOf("paused")' + Cardinality(Handed("paused")'))
           - (CountOf("resumed")' + Cardinality(Handed("resumed")'))
        = (CountOf("paused") + P) - (CountOf("resumed") + R)
    <3> HIDE DEF P, R
    <3> QED BY <2>4, <2>5, <2>7
  <2>9. Balanced'
    BY <1>0, <2>7, <2>8 DEF FirewallInd, Balanced
  <2> QED BY <2>2, <2>9
<1> QED BY <1>5, <1>7, <1>8, <1>9 DEF Logged

\* A restart, like the start: built anew, nothing handed over or traced.
Started ==
    /\ fw \in {build(a) : a \in BOOLEAN} /\ call = [t \in Checkers |-> NoCall]
    /\ attempts = [i \in Ips |-> 0] /\ grants = [i \in Ips |-> 0]
    /\ calls \in Nat /\ reloads \in Nat
    /\ job = [r \in Recorders |-> Idle] /\ trail = <<>>

\* What has just been started satisfies the invariant.
LEMMA FreshInd == Started => FirewallInd
<1> SUFFICES ASSUME Started PROVE FirewallInd
  OBVIOUS
<1> USE FirewallAssumption DEF Started
<1>1. /\ fw \in Firewalls /\ ~fw.paused
      /\ \A i \in Ips : fw.limiter.level[i] = 0 /\ fw.tracker.rec[i].count = 0
      /\ Tracked(fw.tracker) = {}
  BY BuildTyped
<1>2. Types
  <2>1. call \in [Checkers -> Calls]
    BY NoCallKept
  <2>2. attempts \in [Ips -> Nat] /\ grants \in [Ips -> Nat]
    OBVIOUS
  <2>3. job \in [Recorders -> Jobs] /\ trail \in Seq(Events)
    BY DEF Jobs, Idle, Events
  <2> QED BY <1>1, <2>1, <2>2, <2>3 DEF Types
<1>3. QuotaKept
  <2> SUFFICES ASSUME NEW i \in Ips
               PROVE  fw.limiter.level[i] <= Burst /\ grants[i] <= fw.limiter.level[i] + Burst * reloads
    BY DEF QuotaKept
  <2>1. fw.limiter.level[i] = 0 /\ grants[i] = 0 /\ Burst \in Nat /\ Burst * reloads \in Nat
    BY <1>1
  <2> QED BY <2>1
<1>4. TrackerKept
  <2>1. \A i \in Ips : fw.tracker.rec[i].count <= attempts[i]
    BY <1>1
  <2> QED BY <1>1, <2>1, FS_EmptySet DEF TrackerKept
<1>5. CallsKept
  BY NoCallKept DEF CallsKept
<1>6. Balanced
  <2>1. Handed("paused") = {} /\ Handed("resumed") = {}
    BY DEF Handed, Idle
  <2>2. CountOf("paused") = 0 /\ CountOf("resumed") = 0
    BY FS_EmptySet DEF CountOf
  <2>3. IsFiniteSet({}) /\ Cardinality({}) = 0
    BY FS_EmptySet
  <2>4. (CountOf("paused") + Cardinality(Handed("paused")))
          - (CountOf("resumed") + Cardinality(Handed("resumed"))) = 0
    <3>1. Cardinality(Handed("paused")) = 0 /\ Cardinality(Handed("resumed")) = 0
      BY <2>1, <2>3, Zenon
    <3> QED BY <2>2, <3>1
  <2> QED BY <1>1, <2>1, <2>3, <2>4 DEF Balanced
<1> QED BY <1>2, <1>3, <1>4, <1>5, <1>6 DEF FirewallInd
-----------------------------------------------------------------------------
(* The theorems *)

\* The initial states.
LEMMA InitInd == Init => FirewallInd
  BY FreshInd DEF Init, AuditInit, Started

\* A crash takes calls and switch with it.
LEMMA RestartInd == ASSUME FirewallInd, Restart PROVE FirewallInd'
<1>1. /\ fw' = build(TRUE) /\ call' = [t \in Checkers |-> NoCall]
      /\ attempts' = [i \in Ips |-> 0] /\ grants' = [i \in Ips |-> 0]
      /\ calls' \in Nat /\ reloads' \in Nat
      /\ job' = [r \in Recorders |-> Idle] /\ trail' = <<>>
  BY DEF Restart, RestartClean, RestartTorn, Reopen, FirewallInd, Types
<1>2. Started'
  BY <1>1 DEF Started, build, FreshLimiter, NoCall, Unseen, Idle
<1>3. Started' => FirewallInd'
  BY FreshInd, PTL
<1> QED BY <1>2, <1>3

\* Every step keeps the invariant.
LEMMA NextInd == FirewallInd /\ [Next]_vars => FirewallInd'
<1> SUFFICES ASSUME FirewallInd, [Next]_vars PROVE FirewallInd'
  OBVIOUS
<1>1. ASSUME NEW t \in Checkers, CheckSteps(t) \/ \E i \in Ips : Check(t, i) PROVE FirewallInd'
  BY <1>1, CheckStepsInd, CheckInd
<1>2. ASSUME NEW t \in Recorders, Admin(t) \/ Pause(t) \/ Resume(t) \/ Logged(t) PROVE FirewallInd'
  BY <1>2, AdminInd, SwitchInd, LoggedInd DEF Pause, Resume
<1>3. CASE UNCHANGED vars
  <2>1. UNCHANGED <<fw, call, attempts, grants, calls, reloads, job, trail>>
    BY <1>3 DEF vars, audit
  <2>2. CallsKept' /\ Types'
    BY <2>1 DEF FirewallInd, CallsKept, CallKept, Types
  <2> QED BY <2>1, <2>2, QuotaFrame, TrackerFrame, AuditFrame DEF FirewallInd
<1> QED BY <1>1, <1>2, <1>3, ReloadInd, TickInd, RestartInd DEF Next

\* The inductive invariant: what the limiter handed out, what a call under way
\* has seen, and the transitions of the switch that the log has still to trace.
THEOREM FirewallInductive == Spec => []FirewallInd
  BY InitInd, NextInd, PTL DEF Spec

\* For any flood of addresses and any number of concurrent calls: no address is
\* given more than the quota's burst per limiter, housekeeping included, and the
\* tracker stays within its cap and invents no attempt (check(), record()).
THEOREM TablesAreBounded == Spec => []TablesBounded
<1>1. FirewallInd => TablesBounded
  <2> SUFFICES ASSUME FirewallInd PROVE TablesBounded
    OBVIOUS
  <2>1. QuotaHeld
    <3> SUFFICES ASSUME NEW i \in Ips PROVE grants[i] <= Burst * (1 + reloads)
      BY DEF QuotaHeld
    <3>1. /\ Burst \in Nat /\ reloads \in Nat /\ grants[i] \in Nat
          /\ fw.limiter.level[i] \in Nat /\ fw.limiter.level[i] <= Burst
          /\ grants[i] <= fw.limiter.level[i] + Burst * reloads
      BY FirewallAssumption DEF FirewallInd, Types, QuotaKept, Firewalls, Limiters
    <3>2. Burst * reloads \in Nat /\ Burst * (1 + reloads) = Burst + Burst * reloads
      BY <3>1
    <3> QED BY <3>1, <3>2
  <2>2. TrackerSound
    BY DEF FirewallInd, TrackerKept, TrackerSound
  <2> QED BY <2>1, <2>2 DEF TablesBounded
<1> QED BY <1>1, FirewallInductive, PTL

\* An address that was blocklisted when check() was called is let in only if it
\* is allowlisted or enforcement was paused during that very call, however the
\* reads of any number of calls interleave with pause(), resume() and the lists.
THEOREM BlocklistIsHonoured == Spec => []BlockHonoured
<1>1. FirewallInd => BlockHonoured
  BY DEF FirewallInd, CallsKept, CallKept, BlockHonoured, At
<1> QED BY <1>1, FirewallInductive, PTL

\* The pause switch and the trail agree as soon as no call is between its swap
\* and its trace, for any number of administrators racing each other and across
\* restarts (PauseSwitch, AuditLog::record).
THEOREM PausesAreAudited == Spec => []PauseAudited
<1>1. FirewallInd => PauseAudited
  <2> SUFFICES ASSUME FirewallInd, fw.audited, ~Pending
               PROVE  CountOf("paused") - CountOf("resumed") = IF fw.paused THEN 1 ELSE 0
    BY DEF PauseAudited
  <2>1. Handed("paused") = {} /\ Handed("resumed") = {}
    BY DEF Handed, Pending
  <2>2. Cardinality({}) = 0
    BY FS_EmptySet
  <2>3. CountOf("paused") \in Nat /\ CountOf("resumed") \in Nat
    BY CountTyped DEF FirewallInd, Types
  <2>4. (CountOf("paused") + 0) - (CountOf("resumed") + 0) = IF fw.paused THEN 1 ELSE 0
    BY <2>1, <2>2 DEF FirewallInd, Balanced
  <2> QED BY <2>3, <2>4
<1> QED BY <1>1, FirewallInductive, PTL
-----------------------------------------------------------------------------
(* The audit chain *)

\* A record is six pieces: number, tab, event, tab, hash, newline.  TipHash is
\* the hash that the record behind the k-th one is chained to.
TipHash(t, k) == IF k = 0 THEN <<>> ELSE <<t[6 * k - 1]>>
RecordAt(t, s, k) ==
    /\ t[6 * k - 5] = <<"seq", k - 1>> /\ t[6 * k - 4] = Tab
    /\ t[6 * k - 3] = <<"event", s[k]>> /\ t[6 * k - 2] = Tab
    /\ t[6 * k - 1] = chain_hash(TipHash(t, k - 1), <<<<"seq", k - 1>>, Tab, <<"event", s[k]>>>>)
    /\ t[6 * k] = Newline

IsText(t) == t \in Seq({t[i] : i \in DOMAIN t})

\* The text t begins with the records of the events s.
Holds(t, s) ==
    /\ IsText(t)
    /\ 6 * Len(s) <= Len(t)
    /\ \A k \in 1 .. Len(s) : RecordAt(t, s, k)

\* The file in its three shapes: whole records; records and behind them all of
\* one but its newline; or, behind some records, a line that does not link to
\* them and that nothing appended later can mend, since it is ended already or
\* goes on with what is appended.
WholeFile(t, s) == Holds(t, s) /\ Len(t) = 6 * Len(s)
OpenLine(t, s)  == Holds(t, s) /\ \A i \in 6 * Len(s) + 1 .. Len(t) : t[i] # Newline
CutLine(t, w) ==
    \E s \in Seq(Events) :
        OpenLine(t, s) /\ 6 * Len(s) < Len(t) /\ WholeFile(t \o <<Newline>>, w)
BadLine(t, n, q) ==
    /\ q \in 6 * n + 1 .. Len(t) /\ \A i \in 6 * n + 1 .. q : t[i] # Newline
    /\ q = Len(t) \/ t[q + 1] = Newline
    /\ \A p, m : t[q] = chain_hash(p, m) => p # TipHash(t, n) \/ Len(m) # q - 6 * n - 2
BrokenFile(t) == \E s \in Seq(Events) : Holds(t, s) /\ \E q \in Nat : BadLine(t, Len(s), q)

\* The sink stands at the end of the records s of the text t.
InStep(st, t, s) == st.prev = TipHash(t, Len(s)) /\ st.seq = Len(s)

\* Until a write is cut short the file is whole and an open sink in step with
\* it.  A sink that a failed sync left behind is chained to another record.
ChainKept ==
    /\ safe \in Seq(Events) /\ stored \in Seq(Events) /\ tears \in Nat
    /\ Holds(text, safe)
    /\ tears = 0 => /\ WholeFile(text, stored) /\ safe = stored
                    /\ sink = Closed \/ InStep(sink, text, stored)
    /\ \/ /\ WholeFile(text, stored)
          /\ sink = Closed \/ InStep(sink, text, stored) \/ sink.prev # TipHash(text, Len(stored))
       \/ CutLine(text, stored)
       \/ BrokenFile(text)
    /\ \A r \in Recorders : job[r][1] = "append" => sink # Closed
-----------------------------------------------------------------------------
\* The pieces of a record are told apart by their first element.
LEMMA PiecesApart ==
    /\ Tab # Newline
    /\ \A x : <<"seq", x>> # Tab /\ <<"seq", x>> # Newline
    /\ \A x : <<"event", x>> # Tab /\ <<"event", x>> # Newline
    /\ \A x, y : chain_hash(x, y) # Tab /\ chain_hash(x, y) # Newline
<1>1. Tab[1] = "tab" /\ Newline[1] = "newline"
  BY DEF Tab, Newline
<1>2. \A x : <<"seq", x>>[1] = "seq" /\ <<"event", x>>[1] = "event"
  OBVIOUS
<1>3. \A x, y : chain_hash(x, y)[1] = "hash"
  BY DEF chain_hash
<1> QED BY <1>1, <1>2, <1>3

\* Any sequence is a text.
LEMMA SeqText == ASSUME NEW C, NEW v \in Seq(C) PROVE IsText(v)
<1> DEFINE A == {v[i] : i \in DOMAIN v}
<1>1. Len(v) \in Nat /\ v \in [1 .. Len(v) -> C] /\ DOMAIN v = 1 .. Len(v)
  BY LenProperties
<1>2. v \in [1 .. Len(v) -> A]
  BY <1>1
<1>3. v \in Seq(A)
  <2> HIDE DEF A
  <2> QED BY <1>1, <1>2, SeqDef
<1> QED BY <1>3 DEF IsText

\* A text and what is appended to it, piece by piece.
LEMMA TextAppends ==
    ASSUME NEW t, IsText(t), NEW u, IsText(u)
    PROVE  /\ IsText(t \o u) /\ Len(t) \in Nat /\ Len(u) \in Nat
           /\ Len(t \o u) = Len(t) + Len(u)
           /\ \A i \in 1 .. Len(t) : (t \o u)[i] = t[i]
           /\ \A i \in 1 .. Len(u) : (t \o u)[Len(t) + i] = u[i]
<1> DEFINE A == {t[i] : i \in DOMAIN t}
           B == {u[i] : i \in DOMAIN u}
           C == A \cup B
           v == t \o u
<1>1. t \in Seq(A) /\ u \in Seq(B)
  BY DEF IsText
<1>2. /\ Len(t) \in Nat /\ Len(u) \in Nat /\ t \in Seq(C) /\ u \in Seq(C)
      /\ DOMAIN t = 1 .. Len(t) /\ DOMAIN u = 1 .. Len(u)
  <2> HIDE DEF A, B
  <2> QED BY <1>1
<1>3. /\ v \in Seq(C) /\ Len(v) = Len(t) + Len(u)
      /\ \A i \in 1 .. Len(t) : v[i] = t[i]
      /\ \A i \in 1 .. Len(u) : v[Len(t) + i] = u[i]
  <2> HIDE DEF C
  <2> QED BY <1>2
<1>4. IsText(v)
  <2> HIDE DEF v, C
  <2> QED BY <1>3, SeqText
<1> QED BY <1>2, <1>3, <1>4

\* The six pieces of the line that append() writes.
LEMMA LinePieces ==
    ASSUME NEW st, NEW e
    PROVE  /\ IsText(Line(st, e)) /\ Len(Line(st, e)) = 6
           /\ Line(st, e)[1] = <<"seq", st.seq>> /\ Line(st, e)[2] = Tab
           /\ Line(st, e)[3] = <<"event", e>> /\ Line(st, e)[4] = Tab
           /\ Line(st, e)[5] = chain_hash(st.prev, <<<<"seq", st.seq>>, Tab, <<"event", e>>>>)
           /\ Line(st, e)[6] = Newline
<1> DEFINE a == <<"seq", st.seq>>
           b == <<"event", e>>
           h == chain_hash(st.prev, <<a, Tab, b>>)
<1>1. Line(st, e) = <<a, Tab, b>> \o <<Tab, h, Newline>>
  BY DEF Line, Payload
<1> HIDE DEF a, b, h
<1> DEFINE l == <<a, Tab, b>>
           r == <<Tab, h, Newline>>
<1>2. /\ IsText(l) /\ Len(l) = 3 /\ l[1] = a /\ l[2] = Tab /\ l[3] = b
      /\ IsText(r) /\ Len(r) = 3 /\ r[1] = Tab /\ r[2] = h /\ r[3] = Newline
  BY DEF IsText
<1> HIDE DEF l, r
<1> DEFINE v == l \o r
<1>3. /\ IsText(v) /\ Len(v) = Len(l) + Len(r)
      /\ \A i \in 1 .. Len(l) : v[i] = l[i]
      /\ \A i \in 1 .. Len(r) : v[Len(l) + i] = r[i]
  <2>1. IsText(l) /\ IsText(r)
    BY <1>2
  <2>2. /\ IsText(l \o r) /\ Len(l \o r) = Len(l) + Len(r)
        /\ \A i \in 1 .. Len(l) : (l \o r)[i] = l[i]
        /\ \A i \in 1 .. Len(r) : (l \o r)[Len(l) + i] = r[i]
    BY <2>1, TextAppends
  <2> QED BY <2>2
<1> HIDE DEF v
<1>4. /\ IsText(v) /\ Len(v) = 6
      /\ v[1] = a /\ v[2] = Tab /\ v[3] = b /\ v[4] = Tab /\ v[5] = h /\ v[6] = Newline
  <2>1. /\ \A i \in 1 .. 3 : v[i] = l[i]
        /\ \A i \in 1 .. 3 : v[3 + i] = r[i]
    BY <1>2, <1>3, Zenon
  <2>2. v[4] = r[1] /\ v[5] = r[2] /\ v[6] = r[3]
    BY <2>1
  <2>3. v[1] = l[1] /\ v[2] = l[2] /\ v[3] = l[3]
    BY <2>1
  <2> QED BY <1>2, <1>3, <2>2, <2>3
<1>5. Line(st, e) = v
  BY <1>1 DEF l, r, v
<1> QED BY <1>4, <1>5 DEF a, b, h

\* What a write that is cut short leaves is a text.
LEMMA TornText ==
    ASSUME NEW u, IsText(u), Len(u) = 6, NEW part \in Torn(u)
    PROVE  IsText(part)
<1> DEFINE A == {u[i] : i \in DOMAIN u} \cup {CutHash}
<1>1. u \in Seq(A) /\ Len(u) \in Nat /\ CutHash \in A
  <2>1. u \in Seq({u[i] : i \in DOMAIN u})
    BY DEF IsText
  <2> QED BY <2>1
<1> HIDE DEF A
<1>2. ASSUME NEW k \in 0 .. Len(u) PROVE SubSeq(u, 1, k) \in Seq(A)
  <2>1. \A i \in 1 .. k : i \in 1 .. Len(u)
    BY <1>1
  <2>2. \A i \in 1 .. k : u[i] \in A
    BY <1>1, <2>1, ElementOfSeq
  <2> QED BY <1>1, <2>2, SubSeqProperties
<1>3. SubSeq(u, 1, Len(u) - 2) \o <<CutHash>> \in Seq(A)
  <2>1. SubSeq(u, 1, Len(u) - 2) \in Seq(A) /\ <<CutHash>> \in Seq(A)
    BY <1>1, <1>2
  <2> QED BY <2>1
<1>4. part \in Seq(A)
  BY <1>2, <1>3 DEF Torn
<1> QED BY <1>4 DEF IsText
\* Whatever is appended, the records that a text holds stay where they are.
LEMMA HoldsExtends ==
    ASSUME NEW t, NEW s \in Seq(Events), Holds(t, s), NEW u, IsText(u)
    PROVE  Holds(t \o u, s)
<1> DEFINE v == t \o u
<1>1. /\ IsText(v) /\ Len(t) \in Nat /\ Len(u) \in Nat /\ Len(v) = Len(t) + Len(u)
      /\ \A i \in 1 .. Len(t) : v[i] = t[i]
  <2>1. IsText(t)
    BY DEF Holds
  <2> QED BY <2>1, TextAppends
<1> HIDE DEF v
<1>2. Len(s) \in Nat /\ 6 * Len(s) <= Len(t)
  BY LenProperties DEF Holds
<1>3. ASSUME NEW k \in 1 .. Len(s) PROVE RecordAt(v, s, k)
  <2>1. RecordAt(t, s, k)
    BY DEF Holds
  <2>2. \A j \in 0 .. 5 : 6 * k - j \in 1 .. Len(t)
    BY <1>1, <1>2
  <2>3. \A j \in 0 .. 5 : v[6 * k - j] = t[6 * k - j]
    BY <1>1, <2>2
  <2>4. /\ v[6 * k - 5] = t[6 * k - 5] /\ v[6 * k - 4] = t[6 * k - 4] /\ v[6 * k - 3] = t[6 * k - 3]
        /\ v[6 * k - 2] = t[6 * k - 2] /\ v[6 * k - 1] = t[6 * k - 1]
    BY <2>3
  <2>5. v[6 * k] = t[6 * k]
    <3>1. 6 * k \in 1 .. Len(t)
      BY <1>1, <1>2
    <3> QED BY <1>1, <3>1
  <2>6. TipHash(v, k - 1) = TipHash(t, k - 1)
    <3>1. CASE k = 1
      BY <3>1 DEF TipHash
    <3>2. CASE k # 1
      <4>1. 6 * (k - 1) - 1 \in 1 .. Len(t)
        BY <1>1, <1>2, <3>2
      <4>2. v[6 * (k - 1) - 1] = t[6 * (k - 1) - 1]
        BY <1>1, <4>1
      <4> QED BY <4>2 DEF TipHash
    <3> QED BY <3>1, <3>2
  <2> QED BY <2>1, <2>4, <2>5, <2>6, Zenon DEF RecordAt
<1>4. 6 * Len(s) <= Len(v)
  BY <1>1, <1>2
<1>5. Holds(v, s)
  BY <1>1, <1>3, <1>4 DEF Holds
<1> QED BY <1>5 DEF v

\* At the end of a text that holds nothing else, append() adds a record.
LEMMA HoldsAppends ==
    ASSUME NEW t, NEW s \in Seq(Events), Holds(t, s), NEW st, NEW e \in Events
    PROVE  (Len(t) = 6 * Len(s) /\ st.prev = TipHash(t, Len(s)) /\ st.seq = Len(s)) =>
           /\ Holds(t \o Line(st, e), Append(s, e))
           /\ Len(t \o Line(st, e)) = 6 * Len(Append(s, e))
           /\ TipHash(t \o Line(st, e), Len(Append(s, e))) = <<Line(st, e)[5]>>
           /\ Len(Append(s, e)) = Len(s) + 1 /\ Len(s) \in Nat
<1> DEFINE line == Line(st, e)
           v == t \o line
           w == Append(s, e)
           n == Len(s)
<1>1. /\ IsText(line) /\ Len(line) = 6 /\ line[1] = <<"seq", st.seq>> /\ line[2] = Tab
      /\ line[3] = <<"event", e>> /\ line[4] = Tab
      /\ line[5] = chain_hash(st.prev, <<<<"seq", st.seq>>, Tab, <<"event", e>>>>)
      /\ line[6] = Newline
  BY LinePieces
<1> HIDE DEF line
<1>2. /\ n \in Nat /\ w \in Seq(Events) /\ Len(w) = n + 1 /\ w[n + 1] = e
      /\ \A k \in 1 .. n : w[k] = s[k]
  OBVIOUS
<1> HIDE DEF w
<1>3. /\ Holds(v, s) /\ IsText(v) /\ Len(v) = Len(t) + Len(line)
      /\ \A i \in 1 .. Len(t) : v[i] = t[i]
      /\ \A i \in 1 .. Len(line) : v[Len(t) + i] = line[i]
  <2>1. IsText(t) /\ IsText(line)
    BY <1>1 DEF Holds
  <2>2. Holds(v, s)
    BY <2>1, HoldsExtends
  <2>3. /\ IsText(t \o line) /\ Len(t \o line) = Len(t) + Len(line)
        /\ \A i \in 1 .. Len(t) : (t \o line)[i] = t[i]
        /\ \A i \in 1 .. Len(line) : (t \o line)[Len(t) + i] = line[i]
    BY <2>1, TextAppends
  <2> QED BY <2>2, <2>3
<1> HIDE DEF v
<1> SUFFICES ASSUME Len(t) = 6 * n, st.prev = TipHash(t, n), st.seq = n
             PROVE  /\ Holds(v, w) /\ Len(v) = 6 * Len(w)
                    /\ TipHash(v, Len(w)) = <<line[5]>> /\ Len(w) = n + 1 /\ n \in Nat
  BY DEF v, w, line
<1>4. /\ Len(v) = Len(t) + 6
      /\ v[Len(t) + 1] = line[1] /\ v[Len(t) + 2] = line[2] /\ v[Len(t) + 3] = line[3]
      /\ v[Len(t) + 4] = line[4] /\ v[Len(t) + 5] = line[5] /\ v[Len(t) + 6] = line[6]
  BY <1>1, <1>3
<1>5. ASSUME NEW k \in 1 .. n PROVE RecordAt(v, w, k)
  <2>1. RecordAt(v, s, k)
    BY <1>3, Zenon DEF Holds
  <2>2. w[k] = s[k]
    BY <1>2
  <2> QED BY <2>1, <2>2 DEF RecordAt
<1>6. TipHash(v, n) = TipHash(t, n)
  <2>1. CASE n = 0
    BY <2>1 DEF TipHash
  <2>2. CASE n # 0
    <3>1. 6 * n - 1 \in 1 .. Len(t)
      BY <1>2, <1>4, <2>2
    <3>2. v[6 * n - 1] = t[6 * n - 1]
      BY <1>3, <3>1
    <3> HIDE DEF n
    <3> QED BY <3>2 DEF TipHash
  <2> QED BY <2>1, <2>2
<1> HIDE DEF n
<1>7. /\ v[6 * (n + 1) - 5] = line[1] /\ v[6 * (n + 1) - 4] = line[2] /\ v[6 * (n + 1) - 3] = line[3]
      /\ v[6 * (n + 1) - 2] = line[4] /\ v[6 * (n + 1) - 1] = line[5] /\ v[6 * (n + 1)] = line[6]
  <2>1. /\ 6 * (n + 1) - 5 = Len(t) + 1 /\ 6 * (n + 1) - 4 = Len(t) + 2
        /\ 6 * (n + 1) - 3 = Len(t) + 3 /\ 6 * (n + 1) - 2 = Len(t) + 4
        /\ 6 * (n + 1) - 1 = Len(t) + 5 /\ 6 * (n + 1) = Len(t) + 6
    <3>1. n \in Nat /\ Len(t) = 6 * n
      BY <1>2, <1>4
    <3> QED BY <3>1
  <2>2. /\ v[Len(t) + 1] = line[1] /\ v[Len(t) + 2] = line[2] /\ v[Len(t) + 3] = line[3]
        /\ v[Len(t) + 4] = line[4] /\ v[Len(t) + 5] = line[5] /\ v[Len(t) + 6] = line[6]
    BY <1>4, Zenon
  <2> QED BY <2>1, <2>2, Zenon
<1>8. RecordAt(v, w, n + 1)
  <2>1. (n + 1) - 1 = n
    BY <1>2
  <2> QED BY <1>1, <1>2, <1>6, <1>7, <2>1, Zenon DEF RecordAt
<1>9. 6 * Len(w) = Len(v)
  BY <1>2, <1>4
<1>10. Holds(v, w)
  <2>1. \A k \in 1 .. Len(w) : k \in 1 .. n \/ k = n + 1
    BY <1>2
  <2>2. 6 * Len(w) <= Len(v)
    BY <1>2, <1>9
  <2> QED BY <1>3, <1>5, <1>8, <2>1, <2>2, Zenon DEF Holds
<1>11. TipHash(v, n + 1) = <<line[5]>>
  <2>1. n + 1 # 0
    BY <1>2
  <2> QED BY <1>7, <2>1, Zenon DEF TipHash
<1> QED BY <1>2, <1>9, <1>10, <1>11

\* The newline is the last piece of a line and no other.
LEMMA LineOpen == ASSUME NEW st, NEW e PROVE \A i \in 1 .. 5 : Line(st, e)[i] # Newline
<1> DEFINE line == Line(st, e)
           P == <<<<"seq", st.seq>>, Tab, <<"event", e>>>>
<1>1. /\ line[1] = <<"seq", st.seq>> /\ line[2] = Tab /\ line[3] = <<"event", e>>
      /\ line[4] = Tab /\ line[5] = chain_hash(st.prev, P)
  BY LinePieces
<1> HIDE DEF line, P
<1>2. /\ line[1] # Newline /\ line[2] # Newline /\ line[3] # Newline /\ line[4] # Newline
      /\ line[5] # Newline
  BY <1>1, PiecesApart, Zenon
<1>3. \A i \in 1 .. 5 : i = 1 \/ i = 2 \/ i = 3 \/ i = 4 \/ i = 5
  OBVIOUS
<1> QED BY <1>2, <1>3, Zenon DEF line

\* What a write that is cut short leaves: nothing, pieces of which the last is
\* no hash, all of the record but the newline, or the record.
LEMMA PartPieces ==
    ASSUME NEW st, NEW e, NEW part \in Torn(Line(st, e))
    PROVE  /\ IsText(part) /\ Len(part) \in Nat
           /\ part = <<>> => part \notin {Line(st, e), SubSeq(Line(st, e), 1, Len(Line(st, e)) - 1)}
           /\ \/ part = <<>>
              \/ /\ Len(part) \in 1 .. 5 /\ \A i \in 1 .. Len(part) : part[i] # Newline
                 /\ \A p, m : part[Len(part)] # chain_hash(p, m)
              \/ /\ Len(part) = 5 /\ \A i \in 1 .. 5 : part[i] = Line(st, e)[i]
                 /\ part = SubSeq(Line(st, e), 1, Len(Line(st, e)) - 1)
              \/ part = Line(st, e)
<1> DEFINE line == Line(st, e)
           C == {line[i] : i \in DOMAIN line}
<1>1. /\ IsText(line) /\ Len(line) = 6 /\ line[1] = <<"seq", st.seq>> /\ line[2] = Tab
      /\ line[3] = <<"event", e>> /\ line[4] = Tab
      /\ line[5] = chain_hash(st.prev, <<<<"seq", st.seq>>, Tab, <<"event", e>>>>)
      /\ line[6] = Newline
  BY LinePieces
<1>2. line \in Seq(C)
  BY <1>1 DEF IsText
<1>3. /\ \A i \in 1 .. 5 : line[i] # Newline
      /\ \A i \in 1 .. 4 : \A p, m : line[i] # chain_hash(p, m)
      /\ \A p, m : CutHash # chain_hash(p, m)
      /\ CutHash # Newline
  <2>1. /\ \A p, m : chain_hash(p, m)[1] = "hash" /\ chain_hash(p, m) # Newline
        /\ CutHash[1] = "cut" /\ Tab[1] = "tab" /\ Newline[1] = "newline"
    BY PiecesApart DEF chain_hash, CutHash, Tab, Newline
  <2>2. line[1][1] = "seq" /\ line[2][1] = "tab" /\ line[3][1] = "event" /\ line[4][1] = "tab"
    BY <1>1, <2>1
  <2>3. line[5] # Newline
    BY <1>1, <2>1, Zenon
  <2> HIDE DEF line
  <2>4. ASSUME NEW i \in 1 .. 4 PROVE line[i] # Newline /\ \A p, m : line[i] # chain_hash(p, m)
    <3>1. i = 1 \/ i = 2 \/ i = 3 \/ i = 4
      OBVIOUS
    <3>2. line[i][1] \in {"seq", "tab", "event"}
      BY <2>2, <3>1
    <3>3. line[i][1] # "newline" /\ line[i][1] # "hash"
      BY <3>2
    <3> QED BY <2>1, <3>3
  <2>5. \A i \in 1 .. 5 : i \in 1 .. 4 \/ i = 5
    OBVIOUS
  <2>6. (\A p, m : CutHash # chain_hash(p, m)) /\ CutHash # Newline
    BY <2>1
  <2> QED BY <2>3, <2>4, <2>5, <2>6
<1> HIDE DEF C, line
<1>4. ASSUME NEW k \in 0 .. 6
      PROVE  /\ SubSeq(line, 1, k) \in Seq(C) /\ Len(SubSeq(line, 1, k)) = k
             /\ \A i \in 1 .. k : SubSeq(line, 1, k)[i] = line[i]
  <2>1. \A i \in 1 .. k : line[i] \in C
    <3>1. \A i \in 1 .. k : i \in 1 .. Len(line)
      BY <1>1
    <3> QED BY <1>2, <3>1, ElementOfSeq
  <2>2. /\ SubSeq(line, 1, k) \in Seq(C) /\ Len(SubSeq(line, 1, k)) = IF 1 <= k THEN k - 1 + 1 ELSE 0
        /\ \A i \in 1 .. k - 1 + 1 : SubSeq(line, 1, k)[i] = line[1 + i - 1]
    BY <2>1, SubSeqProperties
  <2> DEFINE q == SubSeq(line, 1, k)
  <2> HIDE DEF q
  <2>3. /\ q \in Seq(C) /\ Len(q) = k /\ \A i \in 1 .. k : q[i] = line[i]
    BY <2>2 DEF q
  <2> QED BY <2>3 DEF q
<1>5. IsText(part)
  BY <1>1, TornText DEF line
<1>6. Len(part) \in Nat
  BY <1>5 DEF IsText
<1>7. part = <<>> => part \notin {line, SubSeq(line, 1, Len(line) - 1)}
  <2>1. Len(SubSeq(line, 1, 5)) = 5 /\ Len(line) - 1 = 5
    BY <1>1, <1>4
  <2>2. Len(<<>>) = 0
    OBVIOUS
  <2> QED BY <1>1, <2>1, <2>2
<1>8. ASSUME NEW k \in 0 .. 6, part = SubSeq(line, 1, k)
      PROVE  \/ part = <<>>
             \/ /\ Len(part) \in 1 .. 5 /\ \A i \in 1 .. Len(part) : part[i] # Newline
                /\ \A p, m : part[Len(part)] # chain_hash(p, m)
             \/ /\ Len(part) = 5 /\ \A i \in 1 .. 5 : part[i] = line[i]
                /\ part = SubSeq(line, 1, Len(line) - 1)
             \/ part = line
  <2>1. part \in Seq(C) /\ Len(part) = k /\ \A i \in 1 .. k : part[i] = line[i]
    BY <1>4, <1>8
  <2>2. CASE k = 0
    BY <2>1, <2>2, EmptySeq
  <2>3. CASE k \in 1 .. 4
    <3>1. \A i \in 1 .. k : i \in 1 .. 5
      BY <2>3
    <3>2. k \in 1 .. k /\ k \in 1 .. 5
      BY <2>3
    <3> QED BY <1>3, <2>1, <2>3, <3>1, <3>2
  <2>4. CASE k = 5
    <3>1. Len(line) - 1 = 5
      BY <1>1
    <3> QED BY <1>8, <2>1, <2>4, <3>1
  <2>5. CASE k = 6
    <3>1. Len(part) = Len(line) /\ \A i \in 1 .. Len(part) : part[i] = line[i]
      BY <1>1, <2>1, <2>5
    <3>2. part = line
      BY <1>2, <2>1, <3>1, SeqEqual
    <3> QED BY <3>2
  <2> QED BY <2>2, <2>3, <2>4, <2>5
<1>9. ASSUME part = SubSeq(line, 1, Len(line) - 2) \o <<CutHash>>
      PROVE  /\ Len(part) \in 1 .. 5 /\ \A i \in 1 .. Len(part) : part[i] # Newline
             /\ \A p, m : part[Len(part)] # chain_hash(p, m)
  <2> DEFINE f == SubSeq(line, 1, 4)
             c == <<CutHash>>
  <2>1. /\ IsText(f) /\ Len(f) = 4 /\ \A i \in 1 .. 4 : f[i] = line[i]
    <3>1. f \in Seq(C) /\ Len(f) = 4 /\ \A i \in 1 .. 4 : f[i] = line[i]
      BY <1>4
    <3> HIDE DEF f
    <3> QED BY <3>1, SeqText
  <2>2. IsText(c) /\ Len(c) = 1 /\ c[1] = CutHash
    BY DEF IsText
  <2>3. part = f \o c
    <3>1. Len(line) - 2 = 4
      BY <1>1
    <3> QED BY <1>9, <3>1
  <2> HIDE DEF f, c
  <2>4. /\ Len(part) = Len(f) + Len(c) /\ \A i \in 1 .. Len(f) : part[i] = f[i]
        /\ \A i \in 1 .. Len(c) : part[Len(f) + i] = c[i]
    <3>1. /\ Len(f \o c) = Len(f) + Len(c) /\ \A i \in 1 .. Len(f) : (f \o c)[i] = f[i]
          /\ \A i \in 1 .. Len(c) : (f \o c)[Len(f) + i] = c[i]
      <4>1. IsText(f) /\ IsText(c)
        BY <2>1, <2>2
      <4> QED BY <4>1, TextAppends
    <3> QED BY <2>3, <3>1
  <2>5. Len(part) = 5 /\ part[5] = CutHash /\ \A i \in 1 .. 4 : part[i] = line[i]
    BY <2>1, <2>2, <2>4
  <2>6. \A i \in 1 .. 5 : i \in 1 .. 4 \/ i = 5
    OBVIOUS
  <2>7. \A i \in 1 .. 4 : i \in 1 .. 5
    OBVIOUS
  <2> QED BY <1>3, <2>5, <2>6, <2>7
<1>10. \/ \E k \in 0 .. 6 : part = SubSeq(line, 1, k)
       \/ part = SubSeq(line, 1, Len(line) - 2) \o <<CutHash>>
  BY <1>1 DEF Torn, line
<1> QED BY <1>5, <1>6, <1>7, <1>8, <1>9, <1>10 DEF line

\* The tip of the records that a text holds is not moved by what is appended.
LEMMA TipStays ==
    ASSUME NEW t, NEW s \in Seq(Events), Holds(t, s), NEW u, IsText(u)
    PROVE  TipHash(t \o u, Len(s)) = TipHash(t, Len(s))
<1> DEFINE v == t \o u
           n == Len(s)
<1>1. n \in Nat /\ 6 * n <= Len(t)
  BY LenProperties DEF Holds
<1>2. Len(t) \in Nat /\ \A i \in 1 .. Len(t) : v[i] = t[i]
  BY TextAppends DEF Holds
<1> HIDE DEF v, n
<1>3. CASE n = 0
  BY <1>3 DEF TipHash, n, v
<1>4. CASE n # 0
  <2>1. 6 * n - 1 \in 1 .. Len(t)
    BY <1>1, <1>2, <1>4
  <2>2. v[6 * n - 1] = t[6 * n - 1]
    BY <1>2, <2>1
  <2>3. TipHash(v, n) = TipHash(t, n)
    BY <2>2 DEF TipHash
  <2> QED BY <2>3 DEF n, v
<1> QED BY <1>3, <1>4

\* What is set behind an open line that has begun, or by a sink that is chained
\* to another record, or is not a record, makes a line that does not link.
LEMMA OpenGoesBad ==
    ASSUME NEW t, NEW s \in Seq(Events), OpenLine(t, s), NEW st, NEW e,
           NEW part \in Torn(Line(st, e)), part # <<>>,
           \/ 6 * Len(s) < Len(t) \/ st.prev # TipHash(t, Len(s))
           \/ part \notin {Line(st, e), SubSeq(Line(st, e), 1, Len(Line(st, e)) - 1)}
    PROVE  BrokenFile(t \o part)
<1> DEFINE line == Line(st, e)
           v == t \o part
           n == Len(s)
           P == <<<<"seq", st.seq>>, Tab, <<"event", e>>>>
<1>1. /\ IsText(line) /\ Len(line) = 6 /\ line[5] = chain_hash(st.prev, P) /\ line[6] = Newline
      /\ \A i \in 1 .. 5 : line[i] # Newline
  BY LinePieces, LineOpen
<1>2. Len(P) = 3
  OBVIOUS
<1>3. /\ IsText(part) /\ Len(part) \in Nat
      /\ \/ /\ Len(part) \in 1 .. 5 /\ \A i \in 1 .. Len(part) : part[i] # Newline
            /\ \A p, m : part[Len(part)] # chain_hash(p, m)
         \/ /\ Len(part) = 5 /\ \A i \in 1 .. 5 : part[i] = line[i]
            /\ part = SubSeq(line, 1, Len(line) - 1)
         \/ part = line
  BY PartPieces, Zenon
<1>4. \/ 6 * n < Len(t) \/ st.prev # TipHash(t, n)
      \/ part \notin {line, SubSeq(line, 1, Len(line) - 1)}
  OBVIOUS
<1> HIDE DEF line, P
<1>5. /\ IsText(t) /\ n \in Nat /\ 6 * n <= Len(t)
      /\ \A i \in 6 * n + 1 .. Len(t) : t[i] # Newline
  BY LenProperties DEF OpenLine, Holds
<1>6. /\ Len(t) \in Nat /\ Len(v) = Len(t) + Len(part)
      /\ \A i \in 1 .. Len(t) : v[i] = t[i]
      /\ \A i \in 1 .. Len(part) : v[Len(t) + i] = part[i]
  BY <1>3, <1>5, TextAppends
<1>7. Holds(v, s) /\ TipHash(v, n) = TipHash(t, n)
  BY <1>3, HoldsExtends, TipStays DEF OpenLine
<1> HIDE DEF v, n
<1>8. ASSUME NEW k \in 1 .. Len(part), \A i \in 1 .. k : part[i] # Newline,
             k = Len(part) \/ part[k + 1] = Newline,
             \A p, m : part[k] = chain_hash(p, m) =>
                 p # TipHash(t, n) \/ Len(m) # (Len(t) + k) - 6 * n - 2
      PROVE  BrokenFile(v)
  <2> DEFINE q == Len(t) + k
  <2>0. /\ Len(part) \in Nat /\ Len(t) \in Nat /\ n \in Nat /\ 6 * n <= Len(t)
        /\ Len(v) = Len(t) + Len(part) /\ k \in 1 .. Len(part)
    BY <1>3, <1>5, <1>6
  <2>1. q \in 6 * n + 1 .. Len(v) /\ q \in Nat
    BY <2>0
  <2>2. v[q] = part[k]
    BY <1>6
  <2>3. ASSUME NEW i \in 6 * n + 1 .. q PROVE v[i] # Newline
    <3>1. CASE i <= Len(t)
      <4>1. i \in 6 * n + 1 .. Len(t) /\ i \in 1 .. Len(t)
        BY <1>5, <1>6, <3>1
      <4> QED BY <1>5, <1>6, <4>1
    <3>2. CASE ~(i <= Len(t))
      <4> DEFINE j == i - Len(t)
      <4>1. j \in 1 .. k /\ j \in 1 .. Len(part) /\ i = Len(t) + j
        BY <2>0, <3>2
      <4> HIDE DEF j
      <4> QED BY <1>6, <1>8, <4>1
    <3> QED BY <3>1, <3>2
  <2>4. q = Len(v) \/ v[q + 1] = Newline
    <3>1. CASE k = Len(part)
      BY <1>6, <3>1
    <3>2. CASE k # Len(part)
      <4>1. k + 1 \in 1 .. Len(part) /\ q + 1 = Len(t) + (k + 1)
        BY <1>3, <1>6, <3>2
      <4> QED BY <1>6, <1>8, <3>2, <4>1
    <3> QED BY <3>1, <3>2
  <2>5. \A p, m : v[q] = chain_hash(p, m) => p # TipHash(v, n) \/ Len(m) # q - 6 * n - 2
    <3>1. \A p, m : part[k] = chain_hash(p, m) => p # TipHash(t, n) \/ Len(m) # q - 6 * n - 2
      BY <1>8, Zenon DEF q
    <3> HIDE DEF q
    <3> QED BY <1>7, <2>2, <3>1, Zenon
  <2>6. BadLine(v, n, q)
    <3> HIDE DEF q
    <3> QED BY <2>1, <2>3, <2>4, <2>5 DEF BadLine
  <2> QED BY <1>7, <2>1, <2>6 DEF BrokenFile, n
<1>9. CASE /\ Len(part) \in 1 .. 5 /\ \A i \in 1 .. Len(part) : part[i] # Newline
           /\ \A p, m : part[Len(part)] # chain_hash(p, m)
  <2>1. Len(part) \in 1 .. Len(part)
    BY <1>9
  <2>2. BrokenFile(v)
    BY <1>8, <1>9, <2>1
  <2> QED BY <2>2 DEF v
<1>10. ASSUME \A i \in 1 .. 5 : part[i] = line[i], 5 \in 1 .. Len(part),
              part \in {line, SubSeq(line, 1, Len(line) - 1)},
              5 = Len(part) \/ part[6] = Newline
       PROVE  BrokenFile(v)
  <2>1. part[5] = chain_hash(st.prev, P) /\ \A i \in 1 .. 5 : part[i] # Newline
    <3>1. 5 \in 1 .. 5
      OBVIOUS
    <3> QED BY <1>1, <1>10, <3>1
  <2>2. ASSUME NEW p, NEW m, part[5] = chain_hash(p, m)
        PROVE  p # TipHash(t, n) \/ Len(m) # (Len(t) + 5) - 6 * n - 2
    <3>1. p = st.prev /\ m = P
      BY <2>1, <2>2 DEF chain_hash
    <3>2. CASE 6 * n < Len(t)
      <4>1. (Len(t) + 5) - 6 * n - 2 # 3
        BY <1>5, <1>6, <3>2
      <4> QED BY <1>2, <3>1, <4>1
    <3>3. CASE st.prev # TipHash(t, n)
      BY <3>1, <3>3
    <3> QED BY <1>4, <1>10, <3>2, <3>3
  <2>3. 5 + 1 = 6
    OBVIOUS
  <2> QED BY <1>8, <1>10, <2>1, <2>2, <2>3
<1>11. CASE /\ Len(part) = 5 /\ \A i \in 1 .. 5 : part[i] = line[i]
            /\ part = SubSeq(line, 1, Len(line) - 1)
  <2>1. 5 \in 1 .. Len(part)
    BY <1>11
  <2>2. BrokenFile(v)
    BY <1>10, <1>11, <2>1
  <2> QED BY <2>2 DEF v
<1>12. CASE part = line
  <2>1. part[6] = Newline /\ \A i \in 1 .. 5 : part[i] = line[i]
    BY <1>1, <1>12, Zenon
  <2>a. 5 \in 1 .. Len(part)
    <3>1. Len(part) = 6
      BY <1>1, <1>12, Zenon
    <3> QED BY <3>1
  <2>2. BrokenFile(v)
    BY <1>10, <1>12, <2>1, <2>a
  <2> QED BY <2>2 DEF v
<1> QED BY <1>3, <1>9, <1>11, <1>12

\* A line that is ended already stays as it is.
LEMMA BrokenStays ==
    ASSUME NEW t, BrokenFile(t), NEW st, NEW e, NEW part \in Torn(Line(st, e)), part # <<>>
    PROVE  BrokenFile(t \o part)
<1>1. PICK s \in Seq(Events), q \in Nat : Holds(t, s) /\ BadLine(t, Len(s), q)
  BY DEF BrokenFile
<1> DEFINE n == Len(s)
           v == t \o part
<1>2. n \in Nat /\ IsText(t) /\ IsText(part)
  BY <1>1, PartPieces, LenProperties DEF Holds
<1>3. /\ q \in 6 * n + 1 .. Len(t) /\ \A i \in 6 * n + 1 .. q : t[i] # Newline
      /\ q = Len(t) \/ t[q + 1] = Newline
      /\ \A p, m : t[q] = chain_hash(p, m) => p # TipHash(t, n) \/ Len(m) # q - 6 * n - 2
  BY <1>1, Zenon DEF BadLine
<1>4. CASE q = Len(t)
  <2>1. OpenLine(t, s)
    BY <1>1, <1>3, <1>4 DEF OpenLine
  <2>2. 6 * Len(s) < Len(t)
    BY <1>2, <1>3, <1>4
  <2> QED BY <2>1, <2>2, OpenGoesBad
<1>5. CASE q # Len(t)
  <2>1. /\ Len(t) \in Nat /\ Len(part) \in Nat /\ Len(v) = Len(t) + Len(part)
        /\ \A i \in 1 .. Len(t) : v[i] = t[i]
    BY <1>2, TextAppends
  <2>2. Holds(v, s) /\ TipHash(v, n) = TipHash(t, n)
    BY <1>1, <1>2, HoldsExtends, TipStays
  <2> HIDE DEF v, n
  <2>3. q \in 1 .. Len(t) /\ q + 1 \in 1 .. Len(t) /\ q \in 6 * n + 1 .. Len(v)
    BY <1>2, <1>3, <1>5, <2>1
  <2>4. v[q] = t[q] /\ v[q + 1] = Newline
    BY <1>3, <1>5, <2>1, <2>3
  <2>5. \A i \in 6 * n + 1 .. q : v[i] # Newline
    <3>1. \A i \in 6 * n + 1 .. q : i \in 1 .. Len(t)
      BY <1>2, <2>1, <2>3
    <3> QED BY <1>3, <2>1, <3>1
  <2>6. \A p, m : v[q] = chain_hash(p, m) => p # TipHash(v, n) \/ Len(m) # q - 6 * n - 2
    BY <1>3, <2>2, <2>4, Zenon
  <2>7. BadLine(v, n, q)
    BY <2>3, <2>4, <2>5, <2>6 DEF BadLine
  <2> QED BY <2>2, <2>7 DEF BrokenFile, v, n
<1> QED BY <1>4, <1>5

\* A sink in step that is stopped before the newline leaves a line that only
\* wants it.
LEMMA CutGoesOpen ==
    ASSUME NEW t, NEW w \in Seq(Events), WholeFile(t, w), NEW st, InStep(st, t, w), NEW e \in Events,
           NEW part, IsText(part)
    PROVE  Len(part) = 5 /\ (\A i \in 1 .. 5 : part[i] = Line(st, e)[i])
               => CutLine(t \o part, Append(w, e))
<1> DEFINE line == Line(st, e)
           v == t \o part
           n == Len(w)
           nl == <<Newline>>
<1>1. /\ IsText(line) /\ Len(line) = 6 /\ line[6] = Newline /\ \A i \in 1 .. 5 : line[i] # Newline
  <2>1. IsText(line) /\ Len(line) = 6 /\ line[6] = Newline
    BY LinePieces
  <2> QED BY <2>1, LineOpen
<1>2. /\ IsText(t) /\ Holds(t, w) /\ n \in Nat /\ Len(t) = 6 * n
  BY LenProperties DEF WholeFile, Holds
<1>3. WholeFile(t \o line, Append(w, e))
  BY <1>2, HoldsAppends DEF WholeFile, InStep
<1>4. IsText(nl) /\ Len(nl) = 1 /\ nl[1] = Newline
  BY DEF IsText
<1>8. /\ Len(t) \in Nat /\ Len(v) = Len(t) + Len(part)
      /\ \A i \in 1 .. Len(part) : v[Len(t) + i] = part[i]
  <2>1. IsText(t) /\ IsText(part)
    BY <1>2
  <2>2. /\ Len(t) \in Nat /\ Len(t \o part) = Len(t) + Len(part)
        /\ \A i \in 1 .. Len(part) : (t \o part)[Len(t) + i] = part[i]
    BY <2>1, TextAppends
  <2> QED BY <2>2
<1> HIDE DEF line, nl
<1>a. /\ IsText(part \o nl) /\ Len(part \o nl) = Len(part) + Len(nl)
      /\ \A i \in 1 .. Len(part) : (part \o nl)[i] = part[i]
      /\ \A i \in 1 .. Len(nl) : (part \o nl)[Len(part) + i] = nl[i]
  <2>1. IsText(nl) /\ IsText(part)
    BY <1>4
  <2> QED BY <2>1, TextAppends
<1>5. SUFFICES ASSUME Len(part) = 5, \A i \in 1 .. 5 : part[i] = line[i]
               PROVE  CutLine(v, Append(w, e))
  BY DEF line, v
<1>6. part \o nl = line
  <2> DEFINE u == part \o nl
             C == {u[i] : i \in DOMAIN u} \cup {line[i] : i \in DOMAIN line}
  <2>1. /\ IsText(u) /\ Len(u) = Len(part) + Len(nl)
        /\ \A i \in 1 .. Len(part) : u[i] = part[i]
        /\ \A i \in 1 .. Len(nl) : u[Len(part) + i] = nl[i]
    BY <1>a
  <2>2. u \in Seq(C) /\ line \in Seq(C)
    <3>1. u \in Seq({u[i] : i \in DOMAIN u}) /\ line \in Seq({line[i] : i \in DOMAIN line})
      BY <1>1, <2>1 DEF IsText
    <3> QED BY <3>1, SeqMonotonic
  <2> HIDE DEF u, C
  <2>3. Len(u) = 6 /\ u[6] = Newline /\ \A i \in 1 .. 5 : u[i] = line[i]
    BY <1>4, <1>5, <2>1
  <2>4. \A i \in 1 .. 6 : i \in 1 .. 5 \/ i = 6
    OBVIOUS
  <2>5. Len(u) = Len(line) /\ \A i \in 1 .. Len(u) : u[i] = line[i]
    BY <1>1, <2>3, <2>4, Zenon
  <2>6. u = line
    BY <2>2, <2>5, SeqEqual
  <2> QED BY <2>6 DEF u
<1>7. v \o nl = t \o line
  <2> DEFINE C == {t[i] : i \in DOMAIN t} \cup {part[i] : i \in DOMAIN part} \cup {nl[i] : i \in DOMAIN nl}
  <2>1. t \in Seq(C) /\ part \in Seq(C) /\ nl \in Seq(C)
    <3>1. /\ t \in Seq({t[i] : i \in DOMAIN t}) /\ part \in Seq({part[i] : i \in DOMAIN part})
          /\ nl \in Seq({nl[i] : i \in DOMAIN nl})
      BY <1>2, <1>4 DEF IsText
    <3> QED BY <3>1, SeqMonotonic
  <2>2. (t \o part) \o nl = t \o (part \o nl)
    <3> HIDE DEF C
    <3> QED BY <2>1, ConcatAssociative
  <2> QED BY <1>6, <2>2
<1>9. Holds(v, w)
  BY <1>2, HoldsExtends
<1> HIDE DEF v
<1>10. ASSUME NEW i \in 6 * n + 1 .. Len(v) PROVE v[i] # Newline
  <2> DEFINE j == i - Len(t)
  <2>0. n \in Nat /\ Len(t) = 6 * n /\ Len(v) = 6 * n + 5 /\ Len(part) = 5
    BY <1>2, <1>5, <1>8
  <2>1. j \in 1 .. 5 /\ j \in 1 .. Len(part) /\ i = Len(t) + j
    <3> HIDE DEF n
    <3> QED BY <2>0
  <2> HIDE DEF j
  <2> QED BY <1>1, <1>5, <1>8, <2>1
<1>11. 6 * n < Len(v)
  BY <1>2, <1>5, <1>8
<1> QED BY <1>3, <1>7, <1>9, <1>10, <1>11 DEF CutLine, OpenLine, v, nl

\* What an open sink meets in its file, the records that it holds once a piece of
\* a line is written, and what the file then looks like.
Readable(st, t, w) ==
    \/ WholeFile(t, w) /\ (InStep(st, t, w) \/ st.prev # TipHash(t, Len(w)))
    \/ CutLine(t, w)
    \/ BrokenFile(t)
RecordsLeft(st, e, part, w) ==
    IF part \in {Line(st, e), SubSeq(Line(st, e), 1, Len(Line(st, e)) - 1)} THEN Append(w, e) ELSE w
Grown(st, e, part, t, w, x) ==
    \/ part = <<>> /\ t \o part = t /\ x = w
    \/ /\ part = Line(st, e) /\ x = Append(w, e)
       /\ WholeFile(t, w) /\ InStep(st, t, w)
       /\ WholeFile(t \o part, x) /\ TipHash(t \o part, Len(x)) = <<Line(st, e)[5]>>
    \/ CutLine(t \o part, x)
    \/ BrokenFile(t \o part)

\* What any write, cut short or not, makes of the file.
LEMMA FileStep ==
    ASSUME NEW t, NEW w \in Seq(Events), NEW st, NEW e \in Events, NEW part \in Torn(Line(st, e)),
           Readable(st, t, w), NEW x, x = RecordsLeft(st, e, part, w)
    PROVE  x \in Seq(Events) /\ IsText(part) /\ Grown(st, e, part, t, w, x)
<1> USE DEF Readable, RecordsLeft, Grown
<1> DEFINE line == Line(st, e)
           cut  == SubSeq(line, 1, Len(line) - 1)
<1>1. x \in Seq(Events)
  <2>1. Append(w, e) \in Seq(Events)
    OBVIOUS
  <2> QED BY <2>1
<1>2. /\ IsText(part) /\ (part = <<>> => part \notin {line, cut})
      /\ \/ part = <<>> \/ part \notin {line, cut} \/ part = line
         \/ Len(part) = 5 /\ (\A i \in 1 .. 5 : part[i] = line[i]) /\ part = cut
  <2>1. /\ IsText(part) /\ (part = <<>> => part \notin {line, cut})
        /\ \/ part = <<>>
           \/ /\ Len(part) \in 1 .. 5 /\ \A i \in 1 .. Len(part) : part[i] # Newline
              /\ \A p, m : part[Len(part)] # chain_hash(p, m)
           \/ Len(part) = 5 /\ (\A i \in 1 .. 5 : part[i] = line[i]) /\ part = cut
           \/ part = line
    BY PartPieces, Zenon
  <2>2. /\ Len(line) = 6 /\ IsText(line) /\ \E p, m : line[5] = chain_hash(p, m)
    <3>1. Len(line) = 6 /\ IsText(line)
      BY LinePieces
    <3>2. line[5] = chain_hash(st.prev, <<<<"seq", st.seq>>, Tab, <<"event", e>>>>)
      BY LinePieces
    <3> QED BY <3>1, <3>2, Zenon
  <2>3. Len(cut) = 5 /\ cut[5] = line[5]
    <3> HIDE DEF line
    <3>1. \A i \in 1 .. 5 : line[i] \in {line[j] : j \in DOMAIN line}
      BY <2>2 DEF IsText
    <3> DEFINE C == {line[j] : j \in DOMAIN line}
    <3>2. /\ Len(SubSeq(line, 1, 5)) = IF 1 <= 5 THEN 5 - 1 + 1 ELSE 0
          /\ \A i \in 1 .. 5 - 1 + 1 : SubSeq(line, 1, 5)[i] = line[1 + i - 1]
      <4> HIDE DEF C
      <4>1. \A i \in 1 .. 5 : line[i] \in C
        BY <3>1 DEF C
      <4> QED BY <4>1, SubSeqProperties
    <3>3. Len(SubSeq(line, 1, 5)) = 5 /\ SubSeq(line, 1, 5)[5] = line[5]
      BY <3>2
    <3>4. Len(line) - 1 = 5
      BY <2>2
    <3> QED BY <3>3, <3>4, Zenon
  <2> HIDE DEF line, cut
  <2>4. CASE /\ Len(part) \in 1 .. 5 /\ \A p, m : part[Len(part)] # chain_hash(p, m)
    <3>1. part # line
      <4>1. 6 \notin 1 .. 5
        OBVIOUS
      <4> QED BY <2>2, <2>4, <4>1, Zenon
    <3>2. part # cut
      BY <2>2, <2>3, <2>4
    <3> QED BY <2>1, <3>1, <3>2
  <2> QED BY <2>1, <2>4
<1>3. IsText(t)
  BY DEF WholeFile, CutLine, BrokenFile, OpenLine, Holds
<1>4. CASE part = <<>>
  <2>1. t \o <<>> = t
    BY <1>3, ConcatEmptySeq DEF IsText
  <2> QED BY <1>1, <1>2, <1>4, <2>1
<1>5. ASSUME part # <<>>, BrokenFile(t) PROVE BrokenFile(t \o part)
  BY <1>5, BrokenStays
<1>6. ASSUME part # <<>>, CutLine(t, w) PROVE BrokenFile(t \o part)
  <2>1. PICK s \in Seq(Events) : OpenLine(t, s) /\ 6 * Len(s) < Len(t)
    BY <1>6 DEF CutLine
  <2> QED BY <1>6, <2>1, OpenGoesBad
<1>7. ASSUME part # <<>>, WholeFile(t, w), st.prev # TipHash(t, Len(w)) \/ part \notin {line, cut}
      PROVE  BrokenFile(t \o part)
  <2>1. OpenLine(t, w)
    <3>1. Len(w) \in Nat /\ Len(t) = 6 * Len(w) /\ Holds(t, w)
      BY <1>7, LenProperties DEF WholeFile
    <3> QED BY <3>1 DEF OpenLine
  <2> QED BY <1>7, <2>1, OpenGoesBad
<1>8. ASSUME part = line, WholeFile(t, w), InStep(st, t, w)
      PROVE  /\ x = Append(w, e) /\ WholeFile(t \o part, x)
             /\ TipHash(t \o part, Len(x)) = <<line[5]>>
  BY <1>8, HoldsAppends DEF WholeFile, InStep
<1>9. ASSUME Len(part) = 5, \A i \in 1 .. 5 : part[i] = line[i], part = cut,
             WholeFile(t, w), InStep(st, t, w)
      PROVE  CutLine(t \o part, x)
  <2>1. CutLine(t \o part, Append(w, e))
    BY <1>2, <1>9, CutGoesOpen
  <2>2. x = Append(w, e)
    BY <1>9
  <2> QED BY <2>1, <2>2
<1> HIDE DEF line, cut
<1> QED BY <1>1, <1>2, <1>4, <1>5, <1>6, <1>7, <1>8, <1>9, Zenon DEF line

\* The line of a record as tip() and verify() take it apart.
LEMMA RecordRead ==
    ASSUME NEW l, IsText(l), Len(l) = 5, NEW m \in Nat, NEW e, NEW h, h # Tab,
           l[1] = <<"seq", m>>, l[2] = Tab, l[3] = <<"event", e>>, l[4] = Tab, l[5] = h
    PROVE  /\ Tabs(l) # {} /\ Behind(l) = <<h>>
           /\ Before(l) = <<<<"seq", m>>, Tab, <<"event", e>>>>
           /\ IsNumber(FirstField(Before(l))) /\ NumberOf(FirstField(Before(l))) = m
           /\ EventOf(l) = e
<1> DEFINE a == <<"seq", m>>
           b == <<"event", e>>
           p == <<a, Tab, b>>
           C == {l[i] : i \in DOMAIN l}
<1>1. DOMAIN l = 1 .. 5 /\ \A i \in 1 .. 5 : l[i] \in C
  BY DEF IsText
<1>2. a # Tab /\ b # Tab /\ a[1] = "seq" /\ a[2] = m /\ b[2] = e
  BY PiecesApart
<1> HIDE DEF a, b, C
<1>3. Tabs(l) = {2, 4}
  BY <1>1, <1>2 DEF Tabs, a, b
<1>4. Max(Tabs(l)) = 4
  BY <1>3 DEF Max
<1>5. Before(l) = p
  <2>1. /\ SubSeq(l, 1, 3) \in Seq(C) /\ Len(SubSeq(l, 1, 3)) = 3
        /\ \A i \in 1 .. 3 : SubSeq(l, 1, 3)[i] = l[i]
    <3>1. \A i \in 1 .. 3 : l[i] \in C
      BY <1>1
    <3>2. /\ SubSeq(l, 1, 3) \in Seq(C) /\ Len(SubSeq(l, 1, 3)) = IF 1 <= 3 THEN 3 - 1 + 1 ELSE 0
          /\ \A i \in 1 .. 3 - 1 + 1 : SubSeq(l, 1, 3)[i] = l[1 + i - 1]
      BY <3>1, SubSeqProperties
    <3> HIDE DEF p
    <3> QED BY <3>2
  <2> DEFINE q == SubSeq(l, 1, 3)
  <2>2. q \in Seq(C) /\ Len(q) = 3 /\ q[1] = a /\ q[2] = Tab /\ q[3] = b
    BY <2>1 DEF a, b
  <2>3. Before(l) = q
    BY <1>4 DEF Before
  <2> HIDE DEF q
  <2>4. q = p
    BY <2>2
  <2> QED BY <2>3, <2>4
<1>6. Behind(l) = <<h>>
  <2>1. \A i \in 5 .. 5 : l[i] \in C
    BY <1>1
  <2>2. /\ SubSeq(l, 5, 5) \in Seq(C) /\ Len(SubSeq(l, 5, 5)) = IF 5 <= 5 THEN 5 - 5 + 1 ELSE 0
        /\ \A i \in 1 .. 5 - 5 + 1 : SubSeq(l, 5, 5)[i] = l[5 + i - 1]
    BY <2>1, SubSeqProperties
  <2> DEFINE q == SubSeq(l, 5, 5)
  <2>3. q \in Seq(C) /\ Len(q) = 1 /\ q[1] = h
    BY <2>2
  <2>4. Behind(l) = q
    BY <1>4 DEF Behind
  <2> HIDE DEF q
  <2>5. q = <<h>>
    BY <2>3
  <2> QED BY <2>4, <2>5
<1>7. FirstField(p) = <<a>>
  <2>1. Len(p) = 3 /\ p[1] = a /\ p[2] = Tab /\ p[3] = b /\ DOMAIN p = 1 .. 3
    OBVIOUS
  <2> HIDE DEF p
  <2>2. Tabs(p) = {2}
    BY <1>2, <2>1 DEF Tabs
  <2>3. Min(Tabs(p)) = 2
    BY <2>2 DEF Min
  <2>4. FirstField(p) = SubSeq(p, 1, 1)
    BY <2>2, <2>3 DEF FirstField
  <2>5. \A i \in 1 .. 1 : p[i] \in {a}
    BY <2>1
  <2>6. /\ SubSeq(p, 1, 1) \in Seq({a}) /\ Len(SubSeq(p, 1, 1)) = IF 1 <= 1 THEN 1 - 1 + 1 ELSE 0
        /\ \A i \in 1 .. 1 - 1 + 1 : SubSeq(p, 1, 1)[i] = p[1 + i - 1]
    BY <2>5, SubSeqProperties
  <2> DEFINE q == SubSeq(p, 1, 1)
  <2>7. q \in Seq({a}) /\ Len(q) = 1 /\ q[1] = a
    BY <2>1, <2>6
  <2> HIDE DEF q
  <2>8. q = <<a>>
    BY <2>7
  <2> QED BY <2>4, <2>8 DEF q
<1>8. IsNumber(<<a>>)
  BY <1>2 DEF IsNumber
<1>9. NumberOf(<<a>>) = m
  <2> DEFINE f == [n \in 0 .. 1 |-> IF n = 0 THEN 0 ELSE m]
             G(g) == g = [n \in 0 .. 1 |-> IF n = 0 THEN 0 ELSE 10 * g[n - 1] + <<a>>[n][2]]
  <2>1. <<a>>[1] = a /\ Len(<<a>>) = 1
    OBVIOUS
  <2>2. G(f)
    BY <1>2, <2>1
  <2>3. G(CHOOSE g : G(g))
    <3> HIDE DEF G, f
    <3> QED BY <2>2
  <2>4. NumberOf(<<a>>) = (CHOOSE g : G(g))[1]
    BY <2>1 DEF NumberOf
  <2> DEFINE g == CHOOSE g : G(g)
  <2>5. g = [n \in 0 .. 1 |-> IF n = 0 THEN 0 ELSE 10 * g[n - 1] + <<a>>[n][2]]
    BY <2>3, Zenon
  <2> HIDE DEF g
  <2>6. g[0] = 0 /\ g[1] = 10 * g[0] + <<a>>[1][2]
    BY <2>5
  <2> QED BY <1>2, <2>1, <2>4, <2>6 DEF g
<1>10. EventOf(l) = e
  BY <1>2, <1>5 DEF EventOf, Last
<1>11. Tabs(l) # {}
  BY <1>3
<1> QED BY <1>5, <1>6, <1>7, <1>8, <1>9, <1>10, <1>11 DEF a, b
\* The newlines of the records that a text holds are its first newlines.
LEMMA HeldEnds ==
    ASSUME NEW t, NEW s \in Seq(Events), Holds(t, s)
    PROVE  /\ Len(s) \in Nat /\ Len(t) \in Nat
           /\ Ends(t) \in SUBSET Nat /\ IsFiniteSet(Ends(t))
           /\ \A k \in 1 .. Len(s) : Nth(Ends(t), k) = 6 * k /\ k <= Cardinality(Ends(t))
           /\ Len(t) = 6 * Len(s) => Cardinality(Ends(t)) = Len(s)
           /\ Cardinality({j \in Ends(t) : j <= 6 * Len(s)}) = Len(s)
<1> DEFINE n == Len(s)
           E == Ends(t)
<1>1. n \in Nat /\ Len(t) \in Nat /\ DOMAIN t = 1 .. Len(t) /\ 6 * n <= Len(t)
  BY LenProperties DEF Holds, IsText
<1>2. E \in SUBSET (1 .. Len(t) + 1)
  BY <1>1 DEF Ends
<1>3. E \in SUBSET Nat /\ IsFiniteSet(E) /\ Cardinality(E) \in Nat
  <2>1. IsFiniteSet(1 .. Len(t) + 1)
    BY <1>1, FS_Interval
  <2>2. IsFiniteSet(E)
    BY <1>2, <2>1, FS_Subset
  <2> QED BY <1>2, <2>2, FS_CardinalityType
<1>4. \A j \in 1 .. 6 * n : j \in E <=> t[j] = Newline
  BY <1>1 DEF Ends
<1>5. \A k \in 1 .. n : 6 * k \in 1 .. 6 * n /\ t[6 * k] = Newline
  <2>1. \A k \in 1 .. n : t[6 * k] = Newline
    BY DEF Holds, RecordAt
  <2> QED BY <1>1, <2>1
<1>6. ASSUME NEW j \in 1 .. 6 * n, t[j] = Newline PROVE \E i \in 1 .. n : j = 6 * i
  <2>1. PICK i \in 1 .. n : \E r \in 0 .. 5 : j = 6 * i - r
    <3>1. (j + 5) \div 6 \in 1 .. n /\ \E r \in 0 .. 5 : j = 6 * ((j + 5) \div 6) - r
      BY <1>1
    <3> QED BY <3>1
  <2>2. PICK r \in 0 .. 5 : j = 6 * i - r
    BY <2>1
  <2>3. RecordAt(t, s, i)
    BY DEF Holds
  <2>4. /\ t[6 * i - 5] # Newline /\ t[6 * i - 4] # Newline /\ t[6 * i - 3] # Newline
        /\ t[6 * i - 2] # Newline /\ t[6 * i - 1] # Newline
    BY <2>3, PiecesApart, Zenon DEF RecordAt
  <2>5. r = 0
    BY <1>6, <2>2, <2>4
  <2> QED BY <2>2, <2>5
<1>7. ASSUME NEW k \in 1 .. n PROVE 6 * k \in E /\ Rank(E, 6 * k) = k
  <2> DEFINE D == {j \in E : j <= 6 * k}
             f == [i \in 1 .. k |-> 6 * i]
  <2>1. 6 * k \in E
    BY <1>4, <1>5
  <2>2. \A i \in 1 .. k : 6 * i \in D
    <3>1. \A i \in 1 .. k : i \in 1 .. n /\ 6 * i <= 6 * k
      BY <1>1
    <3> QED BY <1>4, <1>5, <3>1
  <2>3. \A j \in D : \E i \in 1 .. k : j = 6 * i
    <3> SUFFICES ASSUME NEW j \in D PROVE \E i \in 1 .. k : j = 6 * i
      OBVIOUS
    <3>1. j \in Nat /\ 1 <= j /\ j <= 6 * k
      BY <1>1, <1>2
    <3>2. j \in 1 .. 6 * n
      BY <1>1, <3>1
    <3>3. t[j] = Newline
      BY <1>4, <3>2
    <3>4. PICK i \in 1 .. n : j = 6 * i
      BY <1>6, <3>2, <3>3
    <3> QED BY <3>1, <3>4
  <2>4. f \in Bijection(1 .. k, D)
    <3> HIDE DEF D
    <3>1. f \in [1 .. k -> D] /\ \A i \in 1 .. k : f[i] = 6 * i
      BY <2>2
    <3>2. \A i, j \in 1 .. k : f[i] = f[j] => i = j
      BY <3>1
    <3>3. \A j \in D : \E i \in 1 .. k : f[i] = j
      BY <2>3, <3>1
    <3> HIDE DEF f
    <3> QED BY <3>1, <3>2, <3>3 DEF Bijection, Injection, IsInjective, Surjection
  <2>5. ExistsBijection(1 .. k, D)
    <3> HIDE DEF D, f
    <3> QED BY <2>4 DEF ExistsBijection
  <2>6. Cardinality(D) = k
    <3> HIDE DEF D
    <3> QED BY <2>5, FS_CountingElements
  <2> QED BY <2>1, <2>6 DEF Rank
<1>8. \A k \in 1 .. n : Nth(E, k) = 6 * k /\ k <= Cardinality(E)
  <2> SUFFICES ASSUME NEW k \in 1 .. n PROVE Nth(E, k) = 6 * k /\ k <= Cardinality(E)
    OBVIOUS
  <2>1. 6 * k \in E /\ Rank(E, 6 * k) = k
    BY <1>7
  <2> HIDE DEF E
  <2>2. Nth(E, Rank(E, 6 * k)) = 6 * k
    BY <1>3, <2>1, NthMember
  <2>3. Rank(E, 6 * k) \in 1 .. Cardinality(E)
    BY <1>3, <2>1, RankGrows
  <2> QED BY <1>3, <2>1, <2>2, <2>3
<1>9. ASSUME Len(t) = 6 * n PROVE Cardinality(E) = n
  <2>1. CASE n = 0
    <3>1. E = {}
      <4>1. t = <<>>
        <5>1. Len(t) = 0
          BY <1>9, <2>1
        <5>2. t \in Seq({t[i] : i \in DOMAIN t})
          BY DEF Holds, IsText
        <5> QED BY <5>1, <5>2, EmptySeq
      <4> QED BY <1>1, <1>9, <2>1, <4>1 DEF Ends
    <3> QED BY <2>1, <3>1, FS_EmptySet
  <2>2. CASE n # 0
    <3>1. n \in 1 .. n
      BY <1>1, <2>2
    <3>2. t[Len(t)] = Newline
      BY <1>5, <1>9, <3>1
    <3>3. E = {j \in E : j <= 6 * n}
      <4>1. E = {i \in DOMAIN t : t[i] = Newline}
        BY <3>2 DEF Ends
      <4>2. \A j \in E : j <= 6 * n
        BY <1>1, <1>9, <4>1
      <4> HIDE DEF E
      <4> QED BY <4>2
    <3>4. Rank(E, 6 * n) = n
      BY <1>7, <3>1
    <3> HIDE DEF E
    <3> QED BY <3>3, <3>4 DEF Rank
  <2> QED BY <2>1, <2>2
<1>10. Cardinality({j \in E : j <= 6 * n}) = n
  <2>1. CASE n = 0
    <3>1. {j \in E : j <= 6 * n} = {}
      BY <1>1, <1>2, <2>1
    <3> QED BY <2>1, <3>1, FS_EmptySet
  <2>2. CASE n # 0
    <3>1. n \in 1 .. n
      BY <1>1, <2>2
    <3>2. Rank(E, 6 * n) = n
      BY <1>7, <3>1
    <3> HIDE DEF E
    <3> QED BY <3>2 DEF Rank
  <2> QED BY <2>1, <2>2
<1> QED BY <1>1, <1>3, <1>8, <1>9, <1>10
\* The first lines of a text are the records that it holds, and they read and
\* link as they were written.
LEMMA HeldLines ==
    ASSUME NEW t, NEW s \in Seq(Events), Holds(t, s)
    PROVE  /\ Len(s) \in Nat /\ Len(Lines(t)) \in Nat /\ Len(s) <= Len(Lines(t))
           /\ DOMAIN Lines(t) = 1 .. Len(Lines(t))
           /\ Len(t) = 6 * Len(s) => Len(Lines(t)) = Len(s)
           /\ \A k \in 1 .. Len(s) :
                /\ Tabs(Lines(t)[k]) # {} /\ Behind(Lines(t)[k]) = TipHash(t, k)
                /\ Linked(Lines(t), k) /\ EventOf(Lines(t)[k]) = s[k]
                /\ IsNumber(FirstField(Before(Lines(t)[k])))
                /\ NumberOf(FirstField(Before(Lines(t)[k]))) = k - 1
<1> DEFINE n == Len(s)
           E == Ends(t)
           ls == Lines(t)
           c == Cardinality(E)
<1>1. /\ n \in Nat /\ Len(t) \in Nat /\ E \in SUBSET Nat /\ IsFiniteSet(E)
      /\ \A k \in 1 .. n : Nth(E, k) = 6 * k /\ k <= c
      /\ Len(t) = 6 * n => c = n
  BY HeldEnds
<1>2. c \in Nat /\ n <= c
  <2>1. c \in Nat
    <3> HIDE DEF E
    <3> QED BY <1>1, FS_CardinalityType
  <2>2. n = 0 \/ n \in 1 .. n
    BY <1>1
  <2> QED BY <1>1, <2>1, <2>2
<1>3. /\ DOMAIN ls = 1 .. c /\ Len(ls) = c
      /\ \A k \in 1 .. c : ls[k] = SubSeq(t, IF k = 1 THEN 1 ELSE Nth(E, k - 1) + 1, Nth(E, k) - 1)
  <2> DEFINE S == {SubSeq(t, IF k = 1 THEN 1 ELSE Nth(E, k - 1) + 1, Nth(E, k) - 1) : k \in 1 .. c}
  <2>1. ls = [k \in 1 .. c |-> SubSeq(t, IF k = 1 THEN 1 ELSE Nth(E, k - 1) + 1, Nth(E, k) - 1)]
    BY DEF Lines
  <2> HIDE DEF E, c, ls
  <2>2. ls \in [1 .. c -> S]
    BY <2>1
  <2>3. Len(ls) = c
    <3> HIDE DEF S
    <3>1. ls \in Seq(S)
      BY <1>2, <2>2, SeqDef
    <3>2. DOMAIN ls = 1 .. c /\ DOMAIN ls = 1 .. Len(ls) /\ Len(ls) \in Nat
      BY <2>2, <3>1, LenProperties
    <3> QED BY <1>2, <3>2
  <2> QED BY <2>1, <2>3
<1> HIDE DEF ls, E, c
<1>4. ASSUME NEW k \in 1 .. n
      PROVE  /\ IsText(ls[k]) /\ Len(ls[k]) = 5
             /\ ls[k][1] = t[6 * k - 5] /\ ls[k][2] = t[6 * k - 4] /\ ls[k][3] = t[6 * k - 3]
             /\ ls[k][4] = t[6 * k - 2] /\ ls[k][5] = t[6 * k - 1]
  <2>1. k \in 1 .. c /\ Nth(E, k) = 6 * k /\ (k # 1 => Nth(E, k - 1) = 6 * (k - 1))
    BY <1>1, <1>2
  <2>2. (IF k = 1 THEN 1 ELSE Nth(E, k - 1) + 1) = 6 * k - 5
    BY <2>1
  <2>3. ls[k] = SubSeq(t, 6 * k - 5, 6 * k - 1)
    BY <1>3, <2>1, <2>2, Zenon
  <2> DEFINE C == {t[i] : i \in DOMAIN t}
             a == 6 * k - 5
             b == 6 * k - 1
             q == SubSeq(t, a, b)
  <2>4. a \in Int /\ b \in Int /\ a <= b /\ b - a + 1 = 5 /\ \A i \in a .. b : t[i] \in C
    <3>1. t \in Seq(C) /\ 6 * n <= Len(t)
      BY DEF Holds, IsText
    <3>2. \A i \in a .. b : i \in 1 .. Len(t)
      BY <1>1, <3>1
    <3> HIDE DEF C
    <3>3. \A i \in a .. b : t[i] \in C
      <4> HIDE DEF a, b
      <4> QED BY <3>1, <3>2, ElementOfSeq
    <3> QED BY <1>1, <3>3
  <2>5. /\ q \in Seq(C) /\ Len(q) = 5
        /\ \A i \in 1 .. 5 : q[i] = t[a + i - 1]
    <3> HIDE DEF a, b, C
    <3>1. /\ q \in Seq(C) /\ Len(q) = IF a <= b THEN b - a + 1 ELSE 0
          /\ \A i \in 1 .. b - a + 1 : q[i] = t[a + i - 1]
      BY <2>4, SubSeqProperties
    <3> HIDE DEF q
    <3> QED BY <2>4, <3>1
  <2>6. IsText(q)
    <3> HIDE DEF q, C
    <3> QED BY <2>5, SeqText
  <2>7. q = ls[k]
    BY <2>3
  <2> HIDE DEF q, C
  <2>8. /\ q[1] = t[6 * k - 5] /\ q[2] = t[6 * k - 4] /\ q[3] = t[6 * k - 3]
        /\ q[4] = t[6 * k - 2] /\ q[5] = t[6 * k - 1]
    <3>1. /\ a + 1 - 1 = 6 * k - 5 /\ a + 2 - 1 = 6 * k - 4 /\ a + 3 - 1 = 6 * k - 3
          /\ a + 4 - 1 = 6 * k - 2 /\ a + 5 - 1 = 6 * k - 1
      BY <1>1
    <3> HIDE DEF a
    <3>2. /\ q[1] = t[a + 1 - 1] /\ q[2] = t[a + 2 - 1] /\ q[3] = t[a + 3 - 1]
          /\ q[4] = t[a + 4 - 1] /\ q[5] = t[a + 5 - 1]
      BY <2>5
    <3> QED BY <3>1, <3>2
  <2> QED BY <2>5, <2>6, <2>7, <2>8, Zenon
<1>5. ASSUME NEW k \in 1 .. n
      PROVE  /\ Tabs(ls[k]) # {} /\ Behind(ls[k]) = TipHash(t, k)
             /\ Before(ls[k]) = <<<<"seq", k - 1>>, Tab, <<"event", s[k]>>>>
             /\ EventOf(ls[k]) = s[k]
             /\ IsNumber(FirstField(Before(ls[k])))
             /\ NumberOf(FirstField(Before(ls[k]))) = k - 1
  <2>1. RecordAt(t, s, k)
    BY DEF Holds
  <2>2. t[6 * k - 1] # Tab
    BY <2>1, PiecesApart, Zenon DEF RecordAt
  <2>3. k - 1 \in Nat /\ k # 0
    BY <1>1
  <2>4. /\ ls[k][1] = <<"seq", k - 1>> /\ ls[k][2] = Tab /\ ls[k][3] = <<"event", s[k]>>
        /\ ls[k][4] = Tab
    BY <1>4, <2>1, Zenon DEF RecordAt
  <2>5. IsText(ls[k]) /\ Len(ls[k]) = 5 /\ ls[k][5] = t[6 * k - 1]
    BY <1>4
  <2>6. TipHash(t, k) = <<t[6 * k - 1]>>
    BY <2>3 DEF TipHash
  <2> DEFINE m == k - 1
             h == t[6 * k - 1]
  <2>7. /\ m \in Nat /\ h # Tab /\ ls[k][1] = <<"seq", m>> /\ ls[k][5] = h
    BY <2>2, <2>3, <2>4, <2>5
  <2> HIDE DEF m, h
  <2>8. /\ Tabs(ls[k]) # {} /\ Behind(ls[k]) = <<h>>
        /\ Before(ls[k]) = <<<<"seq", m>>, Tab, <<"event", s[k]>>>>
        /\ IsNumber(FirstField(Before(ls[k]))) /\ NumberOf(FirstField(Before(ls[k]))) = m
        /\ EventOf(ls[k]) = s[k]
    <3> DEFINE l == ls[k]
               e == s[k]
    <3>1. /\ IsText(l) /\ Len(l) = 5 /\ l[1] = <<"seq", m>> /\ l[2] = Tab
          /\ l[3] = <<"event", e>> /\ l[4] = Tab /\ l[5] = h
      BY <2>4, <2>5, <2>7
    <3> HIDE DEF l, e
    <3>2. /\ Tabs(l) # {} /\ Behind(l) = <<h>> /\ Before(l) = <<<<"seq", m>>, Tab, <<"event", e>>>>
          /\ IsNumber(FirstField(Before(l))) /\ NumberOf(FirstField(Before(l))) = m
          /\ EventOf(l) = e
      BY <2>7, <3>1, RecordRead
    <3> QED BY <3>2 DEF l, e
  <2> QED BY <2>6, <2>8 DEF m, h
<1>6. ASSUME NEW k \in 1 .. n PROVE Linked(ls, k)
  <2>1. t[6 * k - 1] = chain_hash(TipHash(t, k - 1), <<<<"seq", k - 1>>, Tab, <<"event", s[k]>>>>)
    BY DEF Holds, RecordAt
  <2>2. TipHash(t, k - 1) = IF k = 1 THEN <<>> ELSE Behind(ls[k - 1])
    <3>1. CASE k = 1
      BY <3>1 DEF TipHash
    <3>2. CASE k # 1
      <4>1. k - 1 \in 1 .. n
        BY <1>1, <3>2
      <4> QED BY <1>5, <3>2, <4>1, Zenon
    <3> QED BY <3>1, <3>2
  <2>3. TipHash(t, k) = <<t[6 * k - 1]>>
    BY <1>1 DEF TipHash
  <2> QED BY <1>5, <2>1, <2>2, <2>3, Zenon DEF Linked
<1> QED BY <1>1, <1>2, <1>3, <1>5, <1>6 DEF ls, c

\* The line behind the records that a text holds, when it is a bad one, is where
\* verify() stops.
LEMMA BadNotLinked ==
    ASSUME NEW t, NEW s \in Seq(Events), Holds(t, s), NEW q \in Nat, BadLine(t, Len(s), q)
    PROVE  Len(s) + 1 \in DOMAIN Lines(t) /\ ~Linked(Lines(t), Len(s) + 1)
<1> DEFINE n == Len(s)
           E == Ends(t)
           c == Cardinality(E)
           ls == Lines(t)
           C == {t[i] : i \in DOMAIN t}
<1>1. /\ n \in Nat /\ Len(t) \in Nat /\ E \in SUBSET Nat /\ IsFiniteSet(E)
      /\ \A k \in 1 .. n : Nth(E, k) = 6 * k
      /\ Cardinality({j \in E : j <= 6 * n}) = n
  BY HeldEnds
<1>2. /\ q \in 6 * n + 1 .. Len(t) /\ \A i \in 6 * n + 1 .. q : t[i] # Newline
      /\ q = Len(t) \/ t[q + 1] = Newline
      /\ \A p, m : t[q] = chain_hash(p, m) => p # TipHash(t, n) \/ Len(m) # q - 6 * n - 2
  BY Zenon DEF BadLine
<1>3. t \in Seq(C) /\ DOMAIN t = 1 .. Len(t)
  BY LenProperties DEF Holds, IsText
<1> HIDE DEF C
<1>4. q + 1 \in E
  <2>1. CASE q = Len(t)
    <3>1. t # <<>> /\ t[Len(t)] # Newline
      <4>1. Len(t) # 0 /\ q \in 6 * n + 1 .. q
        BY <1>1, <1>2, <2>1
      <4>2. Len(<<>>) = 0
        OBVIOUS
      <4> QED BY <1>2, <2>1, <4>1, <4>2
    <3> QED BY <2>1, <3>1 DEF Ends
  <2>2. CASE q # Len(t)
    <3>1. q + 1 \in 1 .. Len(t)
      BY <1>1, <1>2, <2>2
    <3> QED BY <1>2, <1>3, <2>2, <3>1 DEF Ends
  <2> QED BY <2>1, <2>2
<1>5. ASSUME NEW j \in E, j > 6 * n, j <= q PROVE FALSE
  <2>1. j \in Nat /\ j \in 6 * n + 1 .. q /\ j <= Len(t)
    BY <1>1, <1>2, <1>5
  <2>2. j # Len(t) + 1
    BY <1>1, <2>1
  <2>3. t[j] = Newline
    BY <1>5, <2>2 DEF Ends
  <2> QED BY <1>2, <2>1, <2>3
<1> HIDE DEF E
<1>6. Rank(E, q + 1) = n + 1
  <2> DEFINE A == {j \in E : j <= 6 * n}
  <2>1. {j \in E : j <= q + 1} = A \cup {q + 1}
    <3>1. \A j \in E : j \in Nat
      BY <1>1
    <3>2. \A j \in E : j <= q + 1 <=> (j <= 6 * n \/ j = q + 1)
      BY <1>1, <1>2, <1>5, <3>1
    <3> QED BY <1>4, <3>2
  <2>2. q + 1 \notin A
    BY <1>1, <1>2
  <2>3. IsFiniteSet(A)
    BY <1>1, FS_Subset
  <2>4. Cardinality(A) = n
    BY <1>1
  <2> HIDE DEF A
  <2>5. Cardinality(A \cup {q + 1}) = Cardinality(A) + 1
    BY <2>2, <2>3, FS_AddElement
  <2> QED BY <2>1, <2>4, <2>5 DEF Rank
<1>7. Nth(E, n + 1) = q + 1 /\ n + 1 \in 1 .. c
  <2>1. Nth(E, Rank(E, q + 1)) = q + 1
    BY <1>1, <1>4, NthMember
  <2>2. Rank(E, q + 1) \in 1 .. c
    BY <1>1, <1>4, RankGrows
  <2> QED BY <1>6, <2>1, <2>2
<1>8. /\ DOMAIN ls = 1 .. c
      /\ \A k \in 1 .. c : ls[k] = SubSeq(t, IF k = 1 THEN 1 ELSE Nth(E, k - 1) + 1, Nth(E, k) - 1)
  BY DEF Lines, E
<1> HIDE DEF c, ls
<1>9. ls[n + 1] = SubSeq(t, 6 * n + 1, q)
  <2>1. (IF n + 1 = 1 THEN 1 ELSE Nth(E, (n + 1) - 1) + 1) = 6 * n + 1
    <3>1. CASE n = 0
      BY <3>1
    <3>2. CASE n # 0
      <4>1. n \in 1 .. n /\ n + 1 # 1 /\ (n + 1) - 1 = n
        BY <1>1, <3>2
      <4> QED BY <1>1, <4>1
    <3> QED BY <3>1, <3>2
  <2>2. Nth(E, n + 1) - 1 = q
    BY <1>7
  <2>3. ls[n + 1] = SubSeq(t, IF n + 1 = 1 THEN 1 ELSE Nth(E, (n + 1) - 1) + 1, Nth(E, n + 1) - 1)
    BY <1>7, <1>8
  <2> QED BY <2>1, <2>2, <2>3
<1> DEFINE l == SubSeq(t, 6 * n + 1, q)
           k == q - 6 * n
<1>10. /\ l \in Seq(C) /\ Len(l) = k /\ k \in Nat /\ k >= 1 /\ l[k] = t[q]
  <2> DEFINE a == 6 * n + 1
  <2>1. a \in Int /\ q \in Int /\ a <= q /\ \A i \in a .. q : i \in 1 .. Len(t)
    BY <1>1, <1>2
  <2>2. k \in Nat /\ k >= 1 /\ q - a + 1 = k /\ a + k - 1 = q /\ k \in 1 .. q - a + 1
    BY <1>1, <1>2
  <2> HIDE DEF a, k
  <2>3. \A i \in a .. q : t[i] \in C
    BY <1>3, <2>1, ElementOfSeq
  <2>4. /\ SubSeq(t, a, q) \in Seq(C) /\ Len(SubSeq(t, a, q)) = IF a <= q THEN q - a + 1 ELSE 0
        /\ \A i \in 1 .. q - a + 1 : SubSeq(t, a, q)[i] = t[a + i - 1]
    BY <2>1, <2>3, SubSeqProperties
  <2>5. SubSeq(t, a, q)[k] = t[q]
    BY <2>2, <2>4
  <2> QED BY <2>1, <2>2, <2>4, <2>5 DEF a
<1> HIDE DEF l, k
<1>11. SUFFICES ASSUME Linked(ls, n + 1) PROVE FALSE
  BY <1>7, <1>8 DEF ls
<1>12. /\ Tabs(l) # {}
       /\ \E x : Behind(l) = <<chain_hash(x, Before(l))>> /\ x = TipHash(t, n)
  <2>1. (IF n + 1 = 1 THEN <<>> ELSE Behind(ls[(n + 1) - 1])) = TipHash(t, n)
    <3>1. CASE n = 0
      BY <3>1 DEF TipHash
    <3>2. CASE n # 0
      <4>1. n \in 1 .. Len(s) /\ n + 1 # 1 /\ (n + 1) - 1 = n
        BY <1>1, <3>2
      <4>2. Behind(Lines(t)[n]) = TipHash(t, n)
        BY <4>1, HeldLines
      <4> QED BY <4>1, <4>2 DEF ls
    <3> QED BY <3>1, <3>2
  <2>2. ls[n + 1] = l
    BY <1>9 DEF l
  <2> QED BY <1>11, <2>1, <2>2 DEF Linked
<1> DEFINE M == Max(Tabs(l))
<1>13. M \in 1 .. k
  <2>1. Tabs(l) \in SUBSET (1 .. k) /\ IsFiniteSet(1 .. k)
    BY <1>10, FS_Interval DEF Tabs
  <2>2. \E x \in Tabs(l) : \A y \in Tabs(l) : x >= y
    <3> DEFINE D == {k - y : y \in Tabs(l)}
    <3>1. D \in SUBSET Nat /\ D # {}
      BY <1>10, <1>12, <2>1
    <3>2. PICK d \in D : \A m \in D : d <= m
      <4> HIDE DEF D
      <4> QED BY <3>1, LeastNat
    <3>3. PICK x \in Tabs(l) : d = k - x
      BY <3>2
    <3>4. \A y \in Tabs(l) : k - x <= k - y
      BY <3>2, <3>3
    <3> QED BY <1>10, <2>1, <3>4
  <2>3. Max(Tabs(l)) \in Tabs(l)
    BY <2>2 DEF Max
  <2> QED BY <2>1, <2>3
<1>14. Behind(l) = SubSeq(l, M + 1, k) /\ Before(l) = SubSeq(l, 1, M - 1)
  BY <1>10 DEF Behind, Before
<1> HIDE DEF M
<1>15. \A i \in 1 .. k : l[i] \in C
  BY <1>10, ElementOfSeq
<1>16. PICK p : Behind(l) = <<chain_hash(p, Before(l))>> /\ p = TipHash(t, n)
  BY <1>12
<1>17. M = k - 1 /\ Behind(l)[1] = l[k]
  <2>1. M + 1 \in Int /\ k \in Int /\ \A i \in M + 1 .. k : i \in 1 .. k
    BY <1>10, <1>13
  <2>2. \A i \in M + 1 .. k : l[i] \in C
    BY <1>15, <2>1
  <2>3. /\ Len(SubSeq(l, M + 1, k)) = IF M + 1 <= k THEN k - (M + 1) + 1 ELSE 0
        /\ \A i \in 1 .. k - (M + 1) + 1 : SubSeq(l, M + 1, k)[i] = l[(M + 1) + i - 1]
    BY <2>1, <2>2, SubSeqProperties
  <2>4. Len(Behind(l)) = 1
    BY <1>16
  <2>5. M = k - 1
    <3>1. Len(SubSeq(l, M + 1, k)) = 1
      BY <1>14, <2>4
    <3> QED BY <1>10, <1>13, <2>3, <3>1
  <2>6. 1 \in 1 .. k - (M + 1) + 1 /\ (M + 1) + 1 - 1 = k
    BY <1>10, <2>5
  <2>7. SubSeq(l, M + 1, k)[1] = l[k]
    BY <2>3, <2>6
  <2> QED BY <1>14, <2>5, <2>7
<1>18. Len(Before(l)) = q - 6 * n - 2
  <2>1. M - 1 \in Int /\ \A i \in 1 .. M - 1 : i \in 1 .. k
    BY <1>10, <1>13
  <2>2. \A i \in 1 .. M - 1 : l[i] \in C
    BY <1>15, <2>1
  <2>3. Len(SubSeq(l, 1, M - 1)) = IF 1 <= M - 1 THEN (M - 1) - 1 + 1 ELSE 0
    BY <2>1, <2>2, SubSeqProperties
  <2>4. (IF 1 <= M - 1 THEN (M - 1) - 1 + 1 ELSE 0) = k - 2
    BY <1>10, <1>13, <1>17
  <2>5. k - 2 = q - 6 * n - 2
    BY DEF k
  <2> QED BY <1>14, <2>3, <2>4, <2>5
<1>19. t[q] = chain_hash(p, Before(l))
  <2>1. Behind(l)[1] = chain_hash(p, Before(l))
    BY <1>16
  <2> QED BY <1>10, <1>17, <2>1
<1> QED BY <1>2, <1>16, <1>18, <1>19, Zenon

\* A file of whole records and its last line without its newline read the same.
LEMMA CutReads ==
    ASSUME NEW t, IsText(t), t # <<>>, t[Len(t)] # Newline
    PROVE  Lines(t \o <<Newline>>) = Lines(t)
<1> DEFINE nl == <<Newline>>
           v == t \o nl
           E == Ends(t)
           c == Cardinality(E)
<1>1. IsText(nl) /\ Len(nl) = 1 /\ nl[1] = Newline
  BY DEF IsText
<1> HIDE DEF nl
<1>2. /\ IsText(v) /\ Len(t) \in Nat /\ Len(v) = Len(t) + 1
      /\ \A i \in 1 .. Len(t) : v[i] = t[i]
      /\ v[Len(t) + 1] = Newline
  <2>1. /\ IsText(t \o nl) /\ Len(t) \in Nat /\ Len(t \o nl) = Len(t) + Len(nl)
        /\ \A i \in 1 .. Len(t) : (t \o nl)[i] = t[i]
        /\ \A i \in 1 .. Len(nl) : (t \o nl)[Len(t) + i] = nl[i]
    <3>1. IsText(nl)
      BY <1>1
    <3> QED BY <3>1, TextAppends
  <2>2. 1 \in 1 .. Len(nl)
    BY <1>1
  <2>3. (t \o nl)[Len(t) + 1] = Newline
    BY <1>1, <2>1, <2>2
  <2> QED BY <1>1, <2>1, <2>3
<1>3. DOMAIN t = 1 .. Len(t) /\ DOMAIN v = 1 .. Len(t) + 1
  BY <1>2, LenProperties DEF IsText
<1> HIDE DEF v
<1>4. Ends(v) = E
  <2>1. Ends(v) = {i \in DOMAIN v : v[i] = Newline}
    BY <1>2 DEF Ends
  <2>2. E = {i \in DOMAIN t : t[i] = Newline} \cup {Len(t) + 1}
    BY DEF Ends
  <2>3. \A i \in 1 .. Len(t) + 1 : i \in 1 .. Len(t) \/ i = Len(t) + 1
    BY <1>2
  <2>4. \A i \in 1 .. Len(t) : i \in 1 .. Len(t) + 1 /\ i # Len(t) + 1
    BY <1>2
  <2>5. Len(t) + 1 \in 1 .. Len(t) + 1
    BY <1>2
  <2> HIDE DEF E
  <2> QED BY <1>2, <1>3, <2>1, <2>2, <2>3, <2>4, <2>5
<1>5. E \in SUBSET (1 .. Len(t) + 1) /\ IsFiniteSet(E)
  <2>1. E \in SUBSET (1 .. Len(t) + 1)
    BY <1>2, <1>3 DEF Ends
  <2>2. IsFiniteSet(1 .. Len(t) + 1)
    BY <1>2, FS_Interval
  <2> QED BY <2>1, <2>2, FS_Subset
<1> HIDE DEF E
<1>6. ASSUME NEW a \in Nat, a >= 1, NEW b \in Int, b <= Len(t)
      PROVE  SubSeq(v, a, b) = SubSeq(t, a, b)
  <2> DEFINE C == {t[i] : i \in DOMAIN t}
  <2>1. \A i \in a .. b : i \in 1 .. Len(t)
    BY <1>2, <1>6
  <2>2. \A i \in a .. b : t[i] \in C /\ v[i] = t[i]
    BY <1>2, <1>3, <2>1
  <2> HIDE DEF C
  <2>3. /\ SubSeq(t, a, b) \in Seq(C) /\ Len(SubSeq(t, a, b)) = IF a <= b THEN b - a + 1 ELSE 0
        /\ \A i \in 1 .. b - a + 1 : SubSeq(t, a, b)[i] = t[a + i - 1]
    BY <2>2, SubSeqProperties
  <2>4. /\ SubSeq(v, a, b) \in Seq(C) /\ Len(SubSeq(v, a, b)) = IF a <= b THEN b - a + 1 ELSE 0
        /\ \A i \in 1 .. b - a + 1 : SubSeq(v, a, b)[i] = v[a + i - 1]
    <3>1. \A i \in a .. b : v[i] \in C
      BY <2>2
    <3> QED BY <3>1, SubSeqProperties
  <2> DEFINE x == SubSeq(v, a, b)
             y == SubSeq(t, a, b)
  <2>5. Len(x) = Len(y) /\ \A i \in 1 .. Len(x) : x[i] = y[i]
    <3>1. CASE a <= b
      <4>1. \A i \in 1 .. b - a + 1 : a + i - 1 \in a .. b
        BY <3>1
      <4>2. \A i \in 1 .. b - a + 1 : x[i] = y[i]
        BY <2>2, <2>3, <2>4, <4>1
      <4> QED BY <2>3, <2>4, <3>1, <4>2
    <3>2. CASE ~(a <= b)
      BY <2>3, <2>4, <3>2
    <3> QED BY <3>1, <3>2
  <2>6. x \in Seq(C) /\ y \in Seq(C)
    BY <2>3, <2>4
  <2> HIDE DEF x, y
  <2>7. x = y
    BY <2>5, <2>6, SeqEqual
  <2> QED BY <2>7 DEF x, y
<1>7. ASSUME NEW k \in 1 .. c
      PROVE  SubSeq(v, IF k = 1 THEN 1 ELSE Nth(E, k - 1) + 1, Nth(E, k) - 1)
                 = SubSeq(t, IF k = 1 THEN 1 ELSE Nth(E, k - 1) + 1, Nth(E, k) - 1)
  <2>1. E \in SUBSET Nat /\ c \in Nat
    BY <1>5, FS_CardinalityType
  <2>2. \A j \in 1 .. c : Nth(E, j) \in E
    BY <1>5, <2>1, NthMember
  <2> DEFINE a == IF k = 1 THEN 1 ELSE Nth(E, k - 1) + 1
             b == Nth(E, k) - 1
  <2>3. b \in Int /\ b <= Len(t)
    <3>1. Nth(E, k) \in 1 .. Len(t) + 1
      BY <1>5, <2>2
    <3> QED BY <1>2, <3>1
  <2>4. a \in Nat /\ a >= 1
    <3>1. CASE k = 1
      BY <3>1
    <3>2. CASE k # 1
      <4>1. k - 1 \in 1 .. c
        BY <2>1, <3>2
      <4>2. Nth(E, k - 1) \in Nat
        BY <2>1, <2>2, <4>1
      <4> QED BY <3>2, <4>2
    <3> QED BY <3>1, <3>2
  <2> HIDE DEF a, b
  <2>5. SubSeq(v, a, b) = SubSeq(t, a, b)
    BY <1>6, <2>3, <2>4
  <2> QED BY <2>5 DEF a, b
<1>8. Lines(v) = Lines(t)
  BY <1>4, <1>7 DEF Lines, E
<1> QED BY <1>8 DEF v, nl

\* open() finds the end of the chain in a file of whole records.
LEMMA HeldTip ==
    ASSUME NEW t, NEW s \in Seq(Events), Holds(t, s), Len(t) = 6 * Len(s)
    PROVE  tip(t).prev = TipHash(t, Len(s)) /\ tip(t).seq = Len(s) /\ tip(t) # Closed
<1> DEFINE n == Len(s)
           ls == Lines(t)
           tabbed == {i \in DOMAIN ls : Tabs(ls[i]) # {}}
           numbered == {i \in tabbed : IsNumber(FirstField(Before(ls[i])))}
<1>1. /\ n \in Nat /\ DOMAIN ls = 1 .. n
      /\ \A k \in 1 .. n : /\ Tabs(ls[k]) # {} /\ Behind(ls[k]) = TipHash(t, k)
                           /\ IsNumber(FirstField(Before(ls[k])))
                           /\ NumberOf(FirstField(Before(ls[k]))) = k - 1
  BY HeldLines
<1>2. /\ tip(t).prev = IF tabbed = {} THEN <<>> ELSE Behind(ls[Max(tabbed)])
      /\ tip(t).seq = IF numbered = {} THEN 0 ELSE NumberOf(FirstField(Before(ls[Max(numbered)]))) + 1
  BY DEF tip
<1>3. tabbed = 1 .. n /\ numbered = 1 .. n
  <2> HIDE DEF ls, n
  <2> QED BY <1>1
<1> HIDE DEF ls, tabbed, numbered
<1>4. CASE n = 0
  <2>1. tip(t).prev = <<>> /\ tip(t).seq = 0
    BY <1>2, <1>3, <1>4
  <2> QED BY <1>4, <2>1 DEF TipHash, Closed
<1>5. CASE n # 0
  <2> HIDE DEF n
  <2>1. Max(1 .. n) = n /\ n \in 1 .. n /\ 1 .. n # {}
    <3>1. n \in 1 .. n /\ \A x \in 1 .. n : x \in Nat /\ n >= x
      BY <1>1, <1>5
    <3>2. \A x \in 1 .. n : (\A y \in 1 .. n : x >= y) => x = n
      BY <1>1, <3>1
    <3> QED BY <3>1, <3>2 DEF Max
  <2>2. tip(t).prev = Behind(ls[n]) /\ tip(t).seq = NumberOf(FirstField(Before(ls[n]))) + 1
    BY <1>2, <1>3, <2>1
  <2>3. Behind(ls[n]) = TipHash(t, n) /\ NumberOf(FirstField(Before(ls[n]))) = n - 1
    BY <1>1, <2>1
  <2>4. tip(t).seq = n
    BY <1>1, <2>2, <2>3
  <2>5. tip(t) # Closed
    BY <1>1, <2>4 DEF Closed
  <2> QED BY <2>2, <2>3, <2>4, <2>5 DEF n
<1> QED BY <1>4, <1>5
\* A step that writes nothing keeps the chain, if who is to append next found
\* the sink open.
LEMMA ChainFrame ==
    ASSUME ChainKept, UNCHANGED <<sink, text, tears, stored, safe>>,
           \A r \in Recorders : job'[r][1] = "append" => job[r][1] = "append" \/ sink # Closed
    PROVE  ChainKept'
BY DEF ChainKept

\* An empty file is a chain of no records.
LEMMA ChainInit == Init => ChainKept
<1> SUFFICES ASSUME Init PROVE ChainKept
  OBVIOUS
<1>1. /\ text = <<>> /\ safe = <<>> /\ stored = <<>> /\ tears = 0 /\ sink \in {tip(<<>>), Closed}
      /\ \A r \in Recorders : job[r] = Idle
  BY DEF Init, AuditInit
<1>2. stored \in Seq(Events) /\ Len(stored) = 0 /\ Len(text) = 0
  BY <1>1
<1>3. WholeFile(text, stored)
  <2>1. IsText(text)
    BY <1>1 DEF IsText
  <2> QED BY <1>2, <2>1 DEF WholeFile, Holds
<1>4. tip(text).prev = TipHash(text, Len(stored)) /\ tip(text).seq = Len(stored)
  BY <1>2, <1>3, HeldTip, Zenon DEF WholeFile
<1>5. \A r \in Recorders : job[r][1] # "append"
  BY <1>1 DEF Idle
<1>6. sink = Closed \/ InStep(sink, text, stored)
  BY <1>1, <1>4 DEF InStep
<1>7. Holds(text, safe)
  BY <1>1, <1>3 DEF WholeFile
<1> QED BY <1>1, <1>2, <1>3, <1>5, <1>6, <1>7 DEF ChainKept

\* What the file is for who is about to append to it.
LEMMA ChainReady ==
    ASSUME ChainKept, NEW r \in Recorders, job[r][1] = "append"
    PROVE  /\ sink # Closed /\ safe \in Seq(Events) /\ stored \in Seq(Events) /\ tears \in Nat
           /\ Holds(text, safe)
           /\ tears = 0 => WholeFile(text, stored) /\ safe = stored /\ InStep(sink, text, stored)
           /\ \/ /\ WholeFile(text, stored)
                 /\ InStep(sink, text, stored) \/ sink.prev # TipHash(text, Len(stored))
              \/ CutLine(text, stored)
              \/ BrokenFile(text)
BY DEF ChainKept

\* A record is not chained to its own hash: the number in it tells them apart.
LEMMA TipMoves ==
    ASSUME NEW t, NEW w \in Seq(Events), WholeFile(t, w), NEW st, InStep(st, t, w), NEW e
    PROVE  st.prev # <<Line(st, e)[5]>>
<1> DEFINE n == Len(w)
           P == <<<<"seq", st.seq>>, Tab, <<"event", e>>>>
           Q == <<<<"seq", n - 1>>, Tab, <<"event", w[n]>>>>
<1>1. n \in Nat /\ st.seq = n /\ st.prev = TipHash(t, n)
  BY LenProperties DEF InStep
<1>2. Line(st, e)[5] = chain_hash(st.prev, P)
  BY LinePieces
<1>3. CASE n = 0
  <2>1. st.prev = <<>>
    BY <1>1, <1>3 DEF TipHash
  <2> QED BY <2>1
<1>4. CASE n # 0
  <2>1. n \in 1 .. Len(w)
    BY <1>1, <1>4
  <2>2. t[6 * n - 1] = chain_hash(TipHash(t, n - 1), Q)
    BY <2>1 DEF WholeFile, Holds, RecordAt
  <2>3. st.prev = <<t[6 * n - 1]>>
    BY <1>1, <1>4 DEF TipHash
  <2>4. P # Q
    <3>1. P[1] = <<"seq", st.seq>> /\ Q[1] = <<"seq", n - 1>>
      OBVIOUS
    <3>2. <<"seq", st.seq>>[2] = st.seq /\ <<"seq", n - 1>>[2] = n - 1
      OBVIOUS
    <3>3. st.seq # n - 1
      BY <1>1
    <3> QED BY <3>1, <3>2, <3>3
  <2> HIDE DEF P, Q, n
  <2>5. t[6 * n - 1] # Line(st, e)[5]
    BY <1>2, <2>2, <2>4 DEF chain_hash
  <2> DEFINE x == t[6 * n - 1]
             y == Line(st, e)[5]
  <2>6. st.prev = <<x>> /\ x # y
    BY <2>3, <2>5
  <2> HIDE DEF x, y
  <2>7. <<x>> # <<y>>
    BY <2>6
  <2> QED BY <2>6, <2>7 DEF y
<1> QED BY <1>3, <1>4

\* append() adds a record to a file of whole records; behind a line that is not
\* ended, or from a sink that is not in step, it breaks the chain.
LEMMA PersistKeeps == ASSUME FirewallInd, ChainKept, NEW r \in Recorders, Persist(r) PROVE ChainKept'
<1> DEFINE e == job[r][2]
           line == Line(sink, e)
<1>1. /\ e \in Events /\ job[r][1] = "append"
      /\ job' = [job EXCEPT ![r][1] = "ring"] /\ UNCHANGED tears
      /\ text' = text \o line /\ sink' = [prev |-> <<line[5]>>, seq |-> sink.seq + 1]
      /\ stored' = (IF line \in {line, SubSeq(line, 1, Len(line) - 1)} THEN Append(stored, e) ELSE stored)
      /\ safe' = IF tears = 0 THEN Append(safe, e) ELSE safe
  BY JobSteps DEF Persist, Leaves
<1>2. line \in Torn(line) /\ line # <<>>
  <2>1. IsText(line) /\ Len(line) = 6
    BY LinePieces
  <2> DEFINE C == {line[i] : i \in DOMAIN line}
  <2> HIDE DEF line
  <2>2. SubSeq(line, 1, Len(line)) = line
    <3>1. line \in Seq(C)
      BY <2>1 DEF IsText
    <3> HIDE DEF C
    <3> QED BY <3>1, SubSeqFull
  <2>3. Len(line) \in 0 .. Len(line)
    BY <2>1
  <2>4. Len(<<>>) = 0
    OBVIOUS
  <2> QED BY <2>1, <2>2, <2>3, <2>4 DEF Torn
<1>3. /\ sink # Closed /\ safe \in Seq(Events) /\ stored \in Seq(Events) /\ tears \in Nat
      /\ Holds(text, safe)
      /\ tears = 0 => WholeFile(text, stored) /\ safe = stored /\ InStep(sink, text, stored)
      /\ \/ /\ WholeFile(text, stored)
            /\ InStep(sink, text, stored) \/ sink.prev # TipHash(text, Len(stored))
         \/ CutLine(text, stored)
         \/ BrokenFile(text)
  BY <1>1, ChainReady
<1>4. /\ stored' \in Seq(Events) /\ IsText(line)
      /\ \/ /\ stored' = Append(stored, e) /\ WholeFile(text, stored) /\ InStep(sink, text, stored)
            /\ WholeFile(text', stored') /\ TipHash(text', Len(stored')) = <<line[5]>>
         \/ CutLine(text', stored') \/ BrokenFile(text')
  <2>1. /\ stored \in Seq(Events) /\ e \in Events /\ line \in Torn(line)
        /\ stored' = RecordsLeft(sink, e, line, stored)
    BY <1>1, <1>2, <1>3, Zenon DEF RecordsLeft
  <2>2. Readable(sink, text, stored)
    BY <1>3, Zenon DEF Readable
  <2>3. /\ stored' \in Seq(Events) /\ IsText(line)
        /\ \/ line = <<>>
           \/ /\ stored' = Append(stored, e) /\ WholeFile(text, stored) /\ InStep(sink, text, stored)
              /\ WholeFile(text \o line, stored') /\ TipHash(text \o line, Len(stored')) = <<line[5]>>
           \/ CutLine(text \o line, stored') \/ BrokenFile(text \o line)
    <3>1. stored' \in Seq(Events) /\ IsText(line) /\ Grown(sink, e, line, text, stored, stored')
      BY <2>1, <2>2, FileStep, Zenon
    <3> HIDE DEF e
    <3> QED BY <3>1, Zenon DEF Grown, line
  <2>4. text' = text \o line
    BY <1>1, Zenon
  <2> HIDE DEF line, e
  <2> QED BY <1>2, <2>3, <2>4, Zenon
<1>5. \A x \in Recorders : job'[x][1] = "append" => sink' # Closed
  <2>1. sink'.prev = <<line[5]>>
    BY <1>1
  <2> HIDE DEF line
  <2>2. sink' # Closed
    BY <2>1 DEF Closed
  <2> QED BY <2>2
<1>6. ASSUME WholeFile(text, stored), InStep(sink, text, stored), stored' = Append(stored, e),
             TipHash(text', Len(stored')) = <<line[5]>>
      PROVE  InStep(sink', text', stored')
  <2>1. sink'.prev = <<line[5]>> /\ sink'.seq = sink.seq + 1 /\ sink.seq = Len(stored)
    BY <1>1, <1>6 DEF InStep
  <2>2. Len(stored') = Len(stored) + 1
    BY <1>3, <1>6
  <2> QED BY <1>6, <2>1, <2>2 DEF InStep
<1> HIDE DEF line, e
<1>7. CASE tears # 0
  <2>1. Holds(text', safe')
    BY <1>1, <1>3, <1>4, <1>7, HoldsExtends
  <2> QED BY <1>1, <1>3, <1>4, <1>5, <1>6, <1>7, <2>1 DEF ChainKept
<1>8. CASE tears = 0
  <2>1. WholeFile(text, stored) /\ InStep(sink, text, stored) /\ safe = stored
    BY <1>3, <1>8
  <2> DEFINE t == text \o line
             s == Append(stored, e)
  <2>2. /\ WholeFile(t, s) /\ TipHash(t, Len(s)) = <<line[5]>>
    <3>1. stored \in Seq(Events) /\ e \in Events /\ Holds(text, stored)
      BY <1>1, <1>3, <2>1, Zenon DEF WholeFile
    <3>2. /\ Len(text) = 6 * Len(stored) /\ sink.prev = TipHash(text, Len(stored))
          /\ sink.seq = Len(stored)
      BY <2>1, Zenon DEF WholeFile, InStep
    <3>3. /\ Holds(text \o Line(sink, e), s) /\ Len(text \o Line(sink, e)) = 6 * Len(s)
          /\ TipHash(text \o Line(sink, e), Len(s)) = <<Line(sink, e)[5]>>
      BY <3>1, <3>2, HoldsAppends, Zenon
    <3> HIDE DEF e
    <3> QED BY <3>3, Zenon DEF WholeFile, line
  <2>3. text' = t /\ safe' = s
    BY <1>1, <1>8, <2>1
  <2>4. stored' = s
    BY <1>1
  <2> HIDE DEF t, s
  <2>5. InStep(sink', text', stored')
    BY <1>6, <2>1, <2>2, <2>3, <2>4 DEF s
  <2>6. Holds(text', safe') /\ WholeFile(text', stored') /\ safe' = stored'
    BY <2>2, <2>3, <2>4 DEF WholeFile
  <2> QED BY <1>1, <1>3, <1>4, <1>5, <2>5, <2>6 DEF ChainKept
<1> QED BY <1>7, <1>8

\* Whatever a failed write leaves, the records before it stay; if it leaves a
\* record, the sink is chained to the one before.
LEMMA FailureKeeps ==
    ASSUME FirewallInd, ChainKept, NEW r \in Recorders, PersistFails(r) PROVE ChainKept'
<1> DEFINE e == job[r][2]
           line == Line(sink, e)
<1>1. PICK part \in Torn(line) :
          /\ text' = text \o part /\ tears' = (IF part = <<>> THEN tears ELSE tears + 1)
          /\ stored' = IF part \in {line, SubSeq(line, 1, Len(line) - 1)} THEN Append(stored, e) ELSE stored
  BY DEF PersistFails, Leaves
<1>2. /\ e \in Events /\ job[r][1] = "append" /\ UNCHANGED <<sink, safe>>
      /\ job' = [job EXCEPT ![r][1] = "ring"]
  BY JobSteps DEF PersistFails
<1>3. /\ sink # Closed /\ safe \in Seq(Events) /\ stored \in Seq(Events) /\ tears \in Nat
      /\ Holds(text, safe)
      /\ \/ /\ WholeFile(text, stored)
            /\ InStep(sink, text, stored) \/ sink.prev # TipHash(text, Len(stored))
         \/ CutLine(text, stored)
         \/ BrokenFile(text)
  BY <1>2, ChainReady
<1>4. /\ stored' \in Seq(Events) /\ IsText(part)
      /\ \/ part = <<>> /\ text' = text /\ stored' = stored
         \/ /\ WholeFile(text, stored) /\ InStep(sink, text, stored)
            /\ WholeFile(text', stored') /\ TipHash(text', Len(stored')) = <<line[5]>>
         \/ CutLine(text', stored') \/ BrokenFile(text')
  <2>1. /\ stored \in Seq(Events) /\ e \in Events /\ part \in Torn(line)
        /\ stored' = RecordsLeft(sink, e, part, stored)
    BY <1>1, <1>2, <1>3, Zenon DEF RecordsLeft
  <2>2. Readable(sink, text, stored)
    BY <1>3, Zenon DEF Readable
  <2>3. /\ stored' \in Seq(Events) /\ IsText(part)
        /\ \/ part = <<>> /\ text \o part = text /\ stored' = stored
           \/ /\ WholeFile(text, stored) /\ InStep(sink, text, stored)
              /\ WholeFile(text \o part, stored') /\ TipHash(text \o part, Len(stored')) = <<line[5]>>
           \/ CutLine(text \o part, stored') \/ BrokenFile(text \o part)
    <3>1. stored' \in Seq(Events) /\ IsText(part) /\ Grown(sink, e, part, text, stored, stored')
      BY <2>1, <2>2, FileStep, Zenon
    <3> HIDE DEF e
    <3> QED BY <3>1, Zenon DEF Grown, line
  <2>4. text' = text \o part
    BY <1>1, Zenon
  <2> HIDE DEF line, e
  <2> QED BY <2>3, <2>4, Zenon
<1>5. CASE part = <<>>
  <2>1. text' = text /\ stored' = stored /\ tears' = tears
    <3>1. part \notin {line, SubSeq(line, 1, Len(line) - 1)}
      BY <1>5, PartPieces
    <3>2. text \o <<>> = text
      BY <1>3, ConcatEmptySeq DEF Holds, IsText
    <3> HIDE DEF line, e
    <3> QED BY <1>1, <1>5, <3>1, <3>2
  <2> QED BY <1>2, <1>3, <2>1, ChainFrame
<1>6. CASE part # <<>>
  <2>1. tears' \in Nat /\ tears' # 0
    BY <1>1, <1>3, <1>6
  <2>2. Holds(text', safe')
    BY <1>1, <1>2, <1>3, <1>4, HoldsExtends
  <2>3. CASE /\ WholeFile(text, stored) /\ InStep(sink, text, stored)
             /\ WholeFile(text', stored') /\ TipHash(text', Len(stored')) = <<line[5]>>
    <3>1. sink.prev # <<line[5]>>
      BY <1>3, <2>3, TipMoves
    <3>2. sink'.prev # TipHash(text', Len(stored'))
      <4> HIDE DEF line
      <4> QED BY <1>2, <2>3, <3>1
    <3> HIDE DEF line, e
    <3> QED BY <1>2, <1>3, <1>4, <2>1, <2>2, <2>3, <3>2 DEF ChainKept
  <2>4. CASE CutLine(text', stored') \/ BrokenFile(text')
    <3> HIDE DEF line, e
    <3> QED BY <1>2, <1>3, <1>4, <2>1, <2>2, <2>4 DEF ChainKept
  <2> QED BY <1>4, <1>6, <2>3, <2>4
<1> QED BY <1>5, <1>6

\* open() takes up the chain where a file of whole records ends; of any other
\* file, the records before the first tear stay.
LEMMA RestartKeeps == ASSUME FirewallInd, ChainKept, Restart PROVE ChainKept'
<1>1. /\ safe \in Seq(Events) /\ stored \in Seq(Events) /\ Holds(text, safe) /\ tears \in Nat
      /\ tears = 0 => WholeFile(text, stored) /\ safe = stored
      /\ WholeFile(text, stored) \/ CutLine(text, stored) \/ BrokenFile(text)
  BY DEF ChainKept
<1>2. \A r \in Recorders : job'[r][1] # "append"
  <2>1. job' = [r \in Recorders |-> Idle]
    BY DEF Restart, RestartClean, RestartTorn, Reopen
  <2> QED BY <2>1 DEF Idle
<1>3. sink' = tip(text')
  BY DEF Restart, RestartClean, RestartTorn, Reopen
<1>4. ASSUME safe' \in Seq(Events), stored' \in Seq(Events), Holds(text', safe'), tears' \in Nat,
             tears' = 0 => WholeFile(text', stored') /\ safe' = stored',
             WholeFile(text', stored') \/ CutLine(text', stored') \/ BrokenFile(text')
      PROVE  ChainKept'
  <2>1. ASSUME WholeFile(text', stored') PROVE InStep(sink', text', stored')
    BY <1>3, <1>4, <2>1, HeldTip DEF WholeFile, InStep
  <2> QED BY <1>2, <1>4, <2>1 DEF ChainKept
<1>5. CASE RestartClean
  <2>1. text' = text /\ tears' = tears /\ stored' = stored /\ safe' = safe
    BY <1>5 DEF RestartClean
  <2> QED BY <1>1, <1>4, <2>1
<1>6. ASSUME NEW r \in Recorders, RestartTorn(r) PROVE ChainKept'
  <2> DEFINE e == job[r][2]
             line == Line(sink, e)
  <2>1. PICK part \in Torn(line) \ {<<>>} :
            /\ text' = text \o part /\ tears' = (IF part = line THEN tears ELSE tears + 1)
            /\ stored' = (IF part \in {line, SubSeq(line, 1, Len(line) - 1)} THEN Append(stored, e)
                                                                            ELSE stored)
            /\ safe' = IF part = line /\ tears = 0 THEN Append(safe, e) ELSE safe
    BY <1>6 DEF RestartTorn, Leaves
  <2>2. e \in Events /\ job[r][1] = "append"
    BY <1>6, JobSteps DEF RestartTorn
  <2>3. /\ tears = 0 => InStep(sink, text, stored)
        /\ \/ /\ WholeFile(text, stored)
              /\ InStep(sink, text, stored) \/ sink.prev # TipHash(text, Len(stored))
           \/ CutLine(text, stored)
           \/ BrokenFile(text)
    BY <2>2, ChainReady
  <2>4. /\ stored' \in Seq(Events) /\ IsText(part)
        /\ WholeFile(text', stored') \/ CutLine(text', stored') \/ BrokenFile(text')
    <3>1. /\ stored \in Seq(Events) /\ e \in Events /\ part \in Torn(line) /\ part # <<>>
          /\ stored' = RecordsLeft(sink, e, part, stored)
      BY <1>1, <2>1, <2>2, Zenon DEF RecordsLeft
    <3>2. Readable(sink, text, stored)
      BY <2>3, Zenon DEF Readable
    <3>3. /\ stored' \in Seq(Events) /\ IsText(part)
          /\ \/ part = <<>> \/ WholeFile(text \o part, stored')
             \/ CutLine(text \o part, stored') \/ BrokenFile(text \o part)
      <4>1. stored' \in Seq(Events) /\ IsText(part) /\ Grown(sink, e, part, text, stored, stored')
        BY <3>1, <3>2, FileStep, Zenon
      <4> HIDE DEF e, line
      <4> QED BY <4>1, Zenon DEF Grown
    <3>4. text' = text \o part
      BY <2>1, Zenon
    <3> HIDE DEF line, e
    <3> QED BY <3>1, <3>3, <3>4, Zenon
  <2>5. CASE part = line /\ tears = 0
    <3>1. WholeFile(text \o line, Append(stored, e))
      BY <1>1, <2>2, <2>3, <2>5, HoldsAppends DEF WholeFile, InStep
    <3>2. safe' = Append(stored, e) /\ tears' = 0 /\ text' = text \o line /\ stored' = Append(stored, e)
      <4> HIDE DEF line, e
      <4> QED BY <1>1, <2>1, <2>5
    <3>3. WholeFile(text', stored') /\ safe' = stored' /\ Holds(text', safe')
      <4> HIDE DEF line, e
      <4> QED BY <3>1, <3>2 DEF WholeFile
    <3> HIDE DEF line, e
    <3> QED BY <1>4, <2>4, <3>2, <3>3
  <2>6. CASE ~(part = line /\ tears = 0)
    <3> HIDE DEF line, e
    <3>1. safe' = safe /\ tears' \in Nat /\ tears' # 0
      BY <1>1, <2>1, <2>6
    <3>2. Holds(text', safe')
      BY <1>1, <2>1, <2>4, <3>1, HoldsExtends
    <3> QED BY <1>1, <1>4, <2>4, <3>1, <3>2
  <2> QED BY <2>5, <2>6
<1> QED BY <1>5, <1>6 DEF Restart

\* Every step keeps the chain.
LEMMA ChainNext == FirewallInd /\ ChainKept /\ [Next]_vars => ChainKept'
<1> SUFFICES ASSUME FirewallInd, ChainKept, [Next]_vars PROVE ChainKept'
  OBVIOUS
<1>0. job \in [Recorders -> Jobs]
  BY DEF FirewallInd, Types
<1>1. ASSUME UNCHANGED audit PROVE ChainKept'
  BY <1>1, ChainFrame DEF audit
<1>2. ASSUME NEW r \in Recorders, NEW e, Record(r, e) PROVE ChainKept'
  <2>1. \A x \in Recorders : job'[x][1] = "append" => job[x][1] = "append"
    BY <1>0, <1>2 DEF Record
  <2> QED BY <1>2, <2>1, ChainFrame DEF Record
<1>3. ASSUME NEW r \in Recorders, Trace(r) PROVE ChainKept'
  <2> DEFINE to == IF sink = Closed THEN "ring" ELSE "append"
  <2>1. job' = [job EXCEPT ![r][1] = to] /\ UNCHANGED <<sink, text, tears, stored, safe>>
    BY <1>3 DEF Trace
  <2>2. to = "append" => sink # Closed
    OBVIOUS
  <2> HIDE DEF to
  <2>3. job'[r][1] = to
    <3>1. PICK a, e : job[r] = <<a, e>>
      BY <1>0 DEF Jobs
    <3>2. job'[r] = [<<a, e>> EXCEPT ![1] = to]
      BY <1>0, <2>1, <3>1
    <3> QED BY <3>2
  <2>4. \A x \in Recorders : x # r => job'[x] = job[x]
    BY <1>0, <2>1
  <2> QED BY <2>1, <2>2, <2>3, <2>4, ChainFrame
<1>4. ASSUME NEW r \in Recorders, Push(r) PROVE ChainKept'
  <2>1. \A x \in Recorders : job'[x][1] = "append" => job[x][1] = "append"
    BY <1>0, <1>4 DEF Push, Idle
  <2> QED BY <1>4, <2>1, ChainFrame DEF Push
<1>5. ASSUME NEW t \in Checkers, CheckSteps(t) \/ \E i \in Ips : Check(t, i) PROVE UNCHANGED audit
  BY <1>5 DEF CheckSteps, CheckSwitch, CheckAllow, CheckBlock, CheckLimit, CheckTrace, Check, QuietFw
<1>6. ASSUME NEW t \in Recorders, Admin(t) \/ Pause(t) \/ Resume(t)
      PROVE  UNCHANGED audit \/ \E e : Record(t, e)
  BY <1>6, Zenon DEF Admin, Pause, Resume, Switch
<1>7. ASSUME NEW t \in Recorders, Logged(t) PROVE ChainKept'
  BY <1>2, <1>3, <1>4, <1>7, PersistKeeps, FailureKeeps DEF Logged
<1>8. ASSUME Reload \/ Tick \/ UNCHANGED vars PROVE UNCHANGED audit
  BY <1>8 DEF Reload, Tick, vars
<1> QED BY <1>1, <1>2, <1>5, <1>6, <1>7, <1>8, RestartKeeps DEF Next

\* For any number of recorders, of records, and of crashes and failed writes
\* (append(), tip(), verify()): the file verifies as long as no write was cut
\* short; what was recorded before the first tear verifies and reads back in
\* order; and a file that verifies holds exactly the records whose hash was
\* written.  A line that does not link stays one, whatever is appended.
THEOREM ChainStaysIntact == Spec => []ChainIntact
<1>1. ASSUME NEW t, NEW s \in Seq(Events), Holds(t, s)
      PROVE  /\ verify(t).records >= Len(s) /\ \A i \in DOMAIN s : EventOf(Lines(t)[i]) = s[i]
             /\ verify(t).valid => verify(t).records = Len(Lines(t))
             /\ WholeFile(t, s) => verify(t).valid /\ Len(Lines(t)) = Len(s)
  <2> DEFINE ls == Lines(t)
             n == Len(s)
             bad == {i \in DOMAIN ls : ~Linked(ls, i)}
  <2>2. /\ n \in Nat /\ Len(ls) \in Nat /\ n <= Len(ls) /\ DOMAIN ls = 1 .. Len(ls)
        /\ \A k \in 1 .. n : Linked(ls, k) /\ EventOf(ls[k]) = s[k]
        /\ WholeFile(t, s) => Len(ls) = n
    BY <1>1, HeldLines DEF WholeFile
  <2>3. DOMAIN s = 1 .. n
    BY LenProperties
  <2>4. /\ verify(t).valid = (bad = {})
        /\ verify(t).records = IF bad = {} THEN Len(ls) ELSE Min(bad) - 1
    BY DEF verify
  <2> HIDE DEF ls, n
  <2>5. bad \in SUBSET Nat /\ \A i \in bad : i \in Nat /\ i > n /\ i <= Len(ls)
    <3>1. \A i \in bad : i \in 1 .. Len(ls) /\ i \notin 1 .. n
      BY <2>2, Zenon
    <3> DEFINE m == Len(ls)
    <3>2. n \in Nat /\ m \in Nat /\ \A i \in bad : i \in 1 .. m /\ i \notin 1 .. n
      BY <2>2, <3>1
    <3> HIDE DEF bad, m
    <3>3. \A i \in bad : i \in Nat /\ i > n /\ i <= m
      BY <3>2
    <3> QED BY <3>3 DEF m
  <2>6. bad # {} => Min(bad) \in bad
    <3> HIDE DEF bad
    <3> SUFFICES ASSUME bad # {} PROVE Min(bad) \in bad
      OBVIOUS
    <3>1. \E x \in bad : \A y \in bad : x <= y
      BY <2>5, LeastNat
    <3> QED BY <3>1 DEF Min
  <2> HIDE DEF bad
  <2>7. verify(t).records >= n
    <3>1. CASE bad = {}
      BY <2>2, <2>4, <3>1
    <3>2. CASE bad # {}
      <4>1. Min(bad) \in Nat /\ Min(bad) > n
        BY <2>5, <2>6, <3>2
      <4>2. verify(t).records = Min(bad) - 1 /\ n \in Nat
        BY <2>2, <2>4, <3>2
      <4> QED BY <4>1, <4>2
    <3> QED BY <3>1, <3>2
  <2>8. WholeFile(t, s) => bad = {} /\ Len(ls) = n
    BY <2>2, <2>5
  <2>9. verify(t).valid => verify(t).records = Len(ls)
    BY <2>4
  <2>10. \A i \in DOMAIN s : EventOf(ls[i]) = s[i]
    BY <2>2, <2>3
  <2>11. WholeFile(t, s) => verify(t).valid
    BY <2>4, <2>8
  <2> QED BY <2>7, <2>8, <2>9, <2>10, <2>11 DEF ls, n
<1>2. ASSUME NEW t, BrokenFile(t) PROVE ~verify(t).valid
  <2>1. PICK s \in Seq(Events), q \in Nat : Holds(t, s) /\ BadLine(t, Len(s), q)
    BY <1>2 DEF BrokenFile
  <2>2. Len(s) + 1 \in DOMAIN Lines(t) /\ ~Linked(Lines(t), Len(s) + 1)
    BY <2>1, BadNotLinked
  <2> DEFINE bad == {i \in DOMAIN Lines(t) : ~Linked(Lines(t), i)}
  <2>3. bad # {}
    BY <2>2
  <2>4. verify(t).valid = (bad = {})
    BY DEF verify
  <2> QED BY <2>3, <2>4
<1>3. ASSUME NEW t, NEW w \in Seq(Events), CutLine(t, w)
      PROVE  Len(Lines(t)) = Len(w) /\ \A i \in DOMAIN w : EventOf(Lines(t)[i]) = w[i]
  <2> DEFINE v == t \o <<Newline>>
  <2>1. PICK s \in Seq(Events) : OpenLine(t, s) /\ 6 * Len(s) < Len(t) /\ WholeFile(v, w)
    BY <1>3 DEF CutLine
  <2>2. IsText(t) /\ Len(s) \in Nat /\ Len(t) \in Nat
    BY <2>1, LenProperties DEF OpenLine, Holds, IsText
  <2>3. t # <<>> /\ t[Len(t)] # Newline
    <3>1. Len(t) # 0 /\ Len(t) \in 6 * Len(s) + 1 .. Len(t)
      BY <2>1, <2>2
    <3>2. Len(<<>>) = 0
      OBVIOUS
    <3> QED BY <2>1, <3>1, <3>2 DEF OpenLine
  <2>4. Lines(v) = Lines(t)
    BY <2>2, <2>3, CutReads
  <2> HIDE DEF v
  <2>5. /\ \A i \in DOMAIN w : EventOf(Lines(v)[i]) = w[i]
        /\ Len(Lines(v)) = Len(w)
    BY <1>1, <2>1 DEF WholeFile
  <2> QED BY <2>4, <2>5
<1>4. ChainKept => ChainIntact
  <2> SUFFICES ASSUME ChainKept PROVE ChainIntact
    OBVIOUS
  <2>1. /\ safe \in Seq(Events) /\ stored \in Seq(Events) /\ Holds(text, safe)
        /\ tears = 0 => WholeFile(text, stored)
        /\ WholeFile(text, stored) \/ CutLine(text, stored) \/ BrokenFile(text)
    BY DEF ChainKept
  <2>2. /\ verify(text).records >= Len(safe)
        /\ \A i \in DOMAIN safe : EventOf(Lines(text)[i]) = safe[i]
        /\ verify(text).valid => verify(text).records = Len(Lines(text))
    BY <1>1, <2>1
  <2>3. WholeFile(text, stored) =>
            /\ verify(text).valid /\ Len(Lines(text)) = Len(stored)
            /\ \A i \in DOMAIN stored : EventOf(Lines(text)[i]) = stored[i]
    BY <1>1, <2>1 DEF WholeFile
  <2>4. verify(text).valid =>
            /\ Len(Lines(text)) = Len(stored)
            /\ \A i \in DOMAIN stored : EventOf(Lines(text)[i]) = stored[i]
    BY <1>2, <1>3, <2>1, <2>3
  <2> QED BY <2>1, <2>2, <2>3, <2>4, Zenon DEF ChainIntact
<1> QED BY <1>4, ChainInit, ChainNext, FirewallInductive, PTL DEF Spec
=============================================================================
