--------------------------- MODULE AdmissionProofs ---------------------------
(***************************************************************************)
(* What stands in front of the mail server guarantees for any listeners,   *)
(* limits and addresses.  Lifecycle: no accept loop loses or makes up a    *)
(* permit.  Greylist: the table is bounded, nobody is let through early,   *)
(* and who waited is let through.  AuthThrottle: guesses are counted, and  *)
(* those that are evaluated are bounded although connections check before  *)
(* they record.  The three share no state.                                 *)
(***************************************************************************)
EXTENDS Lifecycle, Greylist, AuthThrottle, FiniteSetTheorems, TLAPS

Starting == {"certs", "resolver", "users", "bind"}
Up       == {"running", "aborting", "joining", "stopped"}
LoopStates == {"none", "permit", "accept", "aborted"}

CountsOK ==
    /\ queue \in [Listeners -> Nat] /\ free \in [Listeners -> Nat]
    /\ gate \in [Listeners -> Nat] /\ open \in [Listeners -> Nat]
    /\ loop \in [Listeners -> LoopStates]
    /\ phase \in Starting \cup Up \cup {"failed"}

\* The loops begin with "running" and have all ended before the process has.
LoopsFollowMain ==
    /\ phase \notin Up => \A l \in Listeners : loop[l] = "none"
    /\ phase \in {"joining", "stopped"} => \A l \in Listeners : loop[l] = "aborted"

LifecycleInd == CountsOK /\ LoopsFollowMain /\ PermitsConserved
-----------------------------------------------------------------------------
\* Nothing is bound at first.
LEMMA LifecycleInitInd == Init => LifecycleInd
  BY LifecycleAssumption
  DEF Init, LifecycleInd, CountsOK, LoopsFollowMain, PermitsConserved, Starting, Up, LoopStates

\* The composition touches neither loops nor permits; Start begins the loops.
LEMMA BootInd == ASSUME LifecycleInd, Boot PROVE LifecycleInd'
<1> USE DEF Starting, Up
<1>1. ASSUME Booting, phase \in Starting, phase' \in Starting \cup {"failed"}
      PROVE  LifecycleInd'
  BY <1>1 DEF Booting, conns, LifecycleInd, CountsOK, LoopsFollowMain, PermitsConserved
<1>2. CASE LoadCerts \/ ConfigureRelay \/ ConfigureInbound \/ Bind
  <2>1. Booting
    BY <1>2 DEF LoadCerts, ConfigureRelay, ConfigureInbound, Bind, Fails
  <2>2. phase \in Starting /\ phase' \in Starting \cup {"failed"}
    BY <1>2 DEF LoadCerts, ConfigureRelay, ConfigureInbound, Bind, Fails, Goto
  <2> QED BY <1>1, <2>1, <2>2
<1>3. CASE Start
  <2>1. LoopsFollowMain' /\ CountsOK'
    BY <1>3 DEF Start, boot, Goto, LifecycleInd, LoopsFollowMain, CountsOK, LoopStates
  <2>2. PermitsConserved'
    BY <1>3 DEF Start, LifecycleInd, PermitsConserved, LoopsFollowMain
  <2> QED BY <2>1, <2>2 DEF LifecycleInd
<1> QED BY <1>2, <1>3 DEF Boot

\* A step of a connection or of a loop: the permit moves, and main() stands still.
LEMMA ConnectionInd ==
    ASSUME LifecycleInd,
           \/ Gate
           \/ \E l \in Listeners : Connect(l) \/ Serving(l) \/ Finish(l) \/ Abort(l)
    PROVE  LifecycleInd'
<1>1. UNCHANGED <<env, phase, server>>
  BY DEF Gate, Connect, Serving, Acquire, Accept, AcceptFails, Finish, Abort, UnchangedElse, boot
<1> DEFINE Kept == CountsOK' /\ LoopsFollowMain' /\ PermitsConserved'
<1>3. ASSUME Gate PROVE Kept
  <2>1. Inbound \in Listeners
    BY LifecycleAssumption
  <2> QED BY <1>1, <1>3, <2>1 DEF Gate, LifecycleInd, CountsOK, LoopsFollowMain, PermitsConserved
<1>4. ASSUME NEW l \in Listeners, Connect(l) PROVE Kept
  BY <1>1, <1>4 DEF Connect, LifecycleInd, CountsOK, LoopsFollowMain, PermitsConserved
<1>5. ASSUME NEW l \in Listeners, Acquire(l) PROVE Kept
  BY <1>1, <1>5 DEF Acquire, LifecycleInd, CountsOK, LoopsFollowMain, PermitsConserved, LoopStates
<1>6. ASSUME NEW l \in Listeners, Accept(l) PROVE Kept
  <2>1. CountsOK' /\ LoopsFollowMain'
    BY <1>1, <1>6 DEF Accept, LifecycleInd, CountsOK, LoopsFollowMain, LoopStates
  <2>2. PermitsConserved'
    <3>1. CASE l = Inbound
      BY <1>6, <3>1 DEF Accept, LifecycleInd, CountsOK, PermitsConserved
    <3>2. CASE l # Inbound
      BY <1>6, <3>2 DEF Accept, LifecycleInd, CountsOK, PermitsConserved
    <3> QED BY <3>1, <3>2
  <2> QED BY <2>1, <2>2
<1>7. ASSUME NEW l \in Listeners, AcceptFails(l) PROVE Kept
  BY <1>1, <1>7 DEF AcceptFails, LifecycleInd, CountsOK, LoopsFollowMain, PermitsConserved,
                    LoopStates
<1>8. ASSUME NEW l \in Listeners, Finish(l) PROVE Kept
  BY <1>1, <1>8 DEF Finish, LifecycleInd, CountsOK, LoopsFollowMain, PermitsConserved
<1>9. ASSUME NEW l \in Listeners, Abort(l) PROVE Kept
  BY <1>1, <1>9 DEF Abort, LifecycleInd, CountsOK, LoopsFollowMain, PermitsConserved, LoopStates
<1> QED BY <1>3, <1>4, <1>5, <1>6, <1>7, <1>8, <1>9 DEF LifecycleInd, Serving

\* Every step preserves the invariant; Ctrl-C ends every loop.
LEMMA LifecycleNextInd == LifecycleInd /\ [Next]_vars => LifecycleInd'
<1> SUFFICES ASSUME LifecycleInd, [Next]_vars PROVE LifecycleInd'
  OBVIOUS
<1> USE DEF Starting, Up
<1>1. ASSUME UNCHANGED <<boot, conns>>, phase' = phase \/ (phase = "running" /\ phase' = "aborting")
      PROVE  LifecycleInd'
  BY <1>1 DEF boot, conns, LifecycleInd, CountsOK, LoopsFollowMain, PermitsConserved
<1>2. CASE Notify
  BY <1>2 DEF Notify, Goto, boot, conns, LifecycleInd, CountsOK, LoopsFollowMain,
              PermitsConserved
<1>3. CASE Return
  BY <1>3, LifecycleAssumption
     DEF Return, Goto, boot, LifecycleInd, CountsOK, LoopsFollowMain, PermitsConserved
<1>4. CASE CtrlC \/ \E w \in Workers : Wake(w) \/ Stop(w) \/ EndPass(w)
  BY <1>1, <1>4 DEF CtrlC, Goto, Wake, Stop, EndPass
<1>5. CASE UNCHANGED vars
  BY <1>1, <1>5 DEF vars, boot, conns
<1> QED BY <1>2, <1>3, <1>4, <1>5, BootInd, ConnectionInd DEF Next, Main

\* Whatever the limits and the environments, and however accepts fail, the
\* firewall refuses, handlers end and Ctrl-C comes in between, permits are
\* conserved on every listener (accept_loop()): the loops begin with all permits
\* free, and each later step moves one permit between the semaphore, a loop, the
\* firewall's gate and a handler.
THEOREM PermitsAreConserved == Spec => []PermitsConserved
<1>1. Spec => []LifecycleInd
  BY LifecycleInitInd, LifecycleNextInd, PTL DEF Spec
<1>2. LifecycleInd => PermitsConserved
  BY DEF LifecycleInd
<1> QED BY <1>1, <1>2, PTL
-----------------------------------------------------------------------------
(* Greylist *)

EntryStates == [state : {"absent", "pending", "passed"}, waited : 0..Delay, idle : 0..Horizon]

GreylistTypes ==
    /\ entries \in [Triplets -> EntryStates]
    /\ decision \in [of : Triplets, is : Decisions]
    /\ last \in [Triplets -> Decisions]
    /\ since \in [Triplets -> 0..Delay]
    /\ gap \in [Triplets -> 0..Horizon]

TableBounded ==
    /\ IsFiniteSet(Tracked(entries))
    /\ Cardinality(Tracked(entries)) <= MaxEntries

\* The table against the history of one triplet: l is what was decided last, s
\* and g the ticks since the deferral and since the last call.  An entry tells
\* that history; where there is none, it is too old to count.
Tells(e, l, s, g) ==
    /\ e.state = "pending" => l = "defer" /\ e.waited = s /\ e.idle = g
    /\ e.state = "passed"  => l = "allow" /\ s >= Delay /\ e.idle = g
    /\ e.state = "absent"  => /\ e = NoEntry
                              /\ l = "defer" => g >= PendingTtl
                              /\ l = "allow" => g >= PassTtl

Remembered == \A t \in Triplets : Tells(entries[t], last[t], since[t], gap[t])

GreylistInd == GreylistTypes /\ TableBounded /\ Remembered
-----------------------------------------------------------------------------
(* The helpers of check() *)

\* Pruning one entry: what is left is the entry, what is dropped was too old.
LEMMA PruneTells ==
    ASSUME GreylistInd, NEW t \in Triplets
    PROVE  /\ Pruned[t] \in EntryStates
           /\ Tells(Pruned[t], last[t], since[t], gap[t])
           /\ Pruned[t].state # "absent" => Pruned[t] = entries[t]
           /\ entries[t].state = "passed" /\ gap[t] < PassTtl => Pruned[t] = entries[t]
           /\ entries[t].state = "pending" /\ gap[t] < PendingTtl => Pruned[t] = entries[t]
<1> USE GreylistAssumption
<1>1. /\ entries[t] \in EntryStates
      /\ Tells(entries[t], last[t], since[t], gap[t])
      /\ last[t] \in Decisions /\ since[t] \in 0..Delay /\ gap[t] \in 0..Horizon
  BY DEF GreylistInd, GreylistTypes, Remembered
<1>2. Pruned[t] = prune(entries[t])
  BY DEF Pruned
<1>3. NoEntry \in EntryStates /\ NoEntry.state = "absent"
  BY DEF NoEntry, EntryStates, Horizon
<1>4. CASE prune(entries[t]) = entries[t]
  BY <1>1, <1>2, <1>4
<1>5. CASE prune(entries[t]) # entries[t]
  <2>1. /\ prune(entries[t]) = NoEntry
        /\ entries[t].state = "passed" => ~(entries[t].idle < PassTtl)
        /\ entries[t].state # "passed" => ~(entries[t].idle < PendingTtl)
    BY <1>5 DEF prune
  <2>2. entries[t].state \in {"pending", "passed"}
    BY <1>1, <1>5, <2>1 DEF Tells, EntryStates
  <2>3. Tells(NoEntry, last[t], since[t], gap[t])
    BY <1>1, <1>3, <2>1, <2>2 DEF Tells, EntryStates, Horizon
  <2> QED BY <1>1, <1>2, <1>3, <2>1, <2>2, <2>3 DEF Tells, EntryStates, Horizon
<1> QED BY <1>4, <1>5

\* Pruning only ever makes room.
LEMMA PruneBounded ==
    ASSUME GreylistInd
    PROVE  /\ IsFiniteSet(Tracked(Pruned))
           /\ Cardinality(Tracked(Pruned)) <= MaxEntries
           /\ Cardinality(Tracked(Pruned)) \in Nat
<1>1. Tracked(Pruned) \subseteq Tracked(entries)
  BY PruneTells DEF Tracked
<1>2. IsFiniteSet(Tracked(entries)) /\ Cardinality(Tracked(entries)) <= MaxEntries
  BY DEF GreylistInd, TableBounded
<1>3. /\ IsFiniteSet(Tracked(Pruned))
      /\ Cardinality(Tracked(Pruned)) <= Cardinality(Tracked(entries))
  BY <1>1, <1>2, FS_Subset
<1>4. Cardinality(Tracked(Pruned)) \in Nat /\ Cardinality(Tracked(entries)) \in Nat
  BY <1>2, <1>3, FS_CardinalityType
<1> QED BY GreylistAssumption, <1>2, <1>3, <1>4

\* A call of check() for t that leaves the table as pruned but for t's own entry.
LEMMA DecideInd ==
    ASSUME GreylistInd, NEW t \in Triplets, NEW e \in EntryStates,
           NEW result \in Decisions, NEW s \in 0..Delay,
           Decide(t, [Pruned EXCEPT ![t] = e], result),
           since' = [since EXCEPT ![t] = s],
           Tells(e, result, s, 0),
           \/ (e.state = "absent") = (Pruned[t].state = "absent")
           \/ Cardinality(Tracked(Pruned)) < MaxEntries
    PROVE  GreylistInd'
<1> USE GreylistAssumption
<1> DEFINE table == [Pruned EXCEPT ![t] = e]
<1>1. Pruned \in [Triplets -> EntryStates]
  <2>1. \A x \in Triplets : Pruned[x] \in EntryStates
    BY PruneTells
  <2> QED BY <2>1 DEF Pruned
<1>2. /\ entries' = table /\ decision' = [of |-> t, is |-> result]
      /\ last' = [last EXCEPT ![t] = result] /\ gap' = [gap EXCEPT ![t] = 0]
  BY DEF Decide
<1>3. GreylistTypes'
  BY <1>1, <1>2 DEF GreylistInd, GreylistTypes, Horizon
<1>4. Remembered'
  <2> SUFFICES ASSUME NEW x \in Triplets
               PROVE  Tells(entries'[x], last'[x], since'[x], gap'[x])
    BY DEF Remembered, Tells
  <2>1. CASE x = t
    <3>1. entries'[x] = e /\ last'[x] = result /\ since'[x] = s /\ gap'[x] = 0
      BY <1>1, <1>2, <2>1 DEF GreylistInd, GreylistTypes
    <3> QED BY <3>1
  <2>2. CASE x # t
    <3>1. /\ entries'[x] = Pruned[x] /\ last'[x] = last[x]
          /\ since'[x] = since[x] /\ gap'[x] = gap[x]
      BY <1>1, <1>2, <2>2 DEF GreylistInd, GreylistTypes
    <3> QED BY <3>1, PruneTells
  <2> QED BY <2>1, <2>2
<1>5. TableBounded'
  <2>1. CASE (e.state = "absent") = (Pruned[t].state = "absent")
    <3>1. Tracked(table) = Tracked(Pruned)
      BY <1>1, <2>1 DEF Tracked
    <3>2. TableBounded' <=> IsFiniteSet(Tracked(table)) /\ Cardinality(Tracked(table)) <= MaxEntries
      BY <1>2 DEF TableBounded, Tracked
    <3> QED BY <3>1, <3>2, PruneBounded
  <2>2. CASE Cardinality(Tracked(Pruned)) < MaxEntries
    <3>1. Tracked(table) \subseteq Tracked(Pruned) \cup {t}
      BY <1>1 DEF Tracked
    <3>2. /\ IsFiniteSet(Tracked(Pruned) \cup {t})
          /\ Cardinality(Tracked(Pruned) \cup {t}) <= MaxEntries
          /\ Cardinality(Tracked(Pruned) \cup {t}) \in Nat
      <4>1. IsFiniteSet(Tracked(Pruned)) /\ Cardinality(Tracked(Pruned)) \in Nat
        BY PruneBounded
      <4>2. /\ IsFiniteSet(Tracked(Pruned) \cup {t})
            /\ Cardinality(Tracked(Pruned) \cup {t})
                 = IF t \in Tracked(Pruned) THEN Cardinality(Tracked(Pruned))
                                            ELSE Cardinality(Tracked(Pruned)) + 1
        BY <4>1, FS_AddElement, Zenon
      <4> QED BY <2>2, <4>1, <4>2
    <3>3. /\ IsFiniteSet(Tracked(table))
          /\ Cardinality(Tracked(table)) <= Cardinality(Tracked(Pruned) \cup {t})
          /\ Cardinality(Tracked(table)) \in Nat
      BY <3>1, <3>2, FS_Subset, FS_CardinalityType
    <3>4. TableBounded' <=> IsFiniteSet(Tracked(table)) /\ Cardinality(Tracked(table)) <= MaxEntries
      BY <1>2 DEF TableBounded, Tracked
    <3> QED BY <3>2, <3>3, <3>4
  <2> QED BY <2>1, <2>2
<1> QED BY <1>3, <1>4, <1>5 DEF GreylistInd
-----------------------------------------------------------------------------
\* A triplet that is tracked asks again.
LEMMA RetryInd ==
    ASSUME GreylistInd, NEW t \in Triplets, Retry(t)
    PROVE  GreylistInd'
<1> USE GreylistAssumption
<1> DEFINE old == Pruned[t]
           pass == old.state = "passed" \/ old.waited >= Delay
           new == IF pass THEN "passed" ELSE "pending"
           e == [[old EXCEPT !.state = new] EXCEPT !.idle = 0]
           result == IF pass THEN "allow" ELSE "defer"
<1>1. old \in EntryStates /\ Tells(old, last[t], since[t], gap[t]) /\ old.state # "absent"
  BY PruneTells DEF Retry
<1>2. e \in EntryStates /\ e.state = new /\ e.waited = old.waited /\ e.idle = 0
  <2>1. new \in {"pending", "passed"} /\ 0 \in 0..Horizon
    BY DEF Horizon
  <2> HIDE DEF new, old
  <2> QED BY <1>1, <2>1 DEF EntryStates
<1>3. since' = [since EXCEPT ![t] = since[t]] /\ since[t] \in 0..Delay
  BY DEF Retry, GreylistInd, GreylistTypes
<1>4. Tells(e, result, since[t], 0)
  BY <1>1, <1>2, <1>3 DEF Tells, EntryStates
<1>5. Decide(t, [Pruned EXCEPT ![t] = e], result)
  BY DEF Retry
<1>6. result \in Decisions
  BY DEF Decisions
<1>7. (e.state = "absent") = (Pruned[t].state = "absent")
  BY <1>1, <1>2
<1> HIDE DEF e, result, pass
<1> QED BY <1>2, <1>3, <1>4, <1>5, <1>6, <1>7, DecideInd

\* A new triplet is tracked, for there is room.
LEMMA FirstInd ==
    ASSUME GreylistInd, NEW t \in Triplets, First(t)
    PROVE  GreylistInd'
<1> USE GreylistAssumption
<1> DEFINE e == [state |-> "pending", waited |-> 0, idle |-> 0]
<1>1. e \in EntryStates /\ "defer" \in Decisions /\ 0 \in 0..Delay
  BY DEF EntryStates, Horizon, Decisions
<1>2. Tells(e, "defer", 0, 0)
  BY DEF Tells
<1>3. /\ Decide(t, [Pruned EXCEPT ![t] = e], "defer") /\ since' = [since EXCEPT ![t] = 0]
      /\ Cardinality(Tracked(Pruned)) < MaxEntries
  BY DEF First
<1> HIDE DEF e
<1> QED BY <1>1, <1>2, <1>3, DecideInd

\* A new triplet finds no room and is let through untracked.
LEMMA FullInd ==
    ASSUME GreylistInd, NEW t \in Triplets, Full(t)
    PROVE  GreylistInd'
<1>1. Pruned[t].state = "absent" /\ Pruned[t] \in EntryStates
      /\ Tells(Pruned[t], last[t], since[t], gap[t])
  BY PruneTells DEF Full
<1>2. Tells(Pruned[t], "open", since[t], 0)
  BY <1>1 DEF Tells
<1>3. Pruned = [Pruned EXCEPT ![t] = Pruned[t]]
  BY DEF Pruned
<1>4. since' = [since EXCEPT ![t] = since[t]] /\ since[t] \in 0..Delay
  BY DEF Full, GreylistInd, GreylistTypes
<1>5. Decide(t, [Pruned EXCEPT ![t] = Pruned[t]], "open")
  BY <1>3 DEF Full
<1>6. "open" \in Decisions
  BY DEF Decisions
<1> QED BY <1>1, <1>2, <1>4, <1>5, <1>6, DecideInd

\* Time passes for every entry and every history alike.
LEMMA GreylistTickInd ==
    ASSUME GreylistInd, GreylistTick
    PROVE  GreylistInd'
<1> USE GreylistAssumption
<1>1. ASSUME NEW t \in Triplets
      PROVE  /\ entries'[t] \in EntryStates
             /\ (entries'[t].state = "absent") = (entries[t].state = "absent")
             /\ since'[t] \in 0..Delay /\ gap'[t] \in 0..Horizon /\ last'[t] = last[t]
             /\ Tells(entries'[t], last'[t], since'[t], gap'[t])
  <2> DEFINE e == entries[t]
             w == IF e.state = "absent" THEN 0 ELSE Older(e.waited, Delay)
             i == IF e.state = "absent" THEN 0 ELSE Older(e.idle, Horizon)
  <2>1. /\ e \in EntryStates /\ Tells(e, last[t], since[t], gap[t])
        /\ since[t] \in 0..Delay /\ gap[t] \in 0..Horizon
    BY DEF GreylistInd, GreylistTypes, Remembered
  <2>2. /\ entries'[t] = [[e EXCEPT !.waited = w] EXCEPT !.idle = i]
        /\ since'[t] = Older(since[t], Delay) /\ gap'[t] = Older(gap[t], Horizon)
        /\ last' = last
    BY DEF GreylistTick
  <2>3. Delay \in Nat /\ Horizon \in Nat
    BY DEF Horizon
  <2>4. w \in 0..Delay /\ i \in 0..Horizon
    BY <2>1, <2>3 DEF Older, EntryStates
  <2>5. /\ entries'[t] \in EntryStates /\ entries'[t].state = e.state
        /\ entries'[t].waited = w /\ entries'[t].idle = i
    BY <2>1, <2>2, <2>4 DEF EntryStates
  <2>6. since'[t] \in 0..Delay /\ gap'[t] \in 0..Horizon /\ gap'[t] >= gap[t] /\ since'[t] >= since[t]
    BY <2>1, <2>2, <2>3 DEF Older
  <2>7. Tells(entries'[t], last'[t], since'[t], gap'[t])
    <3>1. CASE e.state = "absent"
      <4>1. entries'[t] = NoEntry
        BY <2>1, <2>2, <3>1 DEF Tells, NoEntry
      <4> QED BY <2>1, <2>2, <2>3, <2>6, <3>1, <4>1 DEF Tells, NoEntry
    <3>2. CASE e.state = "pending"
      BY <2>1, <2>2, <2>5, <3>2 DEF Tells
    <3>3. CASE e.state = "passed"
      BY <2>1, <2>2, <2>3, <2>5, <2>6, <3>3 DEF Tells
    <3> QED BY <2>1, <3>1, <3>2, <3>3 DEF EntryStates
  <2> QED BY <2>2, <2>5, <2>6, <2>7
<1>2. GreylistTypes'
  <2>1. /\ entries' = [t \in Triplets |-> entries'[t]]
        /\ since' = [t \in Triplets |-> since'[t]]
        /\ gap' = [t \in Triplets |-> gap'[t]]
    BY DEF GreylistTick
  <2>2. decision' \in [of : Triplets, is : Decisions] /\ last' \in [Triplets -> Decisions]
    BY DEF GreylistTick, GreylistInd, GreylistTypes, Decisions
  <2> QED BY <1>1, <2>1, <2>2 DEF GreylistTypes
<1>3. Remembered'
  BY <1>1 DEF Remembered, Tells
<1>4. TableBounded'
  <2>1. Tracked(entries') = Tracked(entries)
    BY <1>1 DEF Tracked
  <2> QED BY <2>1 DEF GreylistInd, TableBounded, Tracked
<1> QED BY <1>2, <1>3, <1>4 DEF GreylistInd
-----------------------------------------------------------------------------
(* The theorems *)

\* The table starts empty, and nobody has asked.
LEMMA GreylistInitInd == GreylistInit => GreylistInd
<1> SUFFICES ASSUME GreylistInit PROVE GreylistInd
  OBVIOUS
<1> USE GreylistAssumption
<1>1. GreylistTypes
  BY DEF GreylistInit, GreylistTypes, EntryStates, NoEntry, Decisions, Horizon
<1>2. Tracked(entries) = {}
  BY DEF GreylistInit, Tracked, NoEntry
<1>3. TableBounded
  BY <1>2, FS_EmptySet DEF TableBounded
<1>4. Remembered
  BY DEF GreylistInit, Remembered, Tells, NoEntry
<1> QED BY <1>1, <1>3, <1>4 DEF GreylistInd

\* Every call of check() and every tick keeps the invariant.
LEMMA GreylistNextInd == GreylistInd /\ [GreylistNext]_greylistVars => GreylistInd'
<1> SUFFICES ASSUME GreylistInd, [GreylistNext]_greylistVars PROVE GreylistInd'
  OBVIOUS
<1>1. CASE UNCHANGED greylistVars
  BY <1>1 DEF greylistVars, GreylistInd, GreylistTypes, TableBounded, Remembered, Tells, Tracked
<1> QED BY <1>1, FirstInd, RetryInd, FullInd, GreylistTickInd DEF GreylistNext

\* The inductive invariant: the table is bounded and tells the history of each
\* triplet as far as it matters, though triplets share the table and any call
\* may prune all of it.
THEOREM GreylistInductive == GreylistSpec => []GreylistInd
<1> QED BY GreylistInitInd, GreylistNextInd, PTL DEF GreylistSpec

\* check() keeps the types and never tracks more than max_entries triplets,
\* whatever flood of triplets asks.
THEOREM GreylistTyped == GreylistSpec => []GreylistTypeOK
<1>1. GreylistInd => GreylistTypeOK
  BY DEF GreylistInd, GreylistTypes, TableBounded, GreylistTypeOK, EntryStates, Tracked
<1> QED BY <1>1, GreylistInductive, PTL

\* Who is asking at a step is the one for whom check() ran.
LEMMA AskSteps ==
    ASSUME GreylistInd, [GreylistNext]_greylistVars, NEW t \in Triplets,
           Asks(t), greylistVars' # greylistVars
    PROVE  First(t) \/ Retry(t) \/ Full(t)
<1>1. ~GreylistTick
  BY DEF GreylistTick, Asks, GreylistInd, GreylistTypes
<1>2. ASSUME NEW x \in Triplets, First(x) \/ Retry(x) \/ Full(x) PROVE x = t
  BY <1>2 DEF First, Retry, Full, Decide, Asks
<1> QED BY <1>1, <1>2 DEF GreylistNext

\* Nobody passes a table with room but after a deferral and the whole delay:
\* early retries, prunes and the calls of others cannot shorten it.
THEOREM AllowIsEarned == GreylistSpec => AllowEarned
<1> DEFINE Earned == \A t \in Triplets :
                        decision'.is = "allow" /\ Asks(t)
                            => last[t] \in {"defer", "allow"} /\ since[t] >= Delay
<1>1. GreylistInd /\ [GreylistNext]_greylistVars => [Earned]_greylistVars
  <2> SUFFICES ASSUME GreylistInd, [GreylistNext]_greylistVars, greylistVars' # greylistVars, NEW t \in Triplets,
                      decision'.is = "allow", Asks(t)
               PROVE  last[t] \in {"defer", "allow"} /\ since[t] >= Delay
    OBVIOUS
  <2>1. ~First(t) /\ ~Full(t)
    BY DEF First, Full, Decide
  <2>2. Retry(t)
    BY <2>1, AskSteps
  <2>3. Pruned[t].state = "passed" \/ Pruned[t].waited >= Delay
    BY <2>2 DEF Retry, Decide
  <2>4. Pruned[t] \in EntryStates /\ Tells(Pruned[t], last[t], since[t], gap[t])
        /\ Pruned[t].state # "absent"
    BY <2>2, PruneTells DEF Retry
  <2> QED BY <2>3, <2>4 DEF Tells, EntryStates
<1> HIDE DEF Earned
<1>2. GreylistSpec => [][Earned]_greylistVars
  BY <1>1, GreylistInductive, PTL DEF GreylistSpec
<1> QED BY <1>2 DEF AllowEarned, Earned

\* Who was deferred, waited and comes back in time is accepted, and who passed
\* stays accepted for pass_ttl, whatever others do to the shared table.
THEOREM RetryIsAccepted == GreylistSpec => RetryAccepted
<1> DEFINE Accepted == \A t \in Triplets : Asks(t) /\ Welcome(t) => decision'.is = "allow"
<1>1. GreylistInd /\ [GreylistNext]_greylistVars => [Accepted]_greylistVars
  <2> SUFFICES ASSUME GreylistInd, [GreylistNext]_greylistVars, greylistVars' # greylistVars, NEW t \in Triplets,
                      Asks(t), Welcome(t)
               PROVE  decision'.is = "allow"
    OBVIOUS
  <2>1. /\ entries[t] \in EntryStates /\ Tells(entries[t], last[t], since[t], gap[t])
        /\ gap[t] \in 0..Horizon
    BY DEF GreylistInd, GreylistTypes, Remembered
  <2>2. /\ Pruned[t] = entries[t] /\ entries[t].state # "absent"
        /\ entries[t].state = "passed" \/ entries[t].waited >= Delay
    <3>1. CASE last[t] = "defer" /\ since[t] >= Delay /\ gap[t] < PendingTtl
      <4>1. entries[t].state = "pending"
        BY GreylistAssumption, <2>1, <3>1 DEF Tells, EntryStates, Horizon
      <4> QED BY <2>1, <3>1, <4>1, PruneTells DEF Tells
    <3>2. CASE last[t] = "allow" /\ gap[t] < PassTtl
      <4>1. entries[t].state = "passed"
        BY GreylistAssumption, <2>1, <3>2 DEF Tells, EntryStates, Horizon
      <4> QED BY <3>2, <4>1, PruneTells
    <3> QED BY <3>1, <3>2 DEF Welcome
  <2>3. ~First(t) /\ ~Full(t)
    BY <2>2 DEF First, Full
  <2>4. Retry(t)
    BY <2>3, AskSteps
  <2> QED BY <2>2, <2>4 DEF Retry, Decide
<1> HIDE DEF Accepted
<1>2. GreylistSpec => [][Accepted]_greylistVars
  BY <1>1, GreylistInductive, PTL DEF GreylistSpec
<1> QED BY <1>2 DEF RetryAccepted, Accepted
-----------------------------------------------------------------------------
(* AuthThrottle *)


Record == [present : BOOLEAN, failures : 0..MaxFailures,
           locked : BOOLEAN, left : 0..Lockout, idle : 0..Lockout]

\* Whether record r, with n failures since its count began, satisfies the
\* invariant: the body of CountExact and RecordsMatch for one address.
Consistent(r, n) ==
    /\ r \in Record
    /\ n \in Nat
    /\ IF r.left > 0 THEN n >= MaxFailures /\ r.locked
       ELSE IF n > 0 THEN /\ r.failures = n
                          /\ n < MaxFailures
                          /\ r.present
                          /\ ~r.locked
                          /\ r.idle < Lockout
       ELSE r.locked \/ r.idle = Lockout \/ r.failures = 0

AllConsistent == \A ip \in Ips : Consistent(records[ip], attempts[ip])

ConnsOK ==
    /\ conn \in [Conns -> Connection \cup {Closed}]
    /\ records \in [Ips -> Record]
    /\ attempts \in [Ips -> Nat]

\* ThrottleInv, address by address.
LEMMA InvByAddress == ThrottleInv <=> ConnsOK /\ AllConsistent
BY DEF ThrottleInv, TypeOK, CountExact, RecordsMatch, ConnsOK, AllConsistent,
       Consistent, Locked, Record

-----------------------------------------------------------------------------
(* The operators on one record *)

\* An address without a record has a consistent one.
LEMMA NoRecordConsistent == Consistent(NoRecord, 0)
BY ThrottleAssumption DEF Consistent, NoRecord, Record

\* prune() loses no record that still counts.
LEMMA PruneConsistent ==
    ASSUME NEW r, NEW n, Consistent(r, n)
    PROVE  /\ Consistent(Prune(r), n)
           /\ Prune(r).left = 0 /\ n = 0 => Prune(r).locked \/ Prune(r).failures = 0
BY ThrottleAssumption, NoRecordConsistent DEF Consistent, Prune, NoRecord, Record

\* record_failure_at() on a pruned record.
LEMMA FailConsistent ==
    ASSUME NEW r, NEW n, Consistent(r, n),
           r.left = 0 /\ n = 0 => r.locked \/ r.failures = 0
    PROVE  Consistent(Fail(r), n + 1)
<1> DEFINE count == IF r.locked THEN 1 ELSE r.failures + 1
<1> USE ThrottleAssumption
<1>1. CASE r.left > 0
  <2>1. r.failures \in 0..MaxFailures /\ r.left \in 0..Lockout /\ r.locked \in BOOLEAN /\ r.locked
    BY <1>1 DEF Consistent, Record
  <2> DEFINE q == Failed(r.failures, r.locked, r.left)
  <2>2. q \in Record /\ q.left = r.left /\ q.locked
    BY <2>1 DEF Failed, Record
  <2>3. Fail(r) = q
    BY <1>1 DEF Fail
  <2> HIDE DEF q
  <2> QED BY <1>1, <2>2, <2>3 DEF Consistent
<1>2. CASE ~(r.left > 0)
  <2>1. count = n + 1 /\ count \in 1..MaxFailures /\ count \in 0..MaxFailures
    BY <1>2 DEF Consistent, Record
  <2>2. CASE count >= MaxFailures
    <3> DEFINE q == Failed(count, TRUE, Lockout)
    <3>1. Fail(r) = q
      BY <1>2, <2>2 DEF Fail
    <3> HIDE DEF count
    <3>2. q \in Record /\ q.left = Lockout /\ q.locked
      BY <2>1 DEF Failed, Record
    <3> HIDE DEF q
    <3> QED BY <3>1, <3>2, <2>1, <2>2 DEF Consistent
  <2>3. CASE ~(count >= MaxFailures)
    <3> DEFINE q == Failed(count, FALSE, 0)
    <3>1. Fail(r) = q
      BY <1>2, <2>3 DEF Fail
    <3> HIDE DEF count
    <3>2. q \in Record /\ q.left = 0 /\ q.failures = count /\ q.idle = 0
      BY <2>1 DEF Failed, Record
    <3>3. q.present /\ ~q.locked
      BY <2>1 DEF Failed, Record
    <3> HIDE DEF q
    <3> QED BY <3>1, <3>2, <3>3, <2>1, <2>3 DEF Consistent
  <2> QED BY <2>2, <2>3
<1> QED BY <1>1, <1>2

-----------------------------------------------------------------------------
(* The steps *)

\* record_failure() keeps the record consistent with the failures counted.
LEMMA RecordFailureConsistent ==
    ASSUME NEW ip \in Ips, ConnsOK, AllConsistent, RecordFailure(ip),
           attempts' = [attempts EXCEPT ![ip] = @ + 1]
    PROVE  AllConsistent' /\ records' \in [Ips -> Record] /\ attempts' \in [Ips -> Nat]
<1>1. \A i \in Ips : Consistent(records'[i], attempts'[i])
  <2> TAKE i \in Ips
  <2>1. Consistent(Prune(records[i]), attempts[i])
        /\ (Prune(records[i]).left = 0 /\ attempts[i] = 0
              => Prune(records[i]).locked \/ Prune(records[i]).failures = 0)
    BY PruneConsistent DEF AllConsistent
  <2>2. CASE i = ip
    BY <2>1, <2>2, FailConsistent DEF RecordFailure, ConnsOK
  <2>3. CASE i # ip
    BY <2>1, <2>3 DEF RecordFailure, ConnsOK
  <2> QED BY <2>2, <2>3
<1>2. records' = [i \in Ips |-> records'[i]] /\ attempts' \in [Ips -> Nat]
  BY DEF RecordFailure, ConnsOK
<1> QED BY <1>1, <1>2 DEF AllConsistent, Consistent

\* So does the passing of time.
LEMMA TickConsistent ==
    ASSUME ConnsOK, AllConsistent, Tick
    PROVE  AllConsistent' /\ ConnsOK'
<1>1. ASSUME NEW r, NEW n, Consistent(r, n)
      PROVE  Consistent(Aged(r), IF Anew(r) THEN 0 ELSE n)
  <2>1. r \in Record
    BY <1>1 DEF Consistent
  <2>2. /\ Aged(r) \in Record
        /\ Aged(r).left = IF r.left > 0 THEN r.left - 1 ELSE 0
        /\ Aged(r).idle = IF r.present /\ r.idle < Lockout THEN r.idle + 1 ELSE r.idle
        /\ Aged(r).present = r.present
        /\ Aged(r).locked = r.locked
        /\ Aged(r).failures = r.failures
    BY ThrottleAssumption, <2>1 DEF Aged, Record
  <2> QED BY ThrottleAssumption, <1>1, <2>2 DEF Consistent, Record, Anew
<1>2. \A ip \in Ips : Consistent(records'[ip], attempts'[ip])
  BY <1>1 DEF Tick, AllConsistent
<1>3. /\ records' \in [Ips -> Record]
      /\ attempts' \in [Ips -> Nat]
      /\ conn' = conn
  BY <1>2 DEF Tick, Consistent, ConnsOK
<1> QED BY <1>2, <1>3 DEF AllConsistent, ConnsOK

\* Every step preserves the invariant.
LEMMA NextInv ==
    ASSUME ConnsOK, AllConsistent, [ThrottleNext]_throttleVars
    PROVE  ConnsOK' /\ AllConsistent'
<1> USE ThrottleAssumption
<1>1. ASSUME NEW c \in Conns, NEW ip \in Ips, NEW proto \in Protocols, Open(c, ip, proto)
      PROVE  ConnsOK' /\ AllConsistent'
  BY <1>1 DEF Open, ConnsOK, AllConsistent, Connection
<1>2. ASSUME NEW c \in Conns, Close(c) \/ User(c) \/ Check(c) \/ Malformed(c)
      PROVE  ConnsOK' /\ AllConsistent'
  BY <1>2 DEF Close, User, Check, Malformed, Resume, At, ConnsOK, AllConsistent,
              Connection
<1>3. ASSUME NEW c \in Conns, Success(c)
      PROVE  ConnsOK' /\ AllConsistent'
  <2>1. conn[c] \in Connection /\ conn[c].ip \in Ips
    BY <1>3 DEF Success, At, ConnsOK, Connection
  <2>2. conn' \in [Conns -> Connection \cup {Closed}]
    BY <1>3, <2>1 DEF Success, Resume, ConnsOK, Connection
  <2>3. NoRecord \in Record
    BY NoRecordConsistent DEF Consistent
  <2>4. /\ records' \in [Ips -> Record]
        /\ attempts' \in [Ips -> Nat]
    BY <1>3, <2>1, <2>3 DEF Success, ConnsOK
  <2>5. AllConsistent'
    BY <1>3, <2>1, NoRecordConsistent DEF Success, AllConsistent, ConnsOK
  <2> QED BY <2>2, <2>4, <2>5 DEF ConnsOK
<1>4. ASSUME NEW c \in Conns, Failure(c) \/ Misuse(c)
      PROVE  ConnsOK' /\ AllConsistent'
  <2>1. conn[c] \in Connection /\ conn[c].ip \in Ips
    BY <1>4 DEF Failure, Misuse, At, ConnsOK, Connection
  <2>2. conn' \in [Conns -> Connection \cup {Closed}]
    BY <1>4, <2>1 DEF Failure, Misuse, Resume, ConnsOK, Connection
  <2>3. RecordFailure(conn[c].ip) /\ attempts' = [attempts EXCEPT ![conn[c].ip] = @ + 1]
    BY <1>4 DEF Failure, Misuse
  <2>4. AllConsistent' /\ records' \in [Ips -> Record] /\ attempts' \in [Ips -> Nat]
    BY <2>1, <2>3, RecordFailureConsistent
  <2> QED BY <2>2, <2>4 DEF ConnsOK
<1>5. CASE Tick
  BY <1>5, TickConsistent
<1>6. CASE UNCHANGED throttleVars
  BY <1>6 DEF throttleVars, ConnsOK, AllConsistent
<1> QED BY <1>1, <1>2, <1>3, <1>4, <1>5, <1>6 DEF ThrottleNext

\* The records and the history of what record_failure() was told agree, however
\* the failures of others prune the table (record_failure_at, prune).
THEOREM CountsExact == ThrottleSpec => []ThrottleInv
<1>1. ThrottleInit => ThrottleInv
  <2> SUFFICES ASSUME ThrottleInit PROVE ConnsOK /\ AllConsistent
    BY InvByAddress
  <2>1. NoRecord \in Record
    BY NoRecordConsistent DEF Consistent
  <2> QED BY <2>1, NoRecordConsistent DEF ThrottleInit, ConnsOK, AllConsistent
<1>2. ThrottleInv /\ [ThrottleNext]_throttleVars => ThrottleInv'
  <2> SUFFICES ASSUME ConnsOK /\ AllConsistent, [ThrottleNext]_throttleVars
               PROVE  ThrottleInv'
    BY InvByAddress
  <2>1. ConnsOK' /\ AllConsistent'
    BY NextInv
  <2> QED BY <2>1 DEF ThrottleInv, TypeOK, CountExact, RecordsMatch, ConnsOK,
                      AllConsistent, Consistent, Locked, Record
<1> QED BY <1>1, <1>2, PTL DEF ThrottleSpec

\* The guesses are among the recorded attempts.
LEMMA GuessesRecordedHolds == ThrottleSpec => []GuessesRecorded
<1>1. ThrottleInit => GuessesRecorded
  BY DEF ThrottleInit, GuessesRecorded
<1>2. ThrottleInv /\ GuessesRecorded /\ [ThrottleNext]_throttleVars => GuessesRecorded'
  <2> SUFFICES ASSUME ConnsOK, GuessesRecorded, [ThrottleNext]_throttleVars
               PROVE  GuessesRecorded'
    BY InvByAddress
  <2>1. /\ attempts \in [Ips -> Nat] /\ guesses \in [Ips -> Nat]
        /\ \A ip \in Ips : guesses[ip] <= attempts[ip]
    BY DEF ConnsOK, GuessesRecorded
  <2>2. ASSUME UNCHANGED <<attempts, guesses>> PROVE GuessesRecorded'
    BY <2>1, <2>2 DEF GuessesRecorded
  <2>3. ASSUME NEW c \in Conns, Success(c) PROVE GuessesRecorded'
    <3> DEFINE ip == conn[c].ip
    <3>1. attempts' = [attempts EXCEPT ![ip] = 0] /\ guesses' = [guesses EXCEPT ![ip] = 0]
      BY <2>3 DEF Success
    <3> HIDE DEF ip
    <3>2. guesses' \in [Ips -> Nat]
      BY <2>1, <3>1
    <3>3. \A i \in Ips : guesses'[i] <= attempts'[i]
      BY <2>1, <3>1
    <3> QED BY <3>2, <3>3 DEF GuessesRecorded
  <2>4. ASSUME NEW c \in Conns, Failure(c) PROVE GuessesRecorded'
    <3> DEFINE ip == conn[c].ip
    <3>1. attempts' = [attempts EXCEPT ![ip] = @ + 1] /\ guesses' = [guesses EXCEPT ![ip] = @ + 1]
      BY <2>4 DEF Failure
    <3>0. ip \in Ips
      BY <2>4 DEF Failure, At, ConnsOK, Connection
    <3> HIDE DEF ip
    <3>2. guesses' \in [Ips -> Nat]
      BY <2>1, <3>0, <3>1
    <3>3. \A i \in Ips : guesses'[i] <= attempts'[i]
      BY <2>1, <3>1
    <3> QED BY <3>2, <3>3 DEF GuessesRecorded
  <2>5. ASSUME NEW c \in Conns, Misuse(c) PROVE GuessesRecorded'
    BY <2>1, <2>5 DEF Misuse, GuessesRecorded
  <2>6. CASE Tick
    BY <2>1, <2>6 DEF Tick, GuessesRecorded
  <2> QED BY <2>2, <2>3, <2>4, <2>5, <2>6
       DEF ThrottleNext, Open, Close, User, Check, Malformed, throttleVars
<1> QED BY <1>1, <1>2, CountsExact, PTL DEF ThrottleSpec

\* Every wrong password of an address is counted until its lock, whatever other
\* addresses do and whatever else it sends, and a client that sends nothing else
\* is locked out exactly when MaxFailures of them were counted
\* (record_failure_at, prune, record_success; the loops of serve.rs).
THEOREM GuessesAreCounted == ThrottleSpec => []GuessesCounted
<1>1. ThrottleInv /\ GuessesRecorded => GuessesCounted
  <2> SUFFICES ASSUME ThrottleInv, GuessesRecorded, NEW ip \in Ips
               PROVE  /\ ~Locked(ip) => guesses[ip] < MaxFailures /\ guesses[ip] <= records[ip].failures
                      /\ guesses[ip] = attempts[ip] =>
                            IF Locked(ip) THEN guesses[ip] >= MaxFailures
                            ELSE guesses[ip] > 0 => records[ip].failures = guesses[ip]
    BY DEF GuessesCounted
  <2>1. /\ attempts[ip] \in Nat /\ guesses[ip] \in Nat /\ guesses[ip] <= attempts[ip]
        /\ records[ip].failures \in Nat
    BY ThrottleAssumption DEF ThrottleInv, TypeOK, GuessesRecorded
  <2>2. IF Locked(ip) THEN attempts[ip] >= MaxFailures
        ELSE attempts[ip] > 0 => records[ip].failures = attempts[ip] /\ attempts[ip] < MaxFailures
    BY DEF ThrottleInv, CountExact
  <2> QED BY <2>1, <2>2, ThrottleAssumption
<1> QED BY <1>1, CountsExact, GuessesRecordedHolds, PTL

-----------------------------------------------------------------------------
(* The race between check and record *)

\* The attempts under way are finitely many.
LEMMA InFlightFinite ==
    ASSUME NEW ip
    PROVE  /\ IsFiniteSet(InFlight(ip))
           /\ Cardinality(InFlight(ip)) \in Nat
           /\ Cardinality(Conns) \in Nat
           /\ Cardinality(InFlight(ip)) <= Cardinality(Conns)
<1>1. InFlight(ip) \in SUBSET Conns
  BY DEF InFlight
<1> QED BY ThrottleAssumption, <1>1, FS_Subset, FS_CardinalityType

\* The same for the next state.
LEMMA InFlightFiniteNext ==
    ASSUME NEW ip
    PROVE  /\ IsFiniteSet(InFlight(ip)')
           /\ Cardinality(InFlight(ip)') \in Nat
           /\ Cardinality(InFlight(ip)') <= Cardinality(Conns)
<1>1. InFlight(ip)' \in SUBSET Conns
  BY DEF InFlight
<1> QED BY ThrottleAssumption, <1>1, FS_Subset, FS_CardinalityType

\* While an address is locked out, a step lets no further connection of it
\* through; one that is through leaves when its failure is recorded.
LEMMA LockedStep ==
    ASSUME ConnsOK, AllConsistent, [ThrottleNext]_throttleVars,
           NEW ip \in Ips, Locked(ip)'
    PROVE  \/ InFlight(ip)' \subseteq InFlight(ip) /\ attempts'[ip] <= attempts[ip]
           \/ \E c \in InFlight(ip) : /\ InFlight(ip)' = InFlight(ip) \ {c}
                                      /\ attempts'[ip] = attempts[ip] + 1
<1> USE ThrottleAssumption
<1>0. attempts[ip] \in Nat /\ records[ip] \in Record /\ DOMAIN attempts = Ips
  BY DEF ConnsOK
<1>1. ASSUME NEW c \in Conns, NEW i \in Ips, NEW proto \in Protocols, Open(c, i, proto)
      PROVE  InFlight(ip)' \subseteq InFlight(ip) /\ attempts'[ip] <= attempts[ip]
  BY <1>0, <1>1 DEF Open, InFlight, At, ConnsOK
<1>2. ASSUME NEW c \in Conns, Close(c) \/ User(c) \/ Malformed(c)
      PROVE  InFlight(ip)' \subseteq InFlight(ip) /\ attempts'[ip] <= attempts[ip]
  <2>1. attempts'[ip] <= attempts[ip]
    BY <1>0, <1>2 DEF Close, User, Malformed
  <2>2. CASE Close(c)
    BY <2>1, <2>2 DEF Close, InFlight, At, ConnsOK
  <2>3. CASE User(c)
    BY <2>1, <2>3 DEF User, InFlight, At, ConnsOK, Connection
  <2>4. CASE Malformed(c)
    BY <2>1, <2>4 DEF Malformed, Resume, InFlight, At, ConnsOK, Connection
  <2> QED BY <1>2, <2>2, <2>3, <2>4
<1>3. ASSUME NEW c \in Conns, Check(c)
      PROVE  InFlight(ip)' \subseteq InFlight(ip) /\ attempts'[ip] <= attempts[ip]
  <2>1. Locked(ip) /\ attempts'[ip] <= attempts[ip]
    BY <1>0, <1>3 DEF Check, Locked
  <2>2. CASE Locked(conn[c].ip)
    BY <1>3, <2>1, <2>2 DEF Check, InFlight, At, ConnsOK
  <2>3. CASE ~Locked(conn[c].ip)
    <3>1. conn[c].ip # ip /\ conn[c] \in Connection
      BY <1>3, <2>1, <2>3 DEF Check, At, ConnsOK
    <3>2. conn' = [conn EXCEPT ![c].pc = "checked"]
      BY <1>3, <2>3 DEF Check
    <3>3. conn'[c].ip = conn[c].ip /\ \A d \in Conns \ {c} : conn'[d] = conn[d]
      BY <3>1, <3>2 DEF ConnsOK, Connection
    <3> QED BY <2>1, <3>1, <3>3 DEF InFlight, At
  <2> QED BY <2>2, <2>3
<1>4. ASSUME NEW c \in Conns, Success(c)
      PROVE  InFlight(ip)' \subseteq InFlight(ip) /\ attempts'[ip] <= attempts[ip]
  BY <1>0, <1>4 DEF Success, Resume, InFlight, At, ConnsOK, Connection
<1>5. ASSUME NEW c \in Conns, Failure(c) \/ Misuse(c)
      PROVE  \/ InFlight(ip)' \subseteq InFlight(ip) /\ attempts'[ip] <= attempts[ip]
             \/ \E d \in InFlight(ip) : /\ InFlight(ip)' = InFlight(ip) \ {d}
                                        /\ attempts'[ip] = attempts[ip] + 1
  <2>1. /\ conn[c] # Closed
        /\ conn[c].pc = "checked"
        /\ conn[c] \in Connection
        /\ attempts' = [attempts EXCEPT ![conn[c].ip] = @ + 1]
    BY <1>5 DEF Failure, Misuse, At, ConnsOK
  <2>2. \E session \in {"none", "user", "mailbox"} :
            conn' = [conn EXCEPT ![c].pc = "command", ![c].session = session]
    BY <1>5, <2>1 DEF Failure, Misuse, Resume, Connection
  <2>3. /\ conn'[c].pc = "command"
        /\ \A d \in Conns \ {c} : conn'[d] = conn[d]
    BY <2>1, <2>2 DEF ConnsOK, Connection
  <2>4. CASE conn[c].ip = ip
    <3>1. c \in InFlight(ip) /\ InFlight(ip)' = InFlight(ip) \ {c}
      BY <2>1, <2>3, <2>4 DEF InFlight, At
    <3>2. attempts'[ip] = attempts[ip] + 1
      BY <1>0, <2>1, <2>4
    <3> QED BY <3>1, <3>2
  <2>5. CASE conn[c].ip # ip
    <3>1. InFlight(ip)' \subseteq InFlight(ip)
      BY <2>1, <2>3 DEF InFlight, At
    <3>2. attempts'[ip] = attempts[ip]
      BY <1>0, <2>1, <2>5
    <3> QED BY <1>0, <3>1, <3>2
  <2> QED BY <2>4, <2>5
<1>6. CASE Tick
  BY <1>0, <1>6 DEF Tick, InFlight, At
<1>7. CASE UNCHANGED throttleVars
  BY <1>0, <1>7 DEF throttleVars, InFlight, At
<1> QED BY <1>1, <1>2, <1>3, <1>4, <1>5, <1>6, <1>7 DEF ThrottleNext

\* However many connections of one address are between their check and their
\* record, at most one guess for each of them is evaluated beyond MaxFailures
\* (serve_submission, serve_pop and serve_imap over check and record_failure).
THEOREM GuessesAreBounded == ThrottleSpec => []GuessesBounded
<1> USE ThrottleAssumption
<1>1. ThrottleInit => ThrottleInv /\ GuessesBounded
  <2> SUFFICES ASSUME ThrottleInit PROVE ThrottleInv /\ GuessesBounded
    OBVIOUS
  <2>1. NoRecord \in Record
    BY NoRecordConsistent DEF Consistent
  <2>2. ThrottleInv
    BY <2>1, NoRecordConsistent, InvByAddress DEF ThrottleInit, ConnsOK, AllConsistent
  <2>3. \A ip \in Ips : attempts[ip] = 0
    BY DEF ThrottleInit
  <2> QED BY <2>2, <2>3, InFlightFinite DEF GuessesBounded
<1>2. ThrottleInv /\ GuessesBounded /\ [ThrottleNext]_throttleVars => (ThrottleInv /\ GuessesBounded)'
  <2> SUFFICES ASSUME ConnsOK, AllConsistent, GuessesBounded, [ThrottleNext]_throttleVars
               PROVE  (ThrottleInv /\ GuessesBounded)'
    BY InvByAddress
  <2>1. ConnsOK' /\ AllConsistent'
    BY NextInv
  <2>2. ThrottleInv'
    BY <2>1 DEF ThrottleInv, TypeOK, CountExact, RecordsMatch, ConnsOK,
                AllConsistent, Consistent, Locked, Record
  <2>3. ASSUME NEW ip \in Ips
        PROVE  attempts'[ip] + Cardinality(InFlight(ip)') <= MaxFailures - 1 + Cardinality(Conns)
    <3> DEFINE before == Cardinality(InFlight(ip))
               after  == Cardinality(InFlight(ip)')
    <3>1. /\ before \in Nat
          /\ after \in Nat
          /\ Cardinality(Conns) \in Nat
          /\ after <= Cardinality(Conns)
          /\ attempts[ip] \in Nat
          /\ attempts'[ip] \in Nat
          /\ attempts[ip] + before <= MaxFailures - 1 + Cardinality(Conns)
      BY <2>1, InFlightFinite, InFlightFiniteNext DEF ConnsOK,
                                                                           GuessesBounded
    <3>2. CASE ~Locked(ip)'
      <4>1. attempts'[ip] <= MaxFailures - 1
        BY <2>2, <3>1, <3>2 DEF ThrottleInv, CountExact
      <4> QED BY <3>1, <4>1
    <3>3. CASE Locked(ip)' /\ InFlight(ip)' \subseteq InFlight(ip) /\ attempts'[ip] <= attempts[ip]
      <4>1. after <= before
        BY <3>3, FS_Subset, InFlightFinite
      <4> QED BY <3>1, <3>3, <4>1
    <3>4. ASSUME NEW c \in InFlight(ip), InFlight(ip)' = InFlight(ip) \ {c},
                 attempts'[ip] = attempts[ip] + 1
          PROVE  attempts'[ip] + after <= MaxFailures - 1 + Cardinality(Conns)
      <4>1. Cardinality(InFlight(ip) \ {c}) = before - 1
        <5>1. IsFiniteSet(InFlight(ip))
          BY InFlightFinite
        <5> QED BY <3>4, <5>1, FS_RemoveElement
      <4>2. after = before - 1
        BY <3>4, <4>1
      <4> QED BY <3>1, <3>4, <4>2
    <3> QED BY <3>2, <3>3, <3>4, LockedStep
  <2> QED BY <2>2, <2>3 DEF GuessesBounded
<1> QED BY <1>1, <1>2, PTL DEF ThrottleSpec
-----------------------------------------------------------------------------
(* Locks *)

\* A lock is neither prolonged by a failure that was under way nor ended by
\* anybody's pruning; only time and a login whose check came before it end it
\* (record_failure_at, prune, record_success).
THEOREM LocksAreHeld == ThrottleSpec => LockHeld
<1> DEFINE Held(ip) ==
             \/ records'[ip].left \in {records[ip].left, records[ip].left - 1}
             \/ /\ records'[ip].left = 0
                /\ attempts'[ip] = 0
                /\ \E c \in InFlight(ip) : c \notin InFlight(ip)'
           AllHeld == \A ip \in Ips : Locked(ip) => Held(ip)
<1>1. ThrottleInv /\ [ThrottleNext]_throttleVars => [AllHeld]_throttleVars
  <2> SUFFICES ASSUME ConnsOK, AllConsistent, [ThrottleNext]_throttleVars, NEW ip \in Ips, Locked(ip)
               PROVE  Held(ip)
    BY InvByAddress
  <2>1. records[ip] \in Record /\ records[ip].left > 0 /\ records[ip].left \in 0..Lockout
    BY DEF ConnsOK, Record, Locked
  <2>2. ASSUME UNCHANGED records PROVE Held(ip)
    BY <2>2
  <2>3. ASSUME NEW c \in Conns, Success(c) PROVE Held(ip)
    <3>1. conn[c] \in Connection /\ conn[c] # Closed /\ conn[c].pc = "checked"
      BY <2>3 DEF Success, At, ConnsOK
    <3>2. CASE conn[c].ip = ip
      <4>1. records'[ip] = NoRecord /\ attempts'[ip] = 0
        BY <2>3, <3>2 DEF Success, ConnsOK
      <4>2. conn'[c].pc = "command"
        BY <2>3, <3>1 DEF Success, Resume, ConnsOK, Connection
      <4>3. c \in InFlight(ip) /\ c \notin InFlight(ip)'
        BY <3>1, <3>2, <4>2 DEF InFlight, At
      <4> QED BY <4>1, <4>3 DEF NoRecord
    <3>3. CASE conn[c].ip # ip
      BY <2>3, <3>3 DEF Success, ConnsOK
    <3> QED BY <3>2, <3>3
  <2>4. ASSUME NEW c \in Conns, Failure(c) \/ Misuse(c) PROVE Held(ip)
    <3>1. RecordFailure(conn[c].ip)
      BY <2>4 DEF Failure, Misuse
    <3>2. Prune(records[ip]) = records[ip]
      BY <2>1 DEF Prune
    <3>3. records'[ip] = Fail(records[ip]) \/ records'[ip] = records[ip]
      BY <3>1, <3>2 DEF RecordFailure
    <3>4. Fail(records[ip]).left = records[ip].left
      BY <2>1 DEF Fail, Failed
    <3> QED BY <3>3, <3>4
  <2>5. CASE Tick
    BY <2>1, <2>5 DEF Tick, Aged
  <2> QED BY <2>2, <2>3, <2>4, <2>5
       DEF ThrottleNext, Open, Close, User, Check, Malformed, throttleVars
<1> HIDE DEF AllHeld
<1>2. ThrottleSpec => [][AllHeld]_throttleVars
  BY <1>1, CountsExact, PTL DEF ThrottleSpec
<1> QED BY <1>2 DEF LockHeld, AllHeld
=============================================================================
