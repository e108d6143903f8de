---------------------------- MODULE SpoolProofs ----------------------------
(***************************************************************************)
(* Proofs about the outbound spool and its relay worker, for every number  *)
(* of messages, crashes and I/O failures and every retry schedule.         *)
(*                                                                         *)
(* None of the safety properties is inductive by itself.  SpoolInv is: it  *)
(* says which combinations of the two files and the marker an entry can be *)
(* in (DiskInv), what the worker knows at each of its control points       *)
(* (WorkerInv, SnapshotInv), and how the notices and the counters follow   *)
(* the files (NoticeInv, LoopInv, CountInv).  The properties, and the      *)
(* refinement of the abstract queue, are corollaries.                      *)
(***************************************************************************)
EXTENDS SpoolInduction, TLAPS

USE SpoolAssumption DEF files, entry, worker, hist, vars, Goto, Ok, Fault

\* Ids stays folded in the step proofs; this is all they need to know of it.
LEMMA IdsPositive == Ids \subseteq Nat \ {0}
  BY DEF Ids

\* A backoff is a whole number of time units.
LEMMA BackoffType == \A n \in Nat : Backoff(n) \in Int
  BY DEF Backoff, Min2

-----------------------------------------------------------------------------
(* Initial states *)

\* The empty spool directory of a first start satisfies the invariant.
LEMMA InitInv == Init => SpoolInv
<1> SUFFICES ASSUME Init PROVE SpoolInv
  OBVIOUS
<1> USE IdsPositive DEF Init
<1>1. TypeOK
  BY DEF TypeOK, Places, Senders, WorkerPcs, RecoveryPcs, Idle
<1>2. DiskInv
  BY DEF DiskInv, UncommittedInv, CommittedInv, WorkerInv, SnapshotInv,
         Committed, Queued, Idle, RecoveryPcs
<1>3. NoticeInv
  BY DEF NoticeInv, Abandoned
<1>4. \A id \in Ids : LoopInv(id) /\ CountInv(id)
  BY DEF LoopInv, CountInv, Unrecorded, Undeleted, Committed, Queued
<1> QED
  BY <1>1, <1>2, <1>3, <1>4 DEF SpoolInv

-----------------------------------------------------------------------------
(* Steps *)

\* Every step preserves the types.
LEMMA TypeStep == TypeOK /\ [Next]_vars => TypeOK'
<1> SUFFICES ASSUME TypeOK, [Next]_vars PROVE TypeOK'
  OBVIOUS
<1> USE DEF TypeOK, Places, Senders, WorkerPcs, RecoveryPcs, Idle
<1>1. CASE Submit
  BY <1>1 DEF Submit, EnqueueBody, IsNewId
<1>2. CASE Scan
  BY <1>2 DEF Scan, DueNow
<1>3. CASE ScanFails
  BY <1>3 DEF ScanFails
<1>4. CASE Load
  BY <1>4 DEF Load
<1>5. CASE RelayDelivered
  BY <1>5 DEF Attempt, RelayDelivered
<1>6. CASE RelayDeferred
  BY <1>6 DEF Attempt, RelayDeferred
<1>7. CASE RelayFailed
  BY <1>7 DEF Attempt, RelayFailed
<1>8. CASE RemoveEml
  BY <1>8 DEF RemoveEml
<1>9. CASE RemoveCtrl
  BY <1>9 DEF RemoveCtrl
<1>10. CASE Defer
  BY <1>10, BackoffType DEF Defer
<1>11. CASE NotifyNobody
  BY <1>11 DEF NotifyNobody
<1>12. CASE NotifyLocal
  BY <1>12 DEF NotifyLocal
<1>13. CASE NotifyRemote
  BY <1>13 DEF NotifyRemote, EnqueueBody, IsNewId
<1>14. CASE NotifyRemoteDone
  BY <1>14 DEF NotifyRemoteDone
<1>15. CASE BounceMark
  <2>1. marker' \in [Ids -> BOOLEAN]
    BY <1>15 DEF BounceMark
  <2> QED
    BY <1>15, <2>1 DEF BounceMark
<1>16. CASE RelocateEml
  BY <1>16 DEF RelocateEml, Moved, AfterError
<1>17. CASE RelocateCtrl
  BY <1>17 DEF RelocateCtrl, Moved, AfterError
<1>18. CASE BounceUnmark
  <2>1. marker' \in [Ids -> BOOLEAN]
    BY <1>18 DEF BounceUnmark, AfterError
  <2> QED
    BY <1>18, <2>1 DEF BounceUnmark, AfterError
<1>19. CASE RecoverNext
  BY <1>19 DEF RecoverNext
<1>20. CASE RecoverDone
  BY <1>20 DEF RecoverDone
<1>21. CASE PassDone
  BY <1>21 DEF PassDone
<1>22. CASE ReapDone
  BY <1>22 DEF ReapDone
<1>23. CASE Crash
  BY <1>23 DEF Crash
<1>24. CASE Restart
  BY <1>24 DEF Restart
<1>25. CASE Tick
  BY <1>25 DEF Tick, Older, Min2
<1>26. ASSUME NEW id \in Ids, EnqueueCommit(id) PROVE TypeOK'
  BY <1>26 DEF EnqueueCommit
<1>27. ASSUME NEW id \in Ids, ReapEml(id) PROVE TypeOK'
  BY <1>27 DEF ReapEml, AgedEml
<1>28. ASSUME NEW id \in Ids, ReapCtrl(id) PROVE TypeOK'
  BY <1>28 DEF ReapCtrl, AgedCtrl
<1>29. CASE UNCHANGED vars
  BY <1>29
<1> QED
  BY <1>1, <1>2, <1>3, <1>4, <1>5, <1>6, <1>7, <1>8, <1>9, <1>10, <1>11,
     <1>12, <1>13, <1>14, <1>15, <1>16, <1>17, <1>18, <1>19, <1>20, <1>21,
     <1>22, <1>23, <1>24, <1>25, <1>26, <1>27, <1>28, <1>29
     DEF Next, Step, WorkerStep

\* Every step keeps the files of every entry, the worker's knowledge of the
\* current one and its snapshot consistent.
LEMMA DiskStep == SpoolInv /\ TypeOK' /\ [Next]_vars => DiskInv'
<1> SUFFICES ASSUME SpoolInv, TypeOK', [Next]_vars PROVE DiskInv'
  OBVIOUS
<1> USE DEF SpoolInv, DiskInv, TypeOK, Idle, WorkerPcs, RecoveryPcs, Places, Senders
<1>1. CASE Submit
  BY <1>1
     DEF Submit, EnqueueBody, IsNewId, UncommittedInv, CommittedInv,
        WorkerInv, Committed, Queued, SnapshotInv
<1>2. CASE Scan
  BY <1>2
     DEF Scan, DueNow, UncommittedInv, CommittedInv, WorkerInv, Committed,
        Queued, SnapshotInv
<1>3. CASE ScanFails
  BY <1>3
     DEF ScanFails, UncommittedInv, CommittedInv, WorkerInv, Committed,
        Queued, SnapshotInv
<1>4. CASE Load
  BY <1>4
     DEF Load, UncommittedInv, CommittedInv, WorkerInv, Committed, Queued,
        SnapshotInv
<1>5. CASE RelayDelivered
  BY <1>5
     DEF Attempt, RelayDelivered, UncommittedInv, CommittedInv, WorkerInv, Committed,
        Queued, SnapshotInv
<1>6. CASE RelayDeferred
  BY <1>6
     DEF Attempt, RelayDeferred, UncommittedInv, CommittedInv, WorkerInv, Committed,
        Queued, SnapshotInv
<1>7. CASE RelayFailed
  BY <1>7
     DEF Attempt, RelayFailed, UncommittedInv, CommittedInv, WorkerInv, Committed,
        Queued, SnapshotInv
<1>8. CASE RemoveEml
  BY <1>8
     DEF RemoveEml, UncommittedInv, CommittedInv, WorkerInv, Committed,
        Queued, SnapshotInv
<1>9. CASE RemoveCtrl
  BY <1>9
     DEF RemoveCtrl, UncommittedInv, CommittedInv, WorkerInv, Committed,
        Queued, SnapshotInv
<1>10. CASE Defer
  BY <1>10, BackoffType
     DEF Defer, UncommittedInv, CommittedInv, WorkerInv, Committed, Queued,
        SnapshotInv
<1>11. CASE NotifyNobody
  BY <1>11
     DEF NotifyNobody, UncommittedInv, CommittedInv, WorkerInv, Committed,
        Queued, SnapshotInv
<1>12. CASE NotifyLocal
  BY <1>12
     DEF NotifyLocal, UncommittedInv, CommittedInv, WorkerInv, Committed,
        Queued, SnapshotInv
<1>13. CASE NotifyRemote
  BY <1>13
     DEF NotifyRemote, EnqueueBody, IsNewId, UncommittedInv, CommittedInv,
        WorkerInv, Committed, Queued, SnapshotInv
<1>14. CASE NotifyRemoteDone
  BY <1>14
     DEF NotifyRemoteDone, UncommittedInv, CommittedInv, WorkerInv, Committed,
        Queued, SnapshotInv
<1>15. CASE BounceMark
  BY <1>15
     DEF BounceMark, UncommittedInv, CommittedInv, WorkerInv, Committed,
        Queued, SnapshotInv
<1>16. CASE RelocateEml
  BY <1>16
     DEF RelocateEml, Moved, AfterError, UncommittedInv, CommittedInv,
        WorkerInv, Committed, Queued, SnapshotInv
<1>17. CASE RelocateCtrl
  BY <1>17
     DEF RelocateCtrl, Moved, AfterError, UncommittedInv, CommittedInv,
        WorkerInv, Committed, Queued, SnapshotInv
<1>18. CASE BounceUnmark
  BY <1>18
     DEF BounceUnmark, AfterError, UncommittedInv, CommittedInv, WorkerInv,
        Committed, Queued, SnapshotInv
<1>19. CASE RecoverNext
  BY <1>19
     DEF RecoverNext, UncommittedInv, CommittedInv, WorkerInv, Committed,
        Queued, SnapshotInv
<1>20. CASE RecoverDone
  BY <1>20
     DEF RecoverDone, UncommittedInv, CommittedInv, WorkerInv, Committed,
        Queued, SnapshotInv
<1>21. CASE PassDone
  BY <1>21
     DEF PassDone, UncommittedInv, CommittedInv, WorkerInv, Committed, Queued,
        SnapshotInv
<1>22. CASE ReapDone
  BY <1>22
     DEF ReapDone, UncommittedInv, CommittedInv, WorkerInv, Committed, Queued,
        SnapshotInv
<1>23. CASE Crash
  BY <1>23
     DEF Crash, UncommittedInv, CommittedInv, WorkerInv, Committed, Queued,
        SnapshotInv
<1>24. CASE Restart
  BY <1>24
     DEF Restart, UncommittedInv, CommittedInv, WorkerInv, Committed, Queued,
        SnapshotInv
<1>25. CASE Tick
  BY <1>25, BackoffType
     DEF Tick, Older, Min2, UncommittedInv, CommittedInv, WorkerInv,
        Committed, Queued, SnapshotInv
<1>26. ASSUME NEW id \in Ids, EnqueueCommit(id) PROVE DiskInv'
  BY <1>26
     DEF EnqueueCommit, UncommittedInv, CommittedInv, WorkerInv, Committed,
        Queued, SnapshotInv
<1>27. ASSUME NEW id \in Ids, ReapEml(id) PROVE DiskInv'
  BY <1>27
     DEF ReapEml, AgedEml, UncommittedInv, CommittedInv, WorkerInv, Committed,
        Queued, SnapshotInv
<1>28. ASSUME NEW id \in Ids, ReapCtrl(id) PROVE DiskInv'
  BY <1>28
     DEF ReapCtrl, AgedCtrl, UncommittedInv, CommittedInv, WorkerInv,
        Committed, Queued, SnapshotInv
<1>29. CASE UNCHANGED vars
  BY <1>29
     DEF UncommittedInv, CommittedInv, WorkerInv, Committed, Queued,
        SnapshotInv
<1> QED
  BY <1>1, <1>2, <1>3, <1>4, <1>5, <1>6, <1>7, <1>8, <1>9, <1>10, <1>11,
     <1>12, <1>13, <1>14, <1>15, <1>16, <1>17, <1>18, <1>19, <1>20, <1>21,
     <1>22, <1>23, <1>24, <1>25, <1>26, <1>27, <1>28, <1>29
     DEF Next, Step, WorkerStep

\* Every step keeps the notice ahead of the files.
LEMMA NoticeStep == SpoolInv /\ TypeOK' /\ [Next]_vars => NoticeInv'
<1> SUFFICES ASSUME SpoolInv, TypeOK', [Next]_vars PROVE NoticeInv'
  OBVIOUS
<1> USE DEF SpoolInv, DiskInv, TypeOK, Idle, WorkerPcs, RecoveryPcs, Places, Senders
<1>1. CASE Submit
  BY <1>1
     DEF Submit, EnqueueBody, IsNewId, UncommittedInv, CommittedInv,
        WorkerInv, Committed, Queued, NoticeInv, NoticeGiven, Abandoned
<1>2. CASE Scan
  BY <1>2
     DEF Scan, DueNow, UncommittedInv, CommittedInv, WorkerInv, Committed,
        Queued, NoticeInv, NoticeGiven, Abandoned
<1>3. CASE ScanFails
  BY <1>3
     DEF ScanFails, UncommittedInv, CommittedInv, WorkerInv, Committed,
        Queued, NoticeInv, NoticeGiven, Abandoned
<1>4. CASE Load
  BY <1>4
     DEF Load, UncommittedInv, CommittedInv, WorkerInv, Committed, Queued,
        NoticeInv, NoticeGiven, Abandoned
<1>5. CASE RelayDelivered
  BY <1>5
     DEF Attempt, RelayDelivered, UncommittedInv, CommittedInv, WorkerInv, Committed,
        Queued, NoticeInv, NoticeGiven, Abandoned
<1>6. CASE RelayDeferred
  BY <1>6
     DEF Attempt, RelayDeferred, UncommittedInv, CommittedInv, WorkerInv, Committed,
        Queued, NoticeInv, NoticeGiven, Abandoned
<1>7. CASE RelayFailed
  BY <1>7
     DEF Attempt, RelayFailed, UncommittedInv, CommittedInv, WorkerInv, Committed,
        Queued, NoticeInv, NoticeGiven, Abandoned
<1>8. CASE RemoveEml
  BY <1>8
     DEF RemoveEml, UncommittedInv, CommittedInv, WorkerInv, Committed,
        Queued, NoticeInv, NoticeGiven, Abandoned
<1>9. CASE RemoveCtrl
  BY <1>9
     DEF RemoveCtrl, UncommittedInv, CommittedInv, WorkerInv, Committed,
        Queued, NoticeInv, NoticeGiven, Abandoned
<1>10. CASE Defer
  BY <1>10
     DEF Defer, UncommittedInv, CommittedInv, WorkerInv, Committed, Queued,
        NoticeInv, NoticeGiven, Abandoned
<1>11. CASE NotifyNobody
  BY <1>11
     DEF NotifyNobody, UncommittedInv, CommittedInv, WorkerInv, Committed,
        Queued, NoticeInv, NoticeGiven, Abandoned
<1>12. CASE NotifyLocal
  BY <1>12
     DEF NotifyLocal, UncommittedInv, CommittedInv, WorkerInv, Committed,
        Queued, NoticeInv, NoticeGiven, Abandoned
<1>13. CASE NotifyRemote
  BY <1>13
     DEF NotifyRemote, EnqueueBody, IsNewId, UncommittedInv, CommittedInv,
        WorkerInv, Committed, Queued, NoticeInv, NoticeGiven, Abandoned
<1>14. CASE NotifyRemoteDone
  BY <1>14
     DEF NotifyRemoteDone, UncommittedInv, CommittedInv, WorkerInv, Committed,
        Queued, NoticeInv, NoticeGiven, Abandoned
<1>15. CASE BounceMark
  BY <1>15
     DEF BounceMark, UncommittedInv, CommittedInv, WorkerInv, Committed,
        Queued, NoticeInv, NoticeGiven, Abandoned
<1>16. CASE RelocateEml
  BY <1>16
     DEF RelocateEml, Moved, AfterError, UncommittedInv, CommittedInv,
        WorkerInv, Committed, Queued, NoticeInv, NoticeGiven, Abandoned
<1>17. CASE RelocateCtrl
  BY <1>17
     DEF RelocateCtrl, Moved, AfterError, UncommittedInv, CommittedInv,
        WorkerInv, Committed, Queued, NoticeInv, NoticeGiven, Abandoned
<1>18. CASE BounceUnmark
  BY <1>18
     DEF BounceUnmark, AfterError, UncommittedInv, CommittedInv, WorkerInv,
        Committed, Queued, NoticeInv, NoticeGiven, Abandoned
<1>19. CASE RecoverNext
  BY <1>19
     DEF RecoverNext, UncommittedInv, CommittedInv, WorkerInv, Committed,
        Queued, NoticeInv, NoticeGiven, Abandoned
<1>20. CASE RecoverDone
  BY <1>20
     DEF RecoverDone, UncommittedInv, CommittedInv, WorkerInv, Committed,
        Queued, NoticeInv, NoticeGiven, Abandoned
<1>21. CASE PassDone
  BY <1>21
     DEF PassDone, UncommittedInv, CommittedInv, WorkerInv, Committed, Queued,
        NoticeInv, NoticeGiven, Abandoned
<1>22. CASE ReapDone
  BY <1>22
     DEF ReapDone, UncommittedInv, CommittedInv, WorkerInv, Committed, Queued,
        NoticeInv, NoticeGiven, Abandoned
<1>23. CASE Crash
  BY <1>23
     DEF Crash, UncommittedInv, CommittedInv, WorkerInv, Committed, Queued,
        NoticeInv, NoticeGiven, Abandoned
<1>24. CASE Restart
  BY <1>24
     DEF Restart, UncommittedInv, CommittedInv, WorkerInv, Committed, Queued,
        NoticeInv, NoticeGiven, Abandoned
<1>25. CASE Tick
  BY <1>25
     DEF Tick, Older, Min2, UncommittedInv, CommittedInv, WorkerInv,
        Committed, Queued, NoticeInv, NoticeGiven, Abandoned
<1>26. ASSUME NEW id \in Ids, EnqueueCommit(id) PROVE NoticeInv'
  BY <1>26
     DEF EnqueueCommit, UncommittedInv, CommittedInv, WorkerInv, Committed,
        Queued, NoticeInv, NoticeGiven, Abandoned
<1>27. ASSUME NEW id \in Ids, ReapEml(id) PROVE NoticeInv'
  BY <1>27
     DEF ReapEml, AgedEml, UncommittedInv, CommittedInv, WorkerInv, Committed,
        Queued, NoticeInv, NoticeGiven, Abandoned
<1>28. ASSUME NEW id \in Ids, ReapCtrl(id) PROVE NoticeInv'
  BY <1>28
     DEF ReapCtrl, AgedCtrl, UncommittedInv, CommittedInv, WorkerInv,
        Committed, Queued, NoticeInv, NoticeGiven, Abandoned
<1>29. CASE UNCHANGED vars
  BY <1>29
     DEF UncommittedInv, CommittedInv, WorkerInv, Committed, Queued,
        NoticeInv, NoticeGiven, Abandoned
<1> QED
  BY <1>1, <1>2, <1>3, <1>4, <1>5, <1>6, <1>7, <1>8, <1>9, <1>10, <1>11,
     <1>12, <1>13, <1>14, <1>15, <1>16, <1>17, <1>18, <1>19, <1>20, <1>21,
     <1>22, <1>23, <1>24, <1>25, <1>26, <1>27, <1>28, <1>29
     DEF Next, Step, WorkerStep

\* A DSN never comes to report on a DSN.
LEMMA LoopStep == SpoolInv /\ TypeOK' /\ [Next]_vars => (\A i \in Ids : LoopInv(i))'
<1> SUFFICES ASSUME SpoolInv, TypeOK', [Next]_vars PROVE (\A i \in Ids : LoopInv(i))'
  OBVIOUS
<1> USE DEF SpoolInv, DiskInv, TypeOK, Idle, WorkerPcs, RecoveryPcs, Places, Senders
<1>1. CASE Submit
  <2>1. PICK new \in Ids, from \in SubmitSenders : EnqueueBody(new, from, 0)
    BY <1>1 DEF Submit
  <2>2. \A i \in Ids : i # new => /\ origin'[i] = origin[i] /\ sender'[i] = sender[i]
                                 /\ enq'[i] = enq[i]
    BY <2>1 DEF EnqueueBody
  <2>3. origin'[new] = 0 /\ enq[new] = "free" /\ enq'[new] # "free"
    BY <2>1 DEF EnqueueBody, IsNewId
  <2> SUFFICES ASSUME NEW i \in Ids, origin'[i] # 0 PROVE LoopInv(i)'
    BY DEF LoopInv
  <2>4. i # new /\ origin'[i] = origin[i]
    BY <2>2, <2>3
  <2>5. origin[i] \in Ids /\ LoopInv(i)
    BY <2>4
  <2>6. origin[i] # new
    BY <2>3, <2>4, <2>5 DEF LoopInv
  <2> QED
    BY <2>2, <2>4, <2>5, <2>6 DEF LoopInv
<1>2. CASE Scan
  BY <1>2 DEF Scan, DueNow, LoopInv
<1>3. CASE ScanFails
  BY <1>3 DEF ScanFails, LoopInv
<1>4. CASE Load
  BY <1>4 DEF Load, LoopInv
<1>5. CASE RelayDelivered
  BY <1>5 DEF Attempt, RelayDelivered, LoopInv
<1>6. CASE RelayDeferred
  BY <1>6 DEF Attempt, RelayDeferred, LoopInv
<1>7. CASE RelayFailed
  BY <1>7 DEF Attempt, RelayFailed, LoopInv
<1>8. CASE RemoveEml
  BY <1>8 DEF RemoveEml, LoopInv
<1>9. CASE RemoveCtrl
  BY <1>9 DEF RemoveCtrl, LoopInv
<1>10. CASE Defer
  BY <1>10 DEF Defer, LoopInv
<1>11. CASE NotifyNobody
  BY <1>11 DEF NotifyNobody, LoopInv
<1>12. CASE NotifyLocal
  BY <1>12 DEF NotifyLocal, LoopInv
<1>13. CASE NotifyRemote
  <2>1. PICK new \in Ids : EnqueueBody(new, "null", cur)
    BY <1>13 DEF NotifyRemote
  <2>2. \A i \in Ids : i # new => /\ origin'[i] = origin[i] /\ sender'[i] = sender[i]
                                 /\ enq'[i] = enq[i]
    BY <2>1 DEF EnqueueBody
  <2>3. /\ origin'[new] = cur /\ sender'[new] = "null"
        /\ enq[new] = "free" /\ enq'[new] # "free"
    BY <2>1 DEF EnqueueBody, IsNewId
  <2>4. cur \in Ids /\ enq[cur] = "committed" /\ origin[cur] = 0
    BY <1>13 DEF NotifyRemote, WorkerInv, Committed, LoopInv
  <2> SUFFICES ASSUME NEW i \in Ids, origin'[i] # 0 PROVE LoopInv(i)'
    BY DEF LoopInv
  <2>5. CASE i = new
    BY <2>2, <2>3, <2>4, <2>5 DEF LoopInv
  <2>6. CASE i # new
    <3>1. origin[i] \in Ids /\ LoopInv(i)
      BY <2>2, <2>6
    <3>2. origin[i] # new
      BY <2>2, <2>3, <2>6, <3>1 DEF LoopInv
    <3> QED
      BY <2>2, <2>6, <3>1, <3>2 DEF LoopInv
  <2> QED
    BY <2>5, <2>6
<1>14. CASE NotifyRemoteDone
  BY <1>14 DEF NotifyRemoteDone, LoopInv
<1>15. CASE BounceMark
  BY <1>15 DEF BounceMark, LoopInv
<1>16. CASE RelocateEml
  BY <1>16 DEF RelocateEml, Moved, AfterError, LoopInv
<1>17. CASE RelocateCtrl
  BY <1>17 DEF RelocateCtrl, Moved, AfterError, LoopInv
<1>18. CASE BounceUnmark
  BY <1>18 DEF BounceUnmark, AfterError, LoopInv
<1>19. CASE RecoverNext
  BY <1>19 DEF RecoverNext, LoopInv
<1>20. CASE RecoverDone
  BY <1>20 DEF RecoverDone, LoopInv
<1>21. CASE PassDone
  BY <1>21 DEF PassDone, LoopInv
<1>22. CASE ReapDone
  BY <1>22 DEF ReapDone, LoopInv
<1>23. CASE Crash
  BY <1>23, IdsPositive DEF Crash, LoopInv
<1>24. CASE Restart
  BY <1>24 DEF Restart, LoopInv
<1>25. CASE Tick
  BY <1>25 DEF Tick, Older, Min2, LoopInv
<1>26. ASSUME NEW id \in Ids, EnqueueCommit(id)
      PROVE (\A i \in Ids : LoopInv(i))'
  <2>1. \A i \in Ids : enq[i] # "free" => enq'[i] # "free"
    BY <1>26 DEF EnqueueCommit
  <2>2. UNCHANGED <<origin, sender>>
    BY <1>26 DEF EnqueueCommit
  <2> SUFFICES ASSUME NEW i \in Ids, origin'[i] # 0 PROVE LoopInv(i)'
    BY DEF LoopInv
  <2>3. origin[i] \in Ids /\ LoopInv(i)
    BY <2>2
  <2> QED
    BY <2>1, <2>2, <2>3 DEF LoopInv
<1>27. ASSUME NEW id \in Ids, ReapEml(id) PROVE (\A i \in Ids : LoopInv(i))'
  BY <1>27 DEF ReapEml, AgedEml, LoopInv
<1>28. ASSUME NEW id \in Ids, ReapCtrl(id) PROVE (\A i \in Ids : LoopInv(i))'
  BY <1>28 DEF ReapCtrl, AgedCtrl, LoopInv
<1>29. CASE UNCHANGED vars
  BY <1>29 DEF LoopInv
<1> QED
  BY <1>1, <1>2, <1>3, <1>4, <1>5, <1>6, <1>7, <1>8, <1>9, <1>10, <1>11,
     <1>12, <1>13, <1>14, <1>15, <1>16, <1>17, <1>18, <1>19, <1>20, <1>21,
     <1>22, <1>23, <1>24, <1>25, <1>26, <1>27, <1>28, <1>29
     DEF Next, Step, WorkerStep

\* Attempts and accepted copies stay accounted for.
LEMMA CountStep == SpoolInv /\ TypeOK' /\ [Next]_vars => (\A i \in Ids : CountInv(i))'
<1> SUFFICES ASSUME SpoolInv, TypeOK', [Next]_vars PROVE (\A i \in Ids : CountInv(i))'
  OBVIOUS
<1> USE DEF SpoolInv, DiskInv, TypeOK, Idle, WorkerPcs, RecoveryPcs, Places, Senders
<1>1. CASE Submit
  BY <1>1
     DEF Submit, EnqueueBody, IsNewId, UncommittedInv, CommittedInv,
        WorkerInv, Committed, Queued, SnapshotInv, CountInv, Unrecorded,
        Undeleted
<1>2. CASE Scan
  BY <1>2
     DEF Scan, DueNow, UncommittedInv, CommittedInv, WorkerInv, Committed,
        Queued, SnapshotInv, CountInv, Unrecorded, Undeleted
<1>3. CASE ScanFails
  BY <1>3
     DEF ScanFails, UncommittedInv, CommittedInv, WorkerInv, Committed,
        Queued, SnapshotInv, CountInv, Unrecorded, Undeleted
<1>4. CASE Load
  BY <1>4
     DEF Load, UncommittedInv, CommittedInv, WorkerInv, Committed, Queued,
        SnapshotInv, CountInv, Unrecorded, Undeleted
<1>5. CASE RelayDelivered
  BY <1>5
     DEF Attempt, RelayDelivered, UncommittedInv, CommittedInv, WorkerInv, Committed,
        Queued, SnapshotInv, CountInv, Unrecorded, Undeleted
<1>6. CASE RelayDeferred
  BY <1>6
     DEF Attempt, RelayDeferred, UncommittedInv, CommittedInv, WorkerInv, Committed,
        Queued, SnapshotInv, CountInv, Unrecorded, Undeleted
<1>7. CASE RelayFailed
  BY <1>7
     DEF Attempt, RelayFailed, UncommittedInv, CommittedInv, WorkerInv, Committed,
        Queued, SnapshotInv, CountInv, Unrecorded, Undeleted
<1>8. CASE RemoveEml
  BY <1>8
     DEF RemoveEml, UncommittedInv, CommittedInv, WorkerInv, Committed,
        Queued, SnapshotInv, CountInv, Unrecorded, Undeleted
<1>9. CASE RemoveCtrl
  BY <1>9
     DEF RemoveCtrl, UncommittedInv, CommittedInv, WorkerInv, Committed,
        Queued, SnapshotInv, CountInv, Unrecorded, Undeleted
<1>10. CASE Defer
  BY <1>10
     DEF Defer, UncommittedInv, CommittedInv, WorkerInv, Committed, Queued,
        SnapshotInv, CountInv, Unrecorded, Undeleted
<1>11. CASE NotifyNobody
  BY <1>11
     DEF NotifyNobody, UncommittedInv, CommittedInv, WorkerInv, Committed,
        Queued, SnapshotInv, CountInv, Unrecorded, Undeleted
<1>12. CASE NotifyLocal
  BY <1>12
     DEF NotifyLocal, UncommittedInv, CommittedInv, WorkerInv, Committed,
        Queued, SnapshotInv, CountInv, Unrecorded, Undeleted
<1>13. CASE NotifyRemote
  BY <1>13
     DEF NotifyRemote, EnqueueBody, IsNewId, UncommittedInv, CommittedInv,
        WorkerInv, Committed, Queued, SnapshotInv, CountInv, Unrecorded,
        Undeleted
<1>14. CASE NotifyRemoteDone
  BY <1>14
     DEF NotifyRemoteDone, UncommittedInv, CommittedInv, WorkerInv, Committed,
        Queued, SnapshotInv, CountInv, Unrecorded, Undeleted
<1>15. CASE BounceMark
  BY <1>15
     DEF BounceMark, UncommittedInv, CommittedInv, WorkerInv, Committed,
        Queued, SnapshotInv, CountInv, Unrecorded, Undeleted
<1>16. CASE RelocateEml
  BY <1>16
     DEF RelocateEml, Moved, AfterError, UncommittedInv, CommittedInv,
        WorkerInv, Committed, Queued, SnapshotInv, CountInv, Unrecorded,
        Undeleted
<1>17. CASE RelocateCtrl
  BY <1>17
     DEF RelocateCtrl, Moved, AfterError, UncommittedInv, CommittedInv,
        WorkerInv, Committed, Queued, SnapshotInv, CountInv, Unrecorded,
        Undeleted
<1>18. CASE BounceUnmark
  BY <1>18
     DEF BounceUnmark, AfterError, UncommittedInv, CommittedInv, WorkerInv,
        Committed, Queued, SnapshotInv, CountInv, Unrecorded, Undeleted
<1>19. CASE RecoverNext
  BY <1>19
     DEF RecoverNext, UncommittedInv, CommittedInv, WorkerInv, Committed,
        Queued, SnapshotInv, CountInv, Unrecorded, Undeleted
<1>20. CASE RecoverDone
  BY <1>20
     DEF RecoverDone, UncommittedInv, CommittedInv, WorkerInv, Committed,
        Queued, SnapshotInv, CountInv, Unrecorded, Undeleted
<1>21. CASE PassDone
  BY <1>21
     DEF PassDone, UncommittedInv, CommittedInv, WorkerInv, Committed, Queued,
        SnapshotInv, CountInv, Unrecorded, Undeleted
<1>22. CASE ReapDone
  BY <1>22
     DEF ReapDone, UncommittedInv, CommittedInv, WorkerInv, Committed, Queued,
        SnapshotInv, CountInv, Unrecorded, Undeleted
<1>23. CASE Crash
  BY <1>23
     DEF Crash, UncommittedInv, CommittedInv, WorkerInv, Committed, Queued,
        SnapshotInv, CountInv, Unrecorded, Undeleted
<1>24. CASE Restart
  BY <1>24
     DEF Restart, UncommittedInv, CommittedInv, WorkerInv, Committed, Queued,
        SnapshotInv, CountInv, Unrecorded, Undeleted
<1>25. CASE Tick
  BY <1>25
     DEF Tick, Older, Min2, UncommittedInv, CommittedInv, WorkerInv,
        Committed, Queued, SnapshotInv, CountInv, Unrecorded, Undeleted
<1>26. ASSUME NEW id \in Ids, EnqueueCommit(id) PROVE (\A i \in Ids : CountInv(i))'
  BY <1>26
     DEF EnqueueCommit, UncommittedInv, CommittedInv, WorkerInv, Committed,
        Queued, SnapshotInv, CountInv, Unrecorded, Undeleted
<1>27. ASSUME NEW id \in Ids, ReapEml(id) PROVE (\A i \in Ids : CountInv(i))'
  BY <1>27
     DEF ReapEml, AgedEml, UncommittedInv, CommittedInv, WorkerInv, Committed,
        Queued, SnapshotInv, CountInv, Unrecorded, Undeleted
<1>28. ASSUME NEW id \in Ids, ReapCtrl(id) PROVE (\A i \in Ids : CountInv(i))'
  BY <1>28
     DEF ReapCtrl, AgedCtrl, UncommittedInv, CommittedInv, WorkerInv,
        Committed, Queued, SnapshotInv, CountInv, Unrecorded, Undeleted
<1>29. CASE UNCHANGED vars
  BY <1>29
     DEF UncommittedInv, CommittedInv, WorkerInv, Committed, Queued,
        SnapshotInv, CountInv, Unrecorded, Undeleted
<1> QED
  BY <1>1, <1>2, <1>3, <1>4, <1>5, <1>6, <1>7, <1>8, <1>9, <1>10, <1>11,
     <1>12, <1>13, <1>14, <1>15, <1>16, <1>17, <1>18, <1>19, <1>20, <1>21,
     <1>22, <1>23, <1>24, <1>25, <1>26, <1>27, <1>28, <1>29
     DEF Next, Step, WorkerStep

-----------------------------------------------------------------------------
(* The invariant and its corollaries *)

\* SpoolInv holds in every reachable state, whatever crashes and failures of
\* file operations occur in enqueue(), relay_due(), bounce() and open().
THEOREM SpoolInvariant == Spec => []SpoolInv
<1>1. SpoolInv /\ [Next]_vars => SpoolInv'
  BY TypeStep, DiskStep, NoticeStep, LoopStep, CountStep DEF SpoolInv
<1> QED
  BY InitInv, <1>1, PTL DEF Spec

\* Type correctness of the spool directory, the worker and the counters.
THEOREM TypeCorrect == Spec => []TypeOK
<1>1. SpoolInv => TypeOK
  BY DEF SpoolInv
<1> QED
  BY SpoolInvariant, <1>1, PTL

\* A crash inside bounce() never strands a control record without its body:
\* the marker or a remote acceptance accounts for it.
THEOREM NeverStrandedHolds == Spec => []NeverStranded
<1>1. SpoolInv => NeverStranded
  BY DEF SpoolInv, DiskInv, UncommittedInv, CommittedInv, NeverStranded
<1> QED
  BY SpoolInvariant, <1>1, PTL

\* bounce_and_notify() never gives a message up silently, even if the process
\* dies between the DSN and the move.
THEOREM SenderNotifiedHolds == Spec => []SenderNotified
<1>1. SpoolInv => SenderNotified
  BY DEF SpoolInv, NoticeInv, SenderNotified
<1> QED
  BY SpoolInvariant, <1>1, PTL

\* DSNs never beget DSNs.
THEOREM NoBounceLoopHolds == Spec => []NoBounceLoop
<1>1. SpoolInv => NoBounceLoop
  BY DEF SpoolInv, LoopInv, NoBounceLoop
<1> QED
  BY SpoolInvariant, <1>1, PTL

\* relay() is called at most MAX_ATTEMPTS times for an entry, and once more
\* for every crash and failed operation.
THEOREM TriesBoundedHolds == Spec => []TriesBounded
<1>1. SpoolInv => TriesBounded
  BY DEF SpoolInv, TypeOK, CountInv, Unrecorded, TriesBounded
<1> QED
  BY SpoolInvariant, <1>1, PTL

\* A second copy of a message is always the work of a crash, a failed removal
\* or a lost reply.
THEOREM DuplicatesExplainedHolds == Spec => []DuplicatesExplained
<1>1. SpoolInv => DuplicatesExplained
  BY DEF SpoolInv, TypeOK, CountInv, Undeleted, DuplicatesExplained
<1> QED
  BY SpoolInvariant, <1>1, PTL

\* relay_due() never attempts an entry before its backoff has run out, nor one
\* whose attempts are used up.
THEOREM BackoffRespectedHolds == Spec => BackoffRespected
<1> DEFINE Respects == \A id \in Ids :
              tries'[id] # tries[id] => wait[id] <= 0 /\ attempts[id] < MAX_ATTEMPTS
<1>1. SpoolInv /\ [Next]_vars => [Respects]_vars
  <2> SUFFICES ASSUME SpoolInv, Next PROVE Respects
    BY DEF Respects
  <2> USE DEF SpoolInv, TypeOK, DiskInv, SnapshotInv, CountInv
  <2>1. CASE RelayDelivered
    BY <2>1 DEF Attempt, RelayDelivered
  <2>2. CASE RelayDeferred
    BY <2>2 DEF Attempt, RelayDeferred
  <2>3. CASE RelayFailed
    BY <2>3 DEF Attempt, RelayFailed
  <2>4. CASE UNCHANGED tries
    BY <2>4
  <2>5. \/ RelayDelivered \/ RelayDeferred \/ RelayFailed
        \/ UNCHANGED tries
    BY DEF Next, Step, WorkerStep, Submit, EnqueueCommit, Scan, ScanFails, Load,
           RemoveEml, RemoveCtrl, Defer, NotifyNobody, NotifyLocal,
           NotifyRemote, NotifyRemoteDone, BounceMark, RelocateEml,
           RelocateCtrl, BounceUnmark, RecoverNext, RecoverDone, PassDone,
           ReapEml, ReapCtrl, ReapDone, Crash, Restart, Tick
  <2> QED
    BY <2>1, <2>2, <2>3, <2>4, <2>5
<1> QED
  BY SpoolInvariant, <1>1, PTL DEF Spec, BackoffRespected, Respects

-----------------------------------------------------------------------------
(* The spool implements MailQueue *)

\* What a step does to the abstract queue: nothing, ...
Steady == /\ \A i \in Ids : StatusOf(i)' = StatusOf(i)
          /\ \A i \in Ids : copies'[i] > 0 <=> copies[i] > 0

\* ... or it moves one entry, ...
Turns(id, from, to) ==
    /\ StatusOf(id) = from /\ StatusOf(id)' = to
    /\ \A i \in Ids \ {id} : StatusOf(i)' = StatusOf(i)
    /\ \A i \in Ids : copies'[i] > 0 <=> copies[i] > 0

\* ... or it has one accepted by a remote exchanger.
IsAccepted(id) ==
    /\ StatusOf(id) = "queued"
    /\ \A i \in Ids : StatusOf(i)' = StatusOf(i)
    /\ copies'[id] > 0
    /\ \A i \in Ids \ {id} : copies'[i] > 0 <=> copies[i] > 0

\* The three effects are a stutter, one of the abstract moves, and Accept.
LEMMA EffectIsQueueStep ==
    \/ Steady
    \/ \E id \in Ids :
          \/ Turns(id, "none", "queued")
          \/ Turns(id, "queued", "gone") /\ copies[id] > 0
          \/ Turns(id, "queued", "failed")
          \/ Turns(id, "failed", "gone")
          \/ IsAccepted(id)
    => [Queue!QueueNext]_(Queue!queueVars)
<1> DEFINE st == [i \in Ids |-> StatusOf(i)]
           acc == {i \in Ids : copies[i] > 0}
<1>1. ASSUME Steady PROVE UNCHANGED Queue!queueVars
  BY <1>1 DEF Steady, Queue!queueVars
<1>2. ASSUME NEW id \in Ids, NEW from, NEW to, Turns(id, from, to)
      PROVE st[id] = from /\ st' = [st EXCEPT ![id] = to] /\ acc' = acc
  BY <1>2 DEF Turns
<1>3. ASSUME NEW id \in Ids, IsAccepted(id)
      PROVE st[id] = "queued" /\ st' = st /\ acc' = acc \cup {id}
  BY <1>3 DEF IsAccepted
<1>4. ASSUME NEW id \in Ids, Turns(id, "none", "queued") PROVE Queue!Commit(id)
  BY <1>2, <1>4 DEF Queue!Commit
<1>5. ASSUME NEW id \in Ids, Turns(id, "queued", "gone"), copies[id] > 0
      PROVE Queue!Complete(id)
  BY <1>2, <1>5 DEF Queue!Complete
<1>6. ASSUME NEW id \in Ids, Turns(id, "queued", "failed") PROVE Queue!Abandon(id)
  BY <1>2, <1>6 DEF Queue!Abandon
<1>7. ASSUME NEW id \in Ids, Turns(id, "failed", "gone") PROVE Queue!Expire(id)
  BY <1>2, <1>7 DEF Queue!Expire
<1>8. ASSUME NEW id \in Ids, IsAccepted(id) PROVE Queue!Accept(id)
  BY <1>3, <1>8 DEF Queue!Accept
<1> QED
  BY <1>1, <1>4, <1>5, <1>6, <1>7, <1>8 DEF Queue!QueueNext

\* The effect of every step, action by action; crashes and restarts are Steady.
LEMMA StepEffect == SpoolInv /\ TypeOK' /\ Next =>
    \/ Steady
    \/ \E id \in Ids :
          \/ Turns(id, "none", "queued")
          \/ Turns(id, "queued", "gone") /\ copies[id] > 0
          \/ Turns(id, "queued", "failed")
          \/ Turns(id, "failed", "gone")
          \/ IsAccepted(id)
<1> SUFFICES ASSUME SpoolInv, TypeOK', Next
             PROVE  \/ Steady
                    \/ \E id \in Ids :
                          \/ Turns(id, "none", "queued")
                          \/ Turns(id, "queued", "gone") /\ copies[id] > 0
                          \/ Turns(id, "queued", "failed")
                          \/ Turns(id, "failed", "gone")
                          \/ IsAccepted(id)
  OBVIOUS
<1> USE DEF SpoolInv, DiskInv, TypeOK, Idle, WorkerPcs, RecoveryPcs, Places, Senders
<1>1. ASSUME Submit PROVE Steady
  BY <1>1
     DEF Submit, EnqueueBody, IsNewId, Steady, StatusOf, UncommittedInv,
        CommittedInv, WorkerInv, Committed, Queued, Abandoned
<1>2. ASSUME Scan PROVE Steady
  BY <1>2
     DEF Scan, DueNow, Steady, StatusOf, UncommittedInv, CommittedInv,
        WorkerInv, Committed, Queued, Abandoned
<1>3. ASSUME ScanFails PROVE Steady
  BY <1>3
     DEF ScanFails, Steady, StatusOf, UncommittedInv, CommittedInv, WorkerInv,
        Committed, Queued, Abandoned
<1>4. ASSUME Load PROVE Steady
  BY <1>4
     DEF Load, Steady, StatusOf, UncommittedInv, CommittedInv, WorkerInv,
        Committed, Queued, Abandoned
<1>5. ASSUME RelayDelivered PROVE cur \in Ids /\ IsAccepted(cur)
  BY <1>5
     DEF Attempt, RelayDelivered, Steady, IsAccepted, StatusOf, UncommittedInv,
        CommittedInv, WorkerInv, Committed, Queued, Abandoned
<1>0. ASSUME NEW lost \in 0..MaxFaults, Attempt(lost, 0)
      PROVE Steady \/ (cur \in Ids /\ IsAccepted(cur))
  <2>1. lost \in Nat /\ cur \in Ids /\ copies[cur] \in Nat
    BY <1>0 DEF Attempt
  <2>2. Queued(cur)
    BY <1>0 DEF Attempt, WorkerInv
  <2>3. \A id \in Ids : StatusOf(id)' = StatusOf(id)
    BY <1>0 DEF Attempt, StatusOf, Committed, Queued, Abandoned
  <2>4. CASE lost = 0
    BY <1>0, <2>1, <2>3, <2>4 DEF Attempt, Steady
  <2>5. CASE lost > 0
    BY <1>0, <2>1, <2>2, <2>3, <2>5 DEF Attempt, IsAccepted, StatusOf, Queued
  <2> QED
    BY <2>1, <2>4, <2>5
<1>6. ASSUME RelayDeferred PROVE Steady \/ (cur \in Ids /\ IsAccepted(cur))
  BY <1>0, <1>6 DEF RelayDeferred
<1>7. ASSUME RelayFailed PROVE Steady \/ (cur \in Ids /\ IsAccepted(cur))
  BY <1>0, <1>7 DEF RelayFailed
<1>8. ASSUME RemoveEml PROVE Steady \/ (cur \in Ids /\ Turns(cur, "queued", "gone") /\ copies[cur] > 0)
  BY <1>8
     DEF RemoveEml, Steady, Turns, StatusOf, UncommittedInv, CommittedInv,
        WorkerInv, Committed, Queued, Abandoned
<1>9. ASSUME RemoveCtrl PROVE Steady
  BY <1>9
     DEF RemoveCtrl, Steady, StatusOf, UncommittedInv, CommittedInv,
        WorkerInv, Committed, Queued, Abandoned
<1>10. ASSUME Defer PROVE Steady
  BY <1>10
     DEF Defer, Steady, StatusOf, UncommittedInv, CommittedInv, WorkerInv,
        Committed, Queued, Abandoned
<1>11. ASSUME NotifyNobody PROVE Steady
  BY <1>11
     DEF NotifyNobody, Steady, StatusOf, UncommittedInv, CommittedInv,
        WorkerInv, Committed, Queued, Abandoned
<1>12. ASSUME NotifyLocal PROVE Steady
  BY <1>12
     DEF NotifyLocal, Steady, StatusOf, UncommittedInv, CommittedInv,
        WorkerInv, Committed, Queued, Abandoned
<1>13. ASSUME NotifyRemote PROVE Steady
  BY <1>13
     DEF NotifyRemote, EnqueueBody, IsNewId, Steady, StatusOf, UncommittedInv,
        CommittedInv, WorkerInv, Committed, Queued, Abandoned
<1>14. ASSUME NotifyRemoteDone PROVE Steady
  BY <1>14
     DEF NotifyRemoteDone, Steady, StatusOf, UncommittedInv, CommittedInv,
        WorkerInv, Committed, Queued, Abandoned
<1>15. ASSUME BounceMark PROVE Steady \/ (cur \in Ids /\ Turns(cur, "queued", "failed"))
  BY <1>15
     DEF BounceMark, Steady, Turns, StatusOf, UncommittedInv, CommittedInv,
        WorkerInv, Committed, Queued, Abandoned
<1>16. ASSUME RelocateEml PROVE Steady
  BY <1>16
     DEF RelocateEml, Moved, AfterError, Steady, StatusOf, UncommittedInv,
        CommittedInv, WorkerInv, Committed, Queued, Abandoned
<1>17. ASSUME RelocateCtrl PROVE Steady
  BY <1>17
     DEF RelocateCtrl, Moved, AfterError, Steady, StatusOf, UncommittedInv,
        CommittedInv, WorkerInv, Committed, Queued, Abandoned
<1>18. ASSUME BounceUnmark PROVE Steady \/ (cur \in Ids /\ Turns(cur, "failed", "gone"))
  BY <1>18
     DEF BounceUnmark, AfterError, Steady, Turns, StatusOf, UncommittedInv,
        CommittedInv, WorkerInv, Committed, Queued, Abandoned
<1>19. ASSUME RecoverNext PROVE Steady
  BY <1>19
     DEF RecoverNext, Steady, StatusOf, UncommittedInv, CommittedInv,
        WorkerInv, Committed, Queued, Abandoned
<1>20. ASSUME RecoverDone PROVE Steady
  BY <1>20
     DEF RecoverDone, Steady, StatusOf, UncommittedInv, CommittedInv,
        WorkerInv, Committed, Queued, Abandoned
<1>21. ASSUME PassDone PROVE Steady
  BY <1>21
     DEF PassDone, Steady, StatusOf, UncommittedInv, CommittedInv, WorkerInv,
        Committed, Queued, Abandoned
<1>22. ASSUME ReapDone PROVE Steady
  BY <1>22
     DEF ReapDone, Steady, StatusOf, UncommittedInv, CommittedInv, WorkerInv,
        Committed, Queued, Abandoned
<1>23. ASSUME Crash PROVE Steady
  BY <1>23
     DEF Crash, Steady, StatusOf, UncommittedInv, CommittedInv, WorkerInv,
        Committed, Queued, Abandoned
<1>24. ASSUME Restart PROVE Steady
  BY <1>24
     DEF Restart, Steady, StatusOf, UncommittedInv, CommittedInv, WorkerInv,
        Committed, Queued, Abandoned
<1>25. ASSUME Tick PROVE Steady
  BY <1>25
     DEF Tick, Older, Min2, Steady, StatusOf, UncommittedInv, CommittedInv,
        WorkerInv, Committed, Queued, Abandoned
<1>26. ASSUME NEW id \in Ids, EnqueueCommit(id) PROVE Steady \/ Turns(id, "none", "queued")
  BY <1>26
     DEF EnqueueCommit, Steady, Turns, StatusOf, UncommittedInv, CommittedInv,
        WorkerInv, Committed, Queued, Abandoned
<1>27. ASSUME NEW id \in Ids, ReapEml(id) PROVE Steady \/ Turns(id, "failed", "gone")
  BY <1>27
     DEF ReapEml, AgedEml, Steady, Turns, StatusOf, UncommittedInv,
        CommittedInv, WorkerInv, Committed, Queued, Abandoned
<1>28. ASSUME NEW id \in Ids, ReapCtrl(id) PROVE Steady \/ Turns(id, "failed", "gone")
  BY <1>28
     DEF ReapCtrl, AgedCtrl, Steady, Turns, StatusOf, UncommittedInv,
        CommittedInv, WorkerInv, Committed, Queued, Abandoned
<1> QED
  BY <1>1, <1>2, <1>3, <1>4, <1>5, <1>6, <1>7, <1>8, <1>9, <1>10, <1>11,
     <1>12, <1>13, <1>14, <1>15, <1>16, <1>17, <1>18, <1>19, <1>20, <1>21,
     <1>22, <1>23, <1>24, <1>25, <1>26, <1>27, <1>28
     DEF Next, Step, WorkerStep

\* The spool with its worker implements the durable at-least-once queue: no
\* crash and no I/O failure loses a committed message or brings back one that
\* has left the queue.
THEOREM ImplementsQueueHolds == Spec => ImplementsQueue
<1>1. Init => Queue!QueueInit
  BY DEF Init, Queue!QueueInit, StatusOf, Committed
<1>2. SpoolInv /\ SpoolInv' /\ [Next]_vars => [Queue!QueueNext]_(Queue!queueVars)
  <2> SUFFICES ASSUME SpoolInv, SpoolInv', [Next]_vars
               PROVE [Queue!QueueNext]_(Queue!queueVars)
    OBVIOUS
  <2>1. CASE Next
    BY <2>1, StepEffect, EffectIsQueueStep DEF SpoolInv
  <2>2. CASE UNCHANGED vars
    BY <2>2 DEF Queue!queueVars, StatusOf, Committed, Queued, Abandoned
  <2> QED
    BY <2>1, <2>2
<1> QED
  BY <1>1, <1>2, SpoolInvariant, PTL DEF Spec, ImplementsQueue, Queue!QueueSpec
=============================================================================
