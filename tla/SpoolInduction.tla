--------------------------- MODULE SpoolInduction ---------------------------
(***************************************************************************)
(* The inductive invariant behind the safety properties of Spool.  None of *)
(* them is inductive alone; TLC checks this strengthening on the small     *)
(* instances and SpoolProofs proves that every step preserves it.          *)
(***************************************************************************)
EXTENDS Spool

\* Only a committed entry has a control record or a marker, and only such an
\* entry is ever moved.
UncommittedInv(id) ==
    ~Committed(id) =>
        /\ ctrl[id] = "none"
        /\ ~marker[id]
        /\ eml[id] # "bounced"
        /\ enq[id] = "body" => eml[id] = "main"

\* The order of the file operations on a committed entry: the body leaves the
\* main directory before the record does, and a record left behind without
\* its body is either under a marker or belongs to a delivered message.
CommittedInv(id) ==
    Committed(id) =>
        /\ eml[id] = "main" => ctrl[id] = "main"
        /\ ctrl[id] = "main" /\ eml[id] # "main" /\ ~marker[id] =>
             eml[id] = "none" /\ copies[id] > 0

\* What the worker, or open(), knows about the entry it is working on.
WorkerInv ==
    /\ pc \notin Idle => Committed(cur)
    /\ pc \in {"relay", "rmEml", "defer", "notify", "dsn", "mark"} => Queued(cur)
    /\ pc \in {"rmEml", "rmCtrl"} => copies[cur] > 0
    /\ pc = "rmCtrl" => eml[cur] = "none" /\ ctrl[cur] = "main" /\ ~marker[cur]
    /\ pc \in {"mvEml", "recEml", "mvCtrl", "recCtrl", "unmark", "recUnmark"} => marker[cur]
    /\ pc \in {"mvCtrl", "recCtrl", "unmark", "recUnmark"} => eml[cur] # "main"
    /\ pc \in {"unmark", "recUnmark"} => ctrl[cur] # "main"

\* The snapshot stays valid during the pass: nobody but the worker touches a
\* committed entry, and the worker touches only the one it is working on.
SnapshotInv ==
    /\ pc \in {"down", "sleep", "reap"} \cup RecoveryPcs => due = {}
    /\ pc # "next" => cur \notin due
    /\ \A id \in due : Queued(id) /\ snap[id] = attempts[id] /\ wait[id] <= 0
    /\ pc \in {"relay", "defer"} => snap[cur] = attempts[cur] /\ wait[cur] <= 0
    /\ pc = "defer" => snap[cur] + 1 < MAX_ATTEMPTS

DiskInv ==
    /\ \A id \in Ids : UncommittedInv(id) /\ CommittedInv(id)
    /\ WorkerInv
    /\ SnapshotInv

\* The worker touches the entry only after the notice; while it waits for the
\* DSN to be enqueued, a DSN that is neither committed nor under way can only
\* have been stopped by a failure.
NoticeInv ==
    /\ \A id \in Ids : Abandoned(id) => NoticeGiven(id)
    /\ pc = "mark" => NoticeGiven(cur)
    /\ pc = "dsn" => \/ \E d \in Ids : origin[d] = cur /\ enq[d] \in {"body", "committed"}
                     \/ faults > 0

\* A DSN has the null sender and reports on an entry that existed before it.
LoopInv(id) ==
    origin[id] # 0 =>
        /\ enq[id] # "free" /\ sender[id] = "null"
        /\ enq[origin[id]] # "free" /\ origin[origin[id]] = 0

\* How far the counts of attempts and of accepted copies may be ahead of what
\* the control record and the environment account for.
Unrecorded(id) ==
    IF Queued(id) /\ ~(cur = id /\ pc \in {"rmEml", "defer", "notify", "dsn", "mark"})
      THEN 0 ELSE 1
Undeleted(id) ==
    IF Queued(id) /\ ~(cur = id /\ pc = "rmEml") THEN 0 ELSE 1

CountInv(id) ==
    /\ attempts[id] < MAX_ATTEMPTS
    /\ tries[id] <= attempts[id] + Unrecorded(id) + crashes + faults
    /\ copies[id] <= Undeleted(id) + crashes + faults
    /\ ~Committed(id) => tries[id] = 0 /\ copies[id] = 0

\* Everything the proofs carry through a step.
SpoolInv ==
    /\ TypeOK
    /\ DiskInv
    /\ NoticeInv
    /\ \A id \in Ids : LoopInv(id) /\ CountInv(id)
=============================================================================
