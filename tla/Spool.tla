------------------------------- MODULE Spool -------------------------------
(***************************************************************************)
(* The durable outbound spool (spool.rs) and the relay worker that drains  *)
(* it (worker.rs), together with the connections that enqueue into it and  *)
(* the process crashes and I/O failures both must survive.                 *)
(*                                                                         *)
(* A queued message is two files, <id>.eml and <id>.ctrl, in the main      *)
(* directory; giving a message up moves both into bounced/ under the       *)
(* protection of a third file, <id>.bouncing.  Every action below is at    *)
(* most one file operation, so that a crash may fall between any two.      *)
(*                                                                         *)
(* Time is relative: only the distances `next_attempt_at - now' and        *)
(* `now - mtime' are ever used by the code, so they are what the state     *)
(* keeps.  Ages saturate at BOUNCE_RETENTION, past which the code treats   *)
(* all of them alike; so the state space is finite without a time horizon. *)
(***************************************************************************)
EXTENDS Integers, FiniteSets

CONSTANTS
    MaxIds,             \* bound: queue ids handed out by new_id
    MaxSubmissions,     \* bound: ids used by submissions (the rest: DSNs)
    SubmitSenders,      \* reverse-paths of submitted messages
    MAX_ATTEMPTS,       \* delivery attempts before an entry is bounced
    BOUNCE_RETENTION,   \* age at which a file in bounced/ is reaped
    BackoffBase,        \* BASE of backoff(), in units of time
    BackoffCap,         \* CAP of backoff(), in units of time
    MaxCrashes,         \* bound: process crashes
    MaxFaults,          \* bound: failed file operations and lost replies
    MaxTrouble          \* bound: crashes and faults together

ASSUME SpoolAssumption ==
    /\ MaxIds \in Nat
    /\ MaxSubmissions \in Nat
    /\ SubmitSenders \subseteq {"local", "remote"}
    /\ MAX_ATTEMPTS \in Nat \ {0}
    /\ BOUNCE_RETENTION \in Nat \ {0}
    /\ BackoffBase \in Nat \ {0}
    /\ BackoffCap \in Nat \ {0}
    /\ MaxCrashes \in Nat
    /\ MaxFaults \in Nat
    /\ MaxTrouble \in Nat

VARIABLES
    \* -- the spool directory: what survives a crash
    eml,        \* eml[id]: where the message body is
    ctrl,       \* ctrl[id]: where the control record is
    marker,     \* marker[id]: <id>.bouncing exists
    attempts,   \* attempts[id]: failed attempts in the control record
    wait,       \* wait[id]: next_attempt_at - now in the control record
    emlAge,     \* emlAge[id]: now - mtime of the body
    ctrlAge,    \* ctrlAge[id]: now - mtime of the control record
    \* -- the entries
    enq,        \* enq[id]: progress of the enqueue() call for id
    sender,     \* sender[id]: reverse-path of the message
    origin,     \* origin[id]: the entry this DSN reports on, 0 for a submission
    \* -- the relay worker (lost in a crash)
    pc,         \* what the process is about to do
    cur,        \* the entry being processed, 0 when there is none
    due,        \* the rest of the due_now() snapshot
    snap,       \* snap[id]: attempts of id when the snapshot was taken
    \* -- history, read by properties only
    tries,      \* tries[id]: relay() calls that returned
    copies,     \* copies[id]: times a remote exchanger accepted id
    notice,     \* notice[id]: what became of telling the sender
    crashes,    \* crashes so far
    faults      \* failed operations and lost replies so far

files  == <<eml, ctrl, marker, attempts, wait, emlAge, ctrlAge>>
entry  == <<enq, sender, origin>>
worker == <<pc, cur, due, snap>>
hist   == <<tries, copies, notice>>
vars   == <<files, entry, worker, hist, crashes, faults>>

Ids     == 1..MaxIds
Places  == {"none", "main", "bounced"}
Senders == {"local", "remote", "null"}

\* The worker's control points; "down" is no process, "rec..." is open().
WorkerPcs   == {"sleep", "next", "relay", "rmEml", "rmCtrl", "defer",
                "notify", "dsn", "mark", "mvEml", "mvCtrl", "unmark", "reap"}
RecoveryPcs == {"recover", "recEml", "recCtrl", "recUnmark"}
\* The control points at which no entry is being worked on.
Idle == {"down", "recover", "sleep", "next", "reap"}
Up == pc \in WorkerPcs

TypeOK ==
    /\ eml \in [Ids -> Places]
    /\ ctrl \in [Ids -> Places]
    /\ marker \in [Ids -> BOOLEAN]
    /\ attempts \in [Ids -> Nat]
    /\ wait \in [Ids -> Int]
    /\ emlAge \in [Ids -> 0..BOUNCE_RETENTION]
    /\ ctrlAge \in [Ids -> 0..BOUNCE_RETENTION]
    /\ enq \in [Ids -> {"free", "body", "committed", "failed"}]
    /\ sender \in [Ids -> Senders]
    /\ origin \in [Ids -> Ids \cup {0}]
    /\ pc \in WorkerPcs \cup RecoveryPcs \cup {"down"}
    /\ cur \in Ids \cup (IF pc \in Idle THEN {0} ELSE {})
    /\ due \in SUBSET Ids
    /\ snap \in [Ids -> Nat]
    /\ tries \in [Ids -> Nat]
    /\ copies \in [Ids -> Nat]
    /\ notice \in [Ids -> {"none", "told", "lost", "unreadable"}]
    /\ crashes \in Nat
    /\ faults \in Nat

\* A first start on an empty spool directory: open() has nothing to recover.
Init ==
    /\ eml = [id \in Ids |-> "none"]
    /\ ctrl = [id \in Ids |-> "none"]
    /\ marker = [id \in Ids |-> FALSE]
    /\ attempts = [id \in Ids |-> 0]
    /\ wait = [id \in Ids |-> 0]
    /\ emlAge = [id \in Ids |-> 0]
    /\ ctrlAge = [id \in Ids |-> 0]
    /\ enq = [id \in Ids |-> "free"]
    /\ sender = [id \in Ids |-> "null"]
    /\ origin = [id \in Ids |-> 0]
    /\ pc = "recover"
    /\ cur = 0
    /\ due = {}
    /\ snap = [id \in Ids |-> 0]
    /\ tries = [id \in Ids |-> 0]
    /\ copies = [id \in Ids |-> 0]
    /\ notice = [id \in Ids |-> "none"]
    /\ crashes = 0
    /\ faults = 0

-----------------------------------------------------------------------------
(* Helpers *)

Min2(a, b) == IF a < b THEN a ELSE b

\* Exponential backoff between attempts, capped.
Backoff(n) == Min2(BackoffBase * 2^Min2(n, 20), BackoffCap)

\* Room for n faults more.
MayFault(n) == faults + n <= MaxFaults /\ crashes + faults + n <= MaxTrouble

\* Each operation below either succeeds or is one of the failures allowed.
Ok    == UNCHANGED faults
Fault == MayFault(1) /\ faults' = faults + 1

\* The id new_id() hands out: ids are time-ordered and never reused.
IsNewId(id) == enq[id] = "free" /\ \A j \in Ids : j < id => enq[j] # "free"

Committed(id) == enq[id] = "committed"

\* The entry due_now() would consider.
Queued(id) == Committed(id) /\ eml[id] = "main" /\ ctrl[id] = "main" /\ ~marker[id]

\* The server has given the entry up: the marker is down or a file has moved.
Abandoned(id) == marker[id] \/ eml[id] = "bounced" \/ ctrl[id] = "bounced"

\* Mutant: the schedule is not looked at.
DueNowAll == {id \in Ids : ctrl[id] = "main" /\ ~marker[id] /\ eml[id] = "main"}

\* Mutant: the schedule is compared the wrong way round.
DueNowFlipped == {id \in Ids : ctrl[id] = "main" /\ ~marker[id] /\ eml[id] = "main" /\ wait[id] > 0}

\* Mutant: a marker left by an interrupted bounce is not looked at.
DueNowMarked == {id \in Ids : ctrl[id] = "main" /\ eml[id] = "main" /\ wait[id] <= 0}

DueNow == {id \in Ids :
             /\ ctrl[id] = "main"
             /\ ~marker[id]
             /\ eml[id] = "main"
             /\ wait[id] <= 0}

Goto(label) == pc' = label /\ UNCHANGED <<cur, due, snap>>

-----------------------------------------------------------------------------
(* enqueue(): body first, then the control record that commits the entry.  *)

\* write_atomic of the body by the holder of a fresh id; on failure enqueue()
\* returns and enqueue_relay() only logs.
EnqueueBody(id, from, about) ==
    /\ IsNewId(id)
    /\ sender' = [sender EXCEPT ![id] = from]
    /\ origin' = [origin EXCEPT ![id] = about]
    /\ \/ /\ Ok
          /\ enq' = [enq EXCEPT ![id] = "body"]
          /\ eml' = [eml EXCEPT ![id] = "main"]
       \/ /\ Fault
          /\ enq' = [enq EXCEPT ![id] = "failed"]
          /\ UNCHANGED eml

\* A connection (or the DMARC report worker) hands over a message with a
\* reverse-path; several may be between body and record at the same time.
Submit ==
    /\ Up
    /\ Cardinality({id \in Ids : enq[id] # "free" /\ origin[id] = 0}) < MaxSubmissions
    /\ \E id \in Ids, from \in SubmitSenders : EnqueueBody(id, from, 0)
    /\ UNCHANGED <<ctrl, marker, attempts, wait, emlAge, ctrlAge, worker, hist, crashes>>

\* write_atomic of the control record: attempts 0, due at once.
EnqueueCommit(id) ==
    /\ Up
    /\ enq[id] = "body"
    /\ \/ /\ Ok
          /\ enq' = [enq EXCEPT ![id] = "committed"]
          /\ ctrl' = [ctrl EXCEPT ![id] = "main"]
       \/ /\ Fault
          /\ enq' = [enq EXCEPT ![id] = "failed"]
          /\ UNCHANGED ctrl
    /\ UNCHANGED <<eml, marker, attempts, wait, emlAge, ctrlAge, sender, origin, worker, hist, crashes>>

-----------------------------------------------------------------------------
(* relay_due(): one pass over the entries that are due. *)

\* due_now() succeeds: the pass works on this snapshot.
Scan ==
    /\ pc = "sleep"
    /\ due' = DueNow
    /\ snap' = [id \in Ids |-> IF id \in DueNow THEN attempts[id] ELSE 0]
    /\ pc' = "next"
    /\ UNCHANGED <<cur, files, entry, hist, crashes, faults>>

\* due_now() fails: the pass is over, nothing is reaped.
ScanFails ==
    /\ pc = "sleep"
    /\ Fault
    /\ UNCHANGED <<files, entry, worker, hist, crashes>>

\* The next entry of the snapshot, in id order; load_message() either reads it
\* or the entry is quarantined without telling anybody.
Load ==
    /\ pc = "next"
    /\ \E id \in due :
         /\ \A j \in due : id <= j
         /\ cur' = id
         /\ due' = due \ {id}
         /\ \/ Ok /\ pc' = "relay" /\ UNCHANGED notice
            \/ Fault /\ pc' = "mark" /\ notice' = [notice EXCEPT ![id] = "unreadable"]
    /\ UNCHANGED <<snap, files, entry, tries, copies, crashes>>

\* relay() returns after one attempt, in which `lost' exchangers took the
\* message and their replies never arrived (each counts as a failure) and
\* `taken' is 1 when the last one's acceptance did arrive.
Attempt(lost, taken) ==
    /\ pc = "relay"
    /\ MayFault(lost)
    /\ faults' = faults + lost
    /\ tries' = [tries EXCEPT ![cur] = @ + 1]
    /\ copies' = [copies EXCEPT ![cur] = @ + lost + taken]
    /\ UNCHANGED <<files, entry, notice, crashes>>

\* Mutant: a delivered entry is left in the spool.
RelayDeliveredKept == \E lost \in 0..MaxFaults : Attempt(lost, 1) /\ Goto("next")

\* The exchanger accepted the message, ...
RelayDelivered == \E lost \in 0..MaxFaults : Attempt(lost, 1) /\ Goto("rmEml")

\* Mutant: an exhausted entry is bounced without notifying the sender.
RelayDeferredSilent ==
    /\ Attempt(0, 0)
    /\ IF snap[cur] + 1 >= MAX_ATTEMPTS THEN Goto("mark") ELSE Goto("defer")

\* ... or the attempt is deferred, which counts as one attempt more than the
\* snapshot's, ...
RelayDeferred ==
    /\ \E lost \in 0..MaxFaults : Attempt(lost, 0)
    /\ IF snap[cur] + 1 >= MAX_ATTEMPTS THEN Goto("notify") ELSE Goto("defer")

\* ... or it is refused for good.
RelayFailed == \E lost \in 0..MaxFaults : Attempt(lost, 0) /\ Goto("notify")

\* Mutant: remove() deletes the record before the body.
RemoveEmlSwapped ==
    /\ pc = "rmEml"
    /\ Ok
    /\ ctrl' = [ctrl EXCEPT ![cur] = "none"]
    /\ Goto("next")
    /\ UNCHANGED <<eml, marker, attempts, wait, emlAge, ctrlAge, entry, hist, crashes>>

\* remove(): the body first; its error is ignored by the worker.
RemoveEml ==
    /\ pc = "rmEml"
    /\ \/ Ok /\ eml' = [eml EXCEPT ![cur] = "none"] /\ Goto("rmCtrl")
       \/ Fault /\ UNCHANGED eml /\ Goto("next")
    /\ UNCHANGED <<ctrl, marker, attempts, wait, emlAge, ctrlAge, entry, hist, crashes>>

RemoveCtrl ==
    /\ pc = "rmCtrl"
    /\ \/ Ok /\ ctrl' = [ctrl EXCEPT ![cur] = "none"]
       \/ Fault /\ UNCHANGED ctrl
    /\ Goto("next")
    /\ UNCHANGED <<eml, marker, attempts, wait, emlAge, ctrlAge, entry, hist, crashes>>

\* defer(): rewrite the control record; an error leaves the old one.
Defer ==
    /\ pc = "defer"
    /\ \/ /\ Ok
          /\ attempts' = [attempts EXCEPT ![cur] = snap[cur] + 1]
          /\ wait' = [wait EXCEPT ![cur] = Backoff(snap[cur] + 1)]
          /\ ctrlAge' = [ctrlAge EXCEPT ![cur] = 0]
       \/ Fault /\ UNCHANGED <<attempts, wait, ctrlAge>>
    /\ Goto("next")
    /\ UNCHANGED <<eml, ctrl, marker, emlAge, entry, hist, crashes>>

-----------------------------------------------------------------------------
(* bounce_and_notify(): the DSN is handed to accept_inbound() before the   *)
(* entry is moved.                                                         *)

\* No DSN about a message with the null sender.
NotifyNobody ==
    /\ pc = "notify"
    /\ sender[cur] = "null"
    /\ Goto("mark")
    /\ UNCHANGED <<files, entry, hist, crashes, faults>>

\* A local sender gets the DSN in the mailbox, unless the spam filter of the
\* delivery agent rejects it.
NotifyLocal ==
    /\ pc = "notify"
    /\ sender[cur] = "local"
    /\ \E result \in {"told", "lost"} : notice' = [notice EXCEPT ![cur] = result]
    /\ Goto("mark")
    /\ UNCHANGED <<files, entry, tries, copies, crashes, faults>>

\* A remote sender's DSN is itself enqueued, with the null sender.
NotifyRemote ==
    /\ pc = "notify"
    /\ sender[cur] = "remote"
    /\ \E id \in Ids : EnqueueBody(id, "null", cur)
    /\ Goto("dsn")
    /\ UNCHANGED <<ctrl, marker, attempts, wait, emlAge, ctrlAge, hist, crashes>>

\* enqueue() of the DSN has returned; its result is not looked at.
NotifyRemoteDone ==
    /\ pc = "dsn"
    /\ \A id \in Ids : origin[id] = cur => enq[id] # "body"
    /\ notice' = [notice EXCEPT ![cur] =
                    IF \E id \in Ids : origin[id] = cur /\ Committed(id)
                      THEN "told" ELSE "lost"]
    /\ Goto("mark")
    /\ UNCHANGED <<files, entry, tries, copies, crashes, faults>>

-----------------------------------------------------------------------------
(* bounce() and recover_interrupted_bounces().  The worker and open() take *)
(* the same steps; they differ in what they do next.                       *)

\* The marker goes down first.  A failed write may still have created it.
BounceMark ==
    /\ pc = "mark"
    /\ \/ Ok /\ marker' = [marker EXCEPT ![cur] = TRUE] /\ Goto("mvEml")
       \/ Fault /\ marker' = [marker EXCEPT ![cur] = TRUE] /\ Goto("next")
       \/ Fault /\ UNCHANGED marker /\ Goto("next")
    /\ UNCHANGED <<eml, ctrl, attempts, wait, emlAge, ctrlAge, entry, hist, crashes>>

\* Where a failed relocation leaves the process: the worker drops the error
\* and goes on, open() fails and the server does not start.
AfterError == IF pc \in RecoveryPcs
                THEN pc' = "down" /\ cur' = 0 /\ UNCHANGED <<due, snap>>
                ELSE Goto("next")

\* rename_if_exists: a file that is no longer in the main directory is skipped.
Moved(place) == [place EXCEPT ![cur] = IF @ = "main" THEN "bounced" ELSE @]

RelocateEml ==
    /\ pc \in {"mvEml", "recEml"}
    /\ \/ Ok /\ eml' = Moved(eml) /\ Goto(IF pc = "mvEml" THEN "mvCtrl" ELSE "recCtrl")
       \/ Fault /\ UNCHANGED eml /\ AfterError
    /\ UNCHANGED <<ctrl, marker, attempts, wait, emlAge, ctrlAge, entry, hist, crashes>>

RelocateCtrl ==
    /\ pc \in {"mvCtrl", "recCtrl"}
    /\ \/ Ok /\ ctrl' = Moved(ctrl) /\ Goto(IF pc = "mvCtrl" THEN "unmark" ELSE "recUnmark")
       \/ Fault /\ UNCHANGED ctrl /\ AfterError
    /\ UNCHANGED <<eml, marker, attempts, wait, emlAge, ctrlAge, entry, hist, crashes>>

BounceUnmark ==
    /\ pc \in {"unmark", "recUnmark"}
    /\ \/ Ok /\ marker' = [marker EXCEPT ![cur] = FALSE]
             /\ Goto(IF pc = "unmark" THEN "next" ELSE "recover")
       \/ Fault /\ UNCHANGED marker /\ AfterError
    /\ UNCHANGED <<eml, ctrl, attempts, wait, emlAge, ctrlAge, entry, hist, crashes>>

\* recover_interrupted_bounces(): take up any marker found in the directory,
\* in whatever order the directory lists them, ...
RecoverNext ==
    /\ pc = "recover"
    /\ \E id \in Ids : marker[id] /\ cur' = id
    /\ pc' = "recEml"
    /\ UNCHANGED <<due, snap, files, entry, hist, crashes, faults>>

\* Mutant: open() does not look for interrupted bounces.
RecoverSkipped ==
    /\ pc = "recover"
    /\ pc' = "sleep"
    /\ cur' = 0
    /\ UNCHANGED <<due, snap, files, entry, hist, crashes, faults>>

\* ... and open() returns when there is none left.
RecoverDone ==
    /\ pc = "recover"
    /\ \A id \in Ids : ~marker[id]
    /\ pc' = "sleep"
    /\ cur' = 0
    /\ UNCHANGED <<due, snap, files, entry, hist, crashes, faults>>

-----------------------------------------------------------------------------
(* reap_bounced(), the end of the pass. *)

PassDone ==
    /\ pc = "next"
    /\ due = {}
    /\ pc' = "reap"
    /\ cur' = 0
    /\ UNCHANGED <<due, snap, files, entry, hist, crashes, faults>>

AgedEml(id)  == eml[id] = "bounced" /\ emlAge[id] >= BOUNCE_RETENTION
AgedCtrl(id) == ctrl[id] = "bounced" /\ ctrlAge[id] >= BOUNCE_RETENTION

\* Files are judged and removed one at a time, the two of an entry separately.
ReapEml(id) ==
    /\ pc = "reap"
    /\ AgedEml(id)
    /\ eml' = [eml EXCEPT ![id] = "none"]
    /\ UNCHANGED <<ctrl, marker, attempts, wait, emlAge, ctrlAge, entry, worker, hist, crashes, faults>>

ReapCtrl(id) ==
    /\ pc = "reap"
    /\ AgedCtrl(id)
    /\ ctrl' = [ctrl EXCEPT ![id] = "none"]
    /\ UNCHANGED <<eml, marker, attempts, wait, emlAge, ctrlAge, entry, worker, hist, crashes, faults>>

\* Nothing aged is left, or a removal failed: back to sleep until the next tick.
ReapDone ==
    /\ pc = "reap"
    /\ \/ Ok /\ \A id \in Ids : ~AgedEml(id) /\ ~AgedCtrl(id)
       \/ Fault /\ \E id \in Ids : AgedEml(id) \/ AgedCtrl(id)
    /\ Goto("sleep")
    /\ UNCHANGED <<files, entry, hist, crashes>>

-----------------------------------------------------------------------------
(* The environment. *)

\* The process dies: the directory stays, the worker and every unfinished
\* enqueue() are gone.
Crash ==
    /\ pc # "down"
    /\ crashes < MaxCrashes /\ crashes + faults < MaxTrouble
    /\ crashes' = crashes + 1
    /\ pc' = "down"
    /\ cur' = 0
    /\ due' = {}
    /\ snap' = [id \in Ids |-> 0]
    /\ enq' = [id \in Ids |-> IF enq[id] = "body" THEN "failed" ELSE enq[id]]
    /\ UNCHANGED <<files, sender, origin, hist, faults>>

\* The server is started again and open() looks for interrupted bounces.
Restart ==
    /\ pc = "down"
    /\ pc' = "recover"
    /\ UNCHANGED <<cur, due, snap, files, entry, hist, crashes, faults>>

\* One unit of time passes.
Older(age, place) == [id \in Ids |-> IF place[id] = "none" THEN 0
                                     ELSE Min2(age[id] + 1, BOUNCE_RETENTION)]
Tick ==
    /\ wait' = [id \in Ids |-> IF wait[id] > 0 THEN wait[id] - 1 ELSE wait[id]]
    /\ emlAge' = Older(emlAge, eml)
    /\ ctrlAge' = Older(ctrlAge, ctrl)
    /\ <<wait', emlAge', ctrlAge'>> # <<wait, emlAge, ctrlAge>>
    /\ UNCHANGED <<eml, ctrl, marker, attempts, entry, worker, hist, crashes, faults>>

-----------------------------------------------------------------------------
WorkerStep ==
    \/ Scan \/ ScanFails \/ Load
    \/ RelayDelivered \/ RelayDeferred \/ RelayFailed
    \/ RemoveEml \/ RemoveCtrl \/ Defer
    \/ NotifyNobody \/ NotifyLocal \/ NotifyRemote \/ NotifyRemoteDone
    \/ BounceMark \/ RelocateEml \/ RelocateCtrl \/ BounceUnmark
    \/ RecoverNext \/ RecoverDone
    \/ PassDone \/ (\E id \in Ids : ReapEml(id) \/ ReapCtrl(id)) \/ ReapDone

\* Everything but the passing of time.
Step ==
    \/ Submit
    \/ \E id \in Ids : EnqueueCommit(id)
    \/ WorkerStep
    \/ Crash
    \/ Restart

Next == Step \/ Tick

Spec == Init /\ [][Next]_vars

\* Every step of the worker that needs no remote peer.
LocalStep == pc # "relay" /\ WorkerStep

(* Fairness.  The worker is a task of its own on the runtime and its tick  *)
(* always fires again; an enqueue() that has begun is synchronous code and *)
(* goes on; the clock advances; and whoever supervises the process starts  *)
(* it again.  Nothing forces a submission, a crash or a failure, and       *)
(* nothing makes relay() return: no read of a reply has a timeout.         *)
FairSpec ==
    /\ Spec
    /\ WF_vars(LocalStep)
    /\ WF_vars(\E id \in Ids : EnqueueCommit(id))
    /\ WF_vars(Restart)
    /\ WF_vars(Tick)

-----------------------------------------------------------------------------
(* Properties *)

\* The refinement mapping: what the directory means for the message.
StatusOf(id) ==
    IF ~Committed(id) THEN "none"
    ELSE IF Queued(id) THEN "queued"
    ELSE IF Abandoned(id) THEN "failed"
    ELSE "gone"

Queue == INSTANCE MailQueue WITH
            status   <- [id \in Ids |-> StatusOf(id)],
            accepted <- {id \in Ids : copies[id] > 0}

\* The spool implements the durable at-least-once queue: whatever file
\* operation fails and wherever the process crashes inside enqueue(), remove(),
\* defer(), bounce(), the recovery in open() or reap_bounced(), a committed
\* entry stays queued until a remote exchanger has accepted it or it is given
\* up, and an entry that left the queue never comes back.
ImplementsQueue == Queue!QueueSpec

\* bounce() promises that a crash between its two renames never strands a
\* .ctrl in the main directory whose .eml is gone: unless the message was
\* delivered (and remove() was interrupted), the marker is still there for
\* open() to finish the move.
NeverStranded ==
    \A id \in Ids :
        ctrl[id] = "main" /\ eml[id] # "main" => marker[id] \/ copies[id] > 0

\* Nobody's mail is given up silently: the DSN is handed over before the entry
\* is touched, so once an entry is marked or moved its sender has been told (a
\* remote one by a committed entry of its own), except for a null sender, an
\* unreadable entry, a DSN the local spam filter rejected, and an I/O failure
\* while the DSN was enqueued.
NoticeGiven(id) ==
    \/ sender[id] = "null"
    \/ notice[id] = "told" /\ sender[id] = "local"
    \/ notice[id] = "told" /\ \E d \in Ids : origin[d] = id /\ Committed(d)
    \/ notice[id] = "lost" /\ (sender[id] = "local" \/ faults > 0)
    \/ notice[id] = "unreadable" /\ faults > 0

SenderNotified == \A id \in Ids : Abandoned(id) => NoticeGiven(id)

\* No bounce loops: a DSN reports on a submitted message, never on a DSN, so
\* bounce_and_notify() cannot feed itself through the spool.
NoBounceLoop ==
    \A id \in Ids : origin[id] # 0 => sender[id] = "null" /\ origin[origin[id]] = 0

\* An entry is tried at most MAX_ATTEMPTS times, plus once for every crash and
\* every failed operation that kept the worker from recording an attempt.
TriesBounded ==
    \A id \in Ids : tries[id] <= MAX_ATTEMPTS + crashes + faults

\* A remote exchanger is given the message once, plus at most once for every
\* crash, failed removal and lost reply: relay_due() by itself never delivers a
\* message twice.
DuplicatesExplained ==
    \A id \in Ids : copies[id] <= 1 + crashes + faults

\* relay_due() respects the schedule: an entry is taken into a pass only when
\* its backoff has run out, and attempts of an entry under backoff never grow.
\* (Stated over steps: whenever relay() returns for an entry, the record's
\* waiting time is over.)
BackoffRespected ==
    [][\A id \in Ids : tries'[id] # tries[id] => wait[id] <= 0 /\ attempts[id] < MAX_ATTEMPTS]_vars

\* A silent exchanger holds the worker in relay() for ever.
HeldByPeer == [](pc = "relay")

\* Every committed entry eventually leaves the queue, delivered or given up,
\* although every attempt may be deferred, an error of defer(), remove() or
\* bounce() is ignored and the process may crash at any point of a pass.  The
\* one thing that keeps it is a peer that never answers: relay() has no timeout
\* (outbound.rs:233), and while it waits the whole queue waits with it.
EventuallySettled == \A id \in Ids : Queued(id) ~> (~Queued(id) \/ HeldByPeer)

\* The worker dropped the error of a bounce and goes on with its marker down.
LeftMarked(id) == faults > 0 /\ Up /\ marker[id]

\* An interrupted bounce is always finished, by the worker or, after a crash,
\* by open(), whatever fails and crashes there, and whatever the peers do; only
\* after a failed file operation of the worker it stays until the next start.
\* And bounced/ does not grow without bound: what was given up is reaped, unless
\* it was left marked or the passes, which reap, are held by a peer.
BouncesFinished ==
    \A id \in Ids :
        /\ marker[id] ~> (~marker[id] \/ []LeftMarked(id))
        /\ Abandoned(id) ~> (~Abandoned(id) \/ []LeftMarked(id) \/ HeldByPeer)

=============================================================================
