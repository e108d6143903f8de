----------------------------- MODULE MailQueue -----------------------------
(***************************************************************************)
(* What the outbound spool promises to whoever hands it a message: a       *)
(* durable, at-least-once queue.  An entry that was committed stays queued *)
(* until either the remote exchanger has accepted it or the server gives   *)
(* it up and keeps it for inspection; it is never forgotten and never      *)
(* comes back.  There is no crash, no file and no worker at this level: a  *)
(* crash of the server must look like a pause.                             *)
(***************************************************************************)
CONSTANT Ids            \* the queue ids

VARIABLES
    status,             \* status[id]: "none", "queued", "failed" or "gone"
    accepted            \* the entries a remote exchanger has accepted

QueueInit ==
    /\ status = [id \in Ids |-> "none"]
    /\ accepted = {}

\* The entry is committed.
Commit(id) ==
    /\ status[id] = "none"
    /\ status' = [status EXCEPT ![id] = "queued"]
    /\ UNCHANGED accepted

\* A remote exchanger takes responsibility for the message (possibly again).
Accept(id) ==
    /\ status[id] = "queued"
    /\ accepted' = accepted \cup {id}
    /\ UNCHANGED status

\* The entry leaves the queue, but only after somebody else accepted it.
Complete(id) ==
    /\ status[id] = "queued"
    /\ id \in accepted
    /\ status' = [status EXCEPT ![id] = "gone"]
    /\ UNCHANGED accepted

\* The server gives the entry up and keeps it among the bounced messages.
Abandon(id) ==
    /\ status[id] = "queued"
    /\ status' = [status EXCEPT ![id] = "failed"]
    /\ UNCHANGED accepted

\* Retention of a bounced message has run out.
Expire(id) ==
    /\ status[id] = "failed"
    /\ status' = [status EXCEPT ![id] = "gone"]
    /\ UNCHANGED accepted

QueueNext ==
    \E id \in Ids :
        Commit(id) \/ Accept(id) \/ Complete(id) \/ Abandon(id) \/ Expire(id)

queueVars == <<status, accepted>>

QueueSpec == QueueInit /\ [][QueueNext]_queueVars
=============================================================================
