----------------------------- MODULE RelayCall -----------------------------
(***************************************************************************)
(* What the relay worker is told by one call of relay(), and what it may   *)
(* conclude from it: the interface between the dialog with the exchangers  *)
(* (Relay) and the queue (Spool, whose action Attempt is one such call).   *)
(* The caller sees the report only; how many exchangers took the message   *)
(* is known to nobody but them.                                            *)
(***************************************************************************)
EXTENDS Naturals

VARIABLES
    report,             \* "pending" until the call returns
    copies,             \* exchangers that took the message
    lost                \* of these, the ones whose reply did not arrive

CallInit == report = "pending" /\ copies = 0 /\ lost = 0

\* An exchanger takes the message and its reply is lost; the call goes on with
\* the next address or exchange.
TakenUnseen ==
    /\ report = "pending"
    /\ copies' = copies + 1
    /\ lost' = lost + 1
    /\ UNCHANGED report

\* An exchanger takes the message and says so: the call is over.
TakenSeen ==
    /\ report = "pending"
    /\ copies' = copies + 1
    /\ report' = "delivered"
    /\ UNCHANGED lost

\* The call is over and nobody is known to have taken the message.
NotTaken ==
    /\ report = "pending"
    /\ report' \in {"deferred", "failed"}
    /\ UNCHANGED <<copies, lost>>

callVars == <<report, copies, lost>>

CallSpec == CallInit /\ [][TakenUnseen \/ TakenSeen \/ NotTaken]_callVars
=============================================================================
