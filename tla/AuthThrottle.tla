---------------------------- MODULE AuthThrottle ----------------------------
(***************************************************************************)
(* The credential-guessing throttle (throttle.rs) as the submission, POP3  *)
(* and IMAP loops use it (serve.rs).  A connection checks the throttle,    *)
(* verifies the credentials and records the outcome; the lock of the       *)
(* records is held in the first and in the last of these only, so the      *)
(* connections of one address interleave between them.                     *)
(*                                                                         *)
(* Instants are kept relative to now: `left' is what remains of            *)
(* locked_until, `idle' the time since last_seen, up to the lockout, beyond*)
(* which prune() tells nothing apart.  An attempt over a channel on which  *)
(* credentials are refused unseen touches no record and is left out.       *)
(***************************************************************************)
EXTENDS Naturals, FiniteSets

CONSTANTS
    Ips,                \* peer addresses
    Conns,              \* connections that can be open at the same time
    Closed,             \* no connection
    MaxFailures,        \* config.max_failures
    Lockout,            \* config.lockout, in ticks
    MaxBurst            \* bound: attempts counted between two resets

Protocols == {"submission", "pop3", "imap"}

\* `session': what a POP3 session holds, a pending USER or an open mailbox.
Connection == [ip : Ips, proto : Protocols, pc : {"command", "checked"},
               session : {"none", "user", "mailbox"}]

ASSUME ThrottleAssumption ==
    /\ IsFiniteSet(Conns)
    /\ Closed \notin Connection
    /\ MaxFailures \in Nat \ {0}
    /\ Lockout \in Nat \ {0}
    /\ MaxBurst \in Nat

VARIABLES
    records,            \* the record of each address
    conn,               \* the connections
    \* -- history, read by properties only
    attempts,           \* failures recorded for an address since its count began
    guesses             \* of these, passwords that were compared and did not match

throttleVars == <<records, conn, attempts, guesses>>

NoRecord == [present |-> FALSE, failures |-> 0, locked |-> FALSE, left |-> 0, idle |-> 0]

TypeOK ==
    /\ records \in [Ips -> [present : BOOLEAN, failures : 0..MaxFailures,
                            locked : BOOLEAN, left : 0..Lockout, idle : 0..Lockout]]
    /\ conn \in [Conns -> Connection \cup {Closed}]
    /\ attempts \in [Ips -> Nat]

ThrottleInit ==
    /\ records = [ip \in Ips |-> NoRecord]
    /\ conn = [c \in Conns |-> Closed]
    /\ attempts = [ip \in Ips |-> 0]
    /\ guesses = [ip \in Ips |-> 0]

\* check_at() answers FALSE.
Locked(ip) == records[ip].left > 0

At(c, pc) == conn[c] # Closed /\ conn[c].pc = pc

-----------------------------------------------------------------------------
(* Connections *)

Open(c, ip, proto) ==
    /\ conn[c] = Closed
    /\ conn' = [conn EXCEPT ![c] = [ip |-> ip, proto |-> proto, pc |-> "command", session |-> "none"]]
    /\ UNCHANGED <<records, attempts, guesses>>

\* QUIT, LOGOUT, the end of the stream or an input line too long.
Close(c) ==
    /\ At(c, "command")
    /\ conn' = [conn EXCEPT ![c] = Closed]
    /\ UNCHANGED <<records, attempts, guesses>>

User(c) ==
    /\ At(c, "command")
    /\ conn[c].proto = "pop3"
    /\ conn[c].session # "mailbox"
    /\ conn' = [conn EXCEPT ![c].session = "user"]
    /\ UNCHANGED <<records, attempts, guesses>>

\* Mutant: the throttle is consulted only when the connection is made.
CheckNever(c) ==
    /\ At(c, "command")
    /\ conn' = [conn EXCEPT ![c].pc = "checked"]
    /\ UNCHANGED <<records, attempts, guesses>>

\* AUTH PLAIN, PASS or LOGIN: a locked-out address is refused and disconnected.
Check(c) ==
    /\ At(c, "command")
    /\ IF Locked(conn[c].ip)
         THEN conn' = [conn EXCEPT ![c] = Closed]
         ELSE conn' = [conn EXCEPT ![c].pc = "checked"]
    /\ UNCHANGED <<records, attempts, guesses>>

-----------------------------------------------------------------------------
(* Records *)

\* prune() of one record.
Prune(r) == IF r.left > 0 \/ r.idle < Lockout THEN r ELSE NoRecord

\* The entry after a failure that leaves `count' failures and, if `on', a lock
\* of which `left' remains.
Failed(count, on, left) ==
    [present |-> TRUE, failures |-> count, locked |-> on, left |-> left, idle |-> 0]

\* Mutant: a failure while the lock is on starts it again.
FailExtending(r) ==
    LET count == IF r.locked /\ r.left = 0 THEN 1 ELSE r.failures + 1
    IN IF count >= MaxFailures
         THEN Failed(MaxFailures, TRUE, Lockout)
         ELSE Failed(count, FALSE, 0)

\* Mutant: the window that follows an elapsed lock keeps the old count.
FailNoReset(r) ==
    IF r.left > 0 THEN Failed(r.failures, r.locked, r.left)
    ELSE IF r.failures + 1 >= MaxFailures
      THEN Failed(MaxFailures, TRUE, Lockout)
      ELSE Failed(r.failures + 1, FALSE, 0)

\* The entry of the address after prune(): nothing but last_seen changes while
\* the lock is on; a lock that has elapsed begins a fresh window.
Fail(r) ==
    LET count == IF r.locked THEN 1 ELSE r.failures + 1
    IN IF r.left > 0 THEN Failed(r.failures, r.locked, r.left)
       ELSE IF count >= MaxFailures
         THEN Failed(count, TRUE, Lockout)
         ELSE Failed(count, FALSE, 0)

\* record_failure_at()
RecordFailure(ip) ==
    records' = [i \in Ips |-> IF i = ip THEN Fail(Prune(records[i])) ELSE Prune(records[i])]

\* The reply is sent and the next command awaited; PASS takes the pending user.
Resume(c, session) ==
    conn' = [conn EXCEPT ![c].pc = "command", ![c].session = session]

\* A password that a session compares: POP3 needs a pending USER.
Compares(c) == conn[c].proto = "pop3" => conn[c].session = "user"

Success(c) ==
    LET ip == conn[c].ip
    IN /\ At(c, "checked")
       /\ Compares(c)
       /\ records' = [records EXCEPT ![ip] = NoRecord]
       /\ attempts' = [attempts EXCEPT ![ip] = 0]
       /\ guesses' = [guesses EXCEPT ![ip] = 0]
       /\ Resume(c, IF conn[c].proto = "pop3" THEN "mailbox" ELSE "none")

\* The password does not match.
Failure(c) ==
    LET ip == conn[c].ip
    IN /\ At(c, "checked")
       /\ Compares(c)
       /\ attempts[ip] < MaxBurst
       /\ RecordFailure(ip)
       /\ attempts' = [attempts EXCEPT ![ip] = @ + 1]
       /\ guesses' = [guesses EXCEPT ![ip] = @ + 1]
       /\ Resume(c, "none")

\* PASS without USER, or in a session that is authenticated: an error reply,
\* which the loop records like a wrong password.
Misuse(c) ==
    LET ip == conn[c].ip
    IN /\ At(c, "checked")
       /\ ~Compares(c)
       /\ attempts[ip] < MaxBurst
       /\ RecordFailure(ip)
       /\ attempts' = [attempts EXCEPT ![ip] = @ + 1]
       /\ UNCHANGED guesses
       /\ Resume(c, conn[c].session)

\* AUTH PLAIN with no or a malformed initial response: 501, nothing recorded.
Malformed(c) ==
    /\ At(c, "checked")
    /\ conn[c].proto = "submission"
    /\ Resume(c, "none")
    /\ UNCHANGED <<records, attempts, guesses>>

-----------------------------------------------------------------------------
(* Time *)

\* A record one tick later.
Aged(r) ==
    [present  |-> r.present,
     failures |-> r.failures,
     locked   |-> r.locked,
     left     |-> IF r.left > 0 THEN r.left - 1 ELSE 0,
     idle     |-> IF r.present /\ r.idle < Lockout THEN r.idle + 1 ELSE r.idle]

\* The count of an address begins anew when its lock lifts, and when the
\* lockout has gone by since its last failure.
Anew(r) == IF r.left > 0 THEN Aged(r).left = 0 ELSE Aged(r).idle = Lockout

Tick ==
    /\ records' = [ip \in Ips |-> Aged(records[ip])]
    /\ attempts' = [ip \in Ips |-> IF Anew(records[ip]) THEN 0 ELSE attempts[ip]]
    /\ guesses' = [ip \in Ips |-> IF Anew(records[ip]) THEN 0 ELSE guesses[ip]]
    /\ UNCHANGED conn

ThrottleNext ==
    \/ \E c \in Conns : \/ \E ip \in Ips, proto \in Protocols : Open(c, ip, proto)
                        \/ Close(c) \/ User(c) \/ Check(c)
                        \/ Success(c) \/ Failure(c) \/ Misuse(c) \/ Malformed(c)
    \/ Tick

ThrottleSpec == ThrottleInit /\ [][ThrottleNext]_throttleVars

-----------------------------------------------------------------------------
(* Properties *)

InFlight(ip) == {c \in Conns : At(c, "checked") /\ conn[c].ip = ip}

\* Every wrong password of an address is counted, whatever the other addresses
\* do (each of their failures prunes the whole table) and whatever else this one
\* sends: as long as it is not locked out there were fewer than MaxFailures, and
\* the record holds at least these.  And a client whose every counted attempt
\* was such a password is locked out neither early nor late: an elapsed lock, a
\* success or a pruned record has ended its count.  For a client that also sent
\* PASS out of sequence no upper bound is claimed: serve_pop() records that as
\* a failure although credentials_checked() says "Only credential-checking
\* attempts are counted" (serve.rs:819).
GuessesCounted ==
    \A ip \in Ips :
        /\ ~Locked(ip) => guesses[ip] < MaxFailures /\ guesses[ip] <= records[ip].failures
        /\ guesses[ip] = attempts[ip] =>
              IF Locked(ip) THEN guesses[ip] >= MaxFailures
              ELSE guesses[ip] > 0 => records[ip].failures = guesses[ip]

\* The inductive invariant behind it: the record of an address and the history.
\* A lock that is on is marked in the record and came with the last of
\* MaxFailures recorded attempts; a record that counts holds their number, is
\* fresh and unmarked; one that must not count any more is marked as elapsed or
\* old enough to be pruned.
CountExact ==
    \A ip \in Ips :
        IF Locked(ip)
          THEN attempts[ip] >= MaxFailures
          ELSE attempts[ip] > 0 => /\ records[ip].failures = attempts[ip]
                                   /\ attempts[ip] < MaxFailures

RecordsMatch ==
    \A ip \in Ips :
        LET r == records[ip]
        IN IF Locked(ip) THEN r.locked
           ELSE IF attempts[ip] > 0 THEN r.present /\ ~r.locked /\ r.idle < Lockout
           ELSE r.locked \/ r.idle = Lockout \/ r.failures = 0

ThrottleInv == TypeOK /\ CountExact /\ RecordsMatch

GuessesRecorded == guesses \in [Ips -> Nat] /\ \A ip \in Ips : guesses[ip] <= attempts[ip]

\* Connections consult the throttle before they know the outcome, so more than
\* MaxFailures guesses of one address are evaluated before it is shut out; but
\* no more than one for each other connection that was let through by then.
GuessesBounded ==
    \A ip \in Ips : attempts[ip] + Cardinality(InFlight(ip)) <= MaxFailures - 1 + Cardinality(Conns)

\* A lock lasts its time.  A failure that was under way when it began does not
\* prolong it (record_failure_at: "the failure changes nothing until the lock
\* lifts"), nobody's pruning ends it, and it ends early only by a login that
\* succeeds and whose check came before the lock.
LockHeld ==
    [][\A ip \in Ips : Locked(ip) =>
          \/ records'[ip].left \in {records[ip].left, records[ip].left - 1}
          \/ /\ records'[ip].left = 0
             /\ attempts'[ip] = 0
             /\ \E c \in InFlight(ip) : c \notin InFlight(ip)']_throttleVars
=============================================================================
