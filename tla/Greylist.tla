------------------------------ MODULE Greylist ------------------------------
(***************************************************************************)
(* The greylist of the inbound port (greylist.rs): the first attempt of a  *)
(* (network, sender, recipient) triplet is deferred, a retry that waited   *)
(* long enough passes and is remembered.  check() runs under one lock, so  *)
(* one action is one call; the triplets share the bounded table.           *)
(*                                                                         *)
(* Instants are kept relative to now: `waited' is the time since           *)
(* first_seen and `idle' the time since last_seen, each up to the point    *)
(* beyond which the code tells nothing apart.                              *)
(***************************************************************************)
EXTENDS Naturals, FiniteSets

CONSTANTS
    Triplets,           \* masked network, sender and recipient, case folded
    Delay,              \* config.delay, in ticks
    PendingTtl,         \* config.pending_ttl
    PassTtl,            \* config.pass_ttl
    MaxEntries          \* config.max_entries

ASSUME GreylistAssumption ==
    /\ Delay \in Nat
    /\ PendingTtl \in Nat
    /\ PassTtl \in Nat
    /\ MaxEntries \in Nat

Horizon == PendingTtl + PassTtl     \* no entry lives so long unseen

VARIABLES
    entries,            \* entries[t]: the Entry of t
    decision,           \* the last call: who asked, and what check() decided
    \* -- history, read by properties only
    last,               \* last[t]: what was last decided for t
    since,              \* since[t]: ticks since t was deferred as unseen
    gap                 \* gap[t]: ticks since t last asked

greylistVars == <<entries, decision, last, since, gap>>

NoEntry == [state |-> "absent", waited |-> 0, idle |-> 0]
Decisions == {"none", "allow", "defer", "open"}

GreylistTypeOK ==
    /\ entries \in [Triplets -> [state : {"absent", "pending", "passed"},
                                 waited : 0..Delay, idle : 0..Horizon]]
    /\ decision \in [of : Triplets, is : Decisions]
    /\ last \in [Triplets -> Decisions]
    /\ since \in [Triplets -> 0..Delay]
    /\ gap \in [Triplets -> 0..Horizon]
    /\ Cardinality({t \in Triplets : entries[t].state # "absent"}) <= MaxEntries

GreylistInit ==
    /\ entries = [t \in Triplets |-> NoEntry]
    /\ decision \in [of : Triplets, is : {"none"}]
    /\ last = [t \in Triplets |-> "none"]
    /\ since = [t \in Triplets |-> 0]
    /\ gap = [t \in Triplets |-> 0]

-----------------------------------------------------------------------------
(* check() *)

\* prune() of one entry; `absent' stays absent.
prune(e) ==
    LET ttl == IF e.state = "passed" THEN PassTtl ELSE PendingTtl
    IN IF e.idle < ttl THEN e ELSE NoEntry

Pruned == [t \in Triplets |-> prune(entries[t])]

Tracked(table) == {t \in Triplets : table[t].state # "absent"}

Decide(t, table, result) ==
    /\ entries' = table
    /\ decision' = [of |-> t, is |-> result]
    /\ last' = [last EXCEPT ![t] = result]
    /\ gap' = [gap EXCEPT ![t] = 0]

\* Mutant: any retry passes.
RetryAlways(t) ==
    /\ Pruned[t].state # "absent"
    /\ Decide(t, [Pruned EXCEPT ![t].state = "passed", ![t].idle = 0], "allow")
    /\ UNCHANGED since

\* A triplet that is tracked: accepted if it passed before or waited enough.
Retry(t) ==
    LET e == Pruned[t]
        pass == e.state = "passed" \/ e.waited >= Delay
    IN /\ e.state # "absent"
       /\ Decide(t, [Pruned EXCEPT ![t].state = IF pass THEN "passed" ELSE "pending",
                                   ![t].idle = 0],
                 IF pass THEN "allow" ELSE "defer")
       /\ UNCHANGED since

\* Mutant: the table may grow past its cap.
FirstUncapped(t) ==
    /\ Pruned[t].state = "absent"
    /\ Decide(t, [Pruned EXCEPT ![t] = [state |-> "pending", waited |-> 0, idle |-> 0]], "defer")
    /\ since' = [since EXCEPT ![t] = 0]

\* Mutant: a full table forgets the others.
FullForgets(t) ==
    /\ Pruned[t].state = "absent"
    /\ Cardinality(Tracked(Pruned)) >= MaxEntries
    /\ Decide(t, [x \in Triplets |-> NoEntry], "open")
    /\ UNCHANGED since

\* An unseen triplet.
First(t) ==
    /\ Pruned[t].state = "absent"
    /\ Cardinality(Tracked(Pruned)) < MaxEntries
    /\ Decide(t, [Pruned EXCEPT ![t] = [state |-> "pending", waited |-> 0, idle |-> 0]], "defer")
    /\ since' = [since EXCEPT ![t] = 0]

\* An unseen triplet when the table is full: let through, and not tracked.
Full(t) ==
    /\ Pruned[t].state = "absent"
    /\ Cardinality(Tracked(Pruned)) >= MaxEntries
    /\ Decide(t, Pruned, "open")
    /\ UNCHANGED since

Older(n, limit) == IF n < limit THEN n + 1 ELSE n

GreylistTick ==
    /\ entries' = [t \in Triplets |->
            [entries[t] EXCEPT !.waited = IF entries[t].state = "absent" THEN 0 ELSE Older(@, Delay),
                               !.idle   = IF entries[t].state = "absent" THEN 0 ELSE Older(@, Horizon)]]
    /\ since' = [t \in Triplets |-> Older(since[t], Delay)]
    /\ gap' = [t \in Triplets |-> Older(gap[t], Horizon)]
    /\ decision' = [decision EXCEPT !.is = "none"]
    /\ UNCHANGED last

GreylistNext ==
    \/ \E t \in Triplets : First(t) \/ Retry(t) \/ Full(t)
    \/ GreylistTick

GreylistSpec == GreylistInit /\ [][GreylistNext]_greylistVars

-----------------------------------------------------------------------------
(* Properties *)

Asks(t) == decision'.of = t /\ decision'.is # "none"

\* Nobody gets through a table that has room without having been deferred, and
\* having waited the delay since: neither early retries, nor those of other
\* triplets, nor an entry that was forgotten and made again shorten it.
AllowEarned ==
    [][\A t \in Triplets :
          decision'.is = "allow" /\ Asks(t) => last[t] \in {"defer", "allow"} /\ since[t] >= Delay]_greylistVars

\* t was deferred and its delay is over, or it was accepted; and it is remembered.
Welcome(t) ==
    \/ last[t] = "defer" /\ since[t] >= Delay /\ gap[t] < PendingTtl
    \/ last[t] = "allow" /\ gap[t] < PassTtl

\* A sender that was deferred and retries within the time it is remembered, the
\* delay over, is accepted, and one that passed is not deferred again for
\* pass_ttl after its last mail, whatever a flood of other triplets does to the
\* table.
RetryAccepted ==
    [][\A t \in Triplets : Asks(t) /\ Welcome(t) => decision'.is = "allow"]_greylistVars
=============================================================================
