----------------------------- MODULE AuditLog -----------------------------
(***************************************************************************)
(* The audit log of crates/security/src/audit: record() traces an event,   *)
(* appends it to the hash-chained file and pushes it on a bounded ring,    *)
(* three steps under three different locks that recorders interleave.      *)
(*                                                                         *)
(* The file is the sequence of the pieces that were written to it.  A      *)
(* write that fails or is cut short by a crash leaves any prefix of its    *)
(* pieces, and what is appended next continues on the same line.           *)
(***************************************************************************)
EXTENDS Integers, Sequences, FiniteSets, SequencesExt, Lists

CONSTANTS Recorders, Capacity,
          MaxTears   \* bound: writes cut short

ASSUME AuditAssumption == Capacity \in Nat /\ MaxTears \in Nat

VARIABLES
    job,     \* what each recorder has still to do with its event
    trail,   \* events traced by this process, in order
    ring,    \* number of recent events kept in memory
    sink,    \* chain tip and next sequence number, or Closed
    text,    \* the chain file
    tears,
    stored,  \* ghost: events of the records whose hash reached the file
    safe     \* ghost: those of them from before the first tear

audit == <<job, trail, ring, sink, text, tears, stored, safe>>

---------------------------------------------------------------------------
Tab == <<"tab">>
Newline == <<"newline">>
CutHash == <<"cut">>               \* part of the 128 digits of a hash
Closed  == [prev |-> <<>>, seq |-> -1]
Idle    == <<"idle", "none">>

\* Blake2b as an injective function of the text before and of the payload.
chain_hash(prev, payload) == <<"hash", prev, payload>>

Payload(st, e) == <<<<"seq", st.seq>>, Tab, <<"event", e>>>>   \* the time is part of the event
Line(st, e) ==
    Payload(st, e) \o <<Tab, chain_hash(st.prev, Payload(st, e)), Newline>>

\* What a write that does not complete may leave in the file.
Torn(line) ==
    {SubSeq(line, 1, k) : k \in 0 .. Len(line)}
        \cup {SubSeq(line, 1, Len(line) - 2) \o <<CutHash>>}

\* str::lines(): a line ends before a newline; a last line without one is a line.
Ends(t)  == {i \in DOMAIN t : t[i] = Newline}
                \cup (IF t # <<>> /\ t[Len(t)] # Newline THEN {Len(t) + 1} ELSE {})
Lines(t) == [k \in 1 .. Cardinality(Ends(t)) |->
                SubSeq(t, IF k = 1 THEN 1 ELSE Nth(Ends(t), k - 1) + 1, Nth(Ends(t), k) - 1)]

\* rsplit_once('\t'): what stands before and behind the last tab of a line.
Tabs(line)   == {i \in DOMAIN line : line[i] = Tab}
Before(line) == SubSeq(line, 1, Max(Tabs(line)) - 1)
Behind(line) == SubSeq(line, Max(Tabs(line)) + 1, Len(line))

\* The first field of a payload, when its pieces are digits (a torn sequence
\* number and the next one run together, as decimal digits do).
FirstField(p) == IF Tabs(p) = {} THEN p ELSE SubSeq(p, 1, Min(Tabs(p)) - 1)
IsNumber(f)   == f # <<>> /\ \A i \in DOMAIN f : f[i][1] = "seq"
NumberOf(f) ==
    LET upto[n \in 0 .. Len(f)] == IF n = 0 THEN 0 ELSE 10 * upto[n - 1] + f[n][2]
    IN upto[Len(f)]

\* A tip that is not recovered at all: every start begins a new chain.
tip_forgotten(t) == [prev |-> <<>>, seq |-> 0]

\* The hash of the last line that has one, and the number behind the last
\* line that carries one.
tip(t) ==
    LET ls       == Lines(t)
        tabbed   == {i \in DOMAIN ls : Tabs(ls[i]) # {}}
        numbered == {i \in tabbed : IsNumber(FirstField(Before(ls[i])))}
    IN [prev |-> IF tabbed = {} THEN <<>> ELSE Behind(ls[Max(tabbed)]),
        seq  |-> IF numbered = {} THEN 0
                 ELSE NumberOf(FirstField(Before(ls[Max(numbered)]))) + 1]

\* verify(): the leading lines whose hash links to the line before.
Linked(lines, i) ==
    /\ Tabs(lines[i]) # {}
    /\ LET prev == IF i = 1 THEN <<>> ELSE Behind(lines[i - 1])
       IN Behind(lines[i]) = <<chain_hash(prev, Before(lines[i]))>>
verify(t) ==
    LET ls  == Lines(t)
        bad == {i \in DOMAIN ls : ~Linked(ls, i)}
    IN [valid |-> bad = {}, records |-> IF bad = {} THEN Len(ls) ELSE Min(bad) - 1]

EventOf(line) == Last(Before(line))[2]
---------------------------------------------------------------------------
\* The chain file may hold an earlier run's records; AuditLog::new opens it,
\* or goes on without a sink when that fails.
AuditInit ==
    /\ job = [r \in Recorders |-> Idle]
    /\ trail = <<>> /\ ring = 0 /\ text = <<>>
    /\ sink \in {tip(<<>>), Closed}
    /\ tears = 0 /\ stored = <<>> /\ safe = <<>>

\* record(event) is called.
Record(r, e) ==
    /\ job[r] = Idle
    /\ job' = [job EXCEPT ![r] = <<"trace", e>>]
    /\ UNCHANGED <<trail, ring, sink, text, tears, stored, safe>>

Trace(r) ==
    /\ job[r][1] = "trace"
    /\ trail' = Append(trail, job[r][2])
    /\ job' = [job EXCEPT ![r][1] = IF sink = Closed THEN "ring" ELSE "append"]
    /\ UNCHANGED <<ring, sink, text, tears, stored, safe>>

\* What a write leaves behind the text: the part of the line, and the record
\* when its hash is complete.
Leaves(part, line, e) ==
    /\ text' = text \o part
    /\ stored' = IF part \in {line, SubSeq(line, 1, Len(line) - 1)} THEN Append(stored, e)
                                                                   ELSE stored

\* append(): written, flushed and synced under the sink's lock.
Persist(r) ==
    /\ job[r][1] = "append"
    /\ LET line == Line(sink, job[r][2])
       IN /\ Leaves(line, line, job[r][2])
          /\ sink' = [prev |-> <<line[5]>>, seq |-> sink.seq + 1]
    /\ safe' = IF tears = 0 THEN Append(safe, job[r][2]) ELSE safe
    /\ job' = [job EXCEPT ![r][1] = "ring"]
    /\ UNCHANGED <<trail, ring, tears>>

\* The write or the sync fails: the tip stays, whatever reached the file.
PersistFails(r) ==
    /\ job[r][1] = "append"
    /\ LET line == Line(sink, job[r][2])
       IN \E part \in Torn(line) :
             /\ part # <<>> => tears < MaxTears
             /\ Leaves(part, line, job[r][2])
             /\ tears' = IF part = <<>> THEN tears ELSE tears + 1
    /\ job' = [job EXCEPT ![r][1] = "ring"]
    /\ UNCHANGED <<trail, ring, sink, safe>>

Push(r) ==
    /\ job[r][1] = "ring"
    /\ ring' = IF ring = Capacity THEN ring ELSE ring + 1
    /\ job' = [job EXCEPT ![r] = Idle]
    /\ UNCHANGED <<trail, sink, text, tears, stored, safe>>

\* The process dies, between two steps or in the middle of a write, and is
\* started again: open() recovers the tip from the file.
Reopen ==
    /\ sink' = tip(text')
    /\ job' = [r \in Recorders |-> Idle]
    /\ trail' = <<>> /\ ring' = 0

RestartClean == sink # Closed /\ UNCHANGED <<text, tears, stored, safe>> /\ Reopen

RestartTorn(r) ==
    /\ job[r][1] = "append" /\ tears < MaxTears
    /\ LET line == Line(sink, job[r][2])
       IN \E part \in Torn(line) \ {<<>>} :
             /\ Leaves(part, line, job[r][2])
             /\ tears' = IF part = line THEN tears ELSE tears + 1
             /\ safe' = IF part = line /\ tears = 0 THEN Append(safe, job[r][2]) ELSE safe
    /\ Reopen
---------------------------------------------------------------------------
\* A chain that verifies is the whole story, and a broken one is still good up
\* to its break.  As long as no write was cut short the file verifies, across
\* restarts and writes that left nothing.  What was recorded before the first
\* tear can be read back and verified, in order, whatever is appended since.
\* And whatever was torn, when verify() calls the file valid it holds exactly
\* the records whose hash was written, in order: a record that open() and
\* append() set behind a torn line, or behind one whose sync failed, never
\* passes for linked, and nothing that follows it hides the break.
ChainIntact ==
    LET ls == Lines(text)
        v  == verify(text)
    IN /\ tears = 0 => v.valid
       /\ v.records >= Len(safe) /\ \A i \in DOMAIN safe : EventOf(ls[i]) = safe[i]
       /\ v.valid => /\ v.records = Len(stored)
                     /\ \A i \in DOMAIN stored : EventOf(ls[i]) = stored[i]
=============================================================================
