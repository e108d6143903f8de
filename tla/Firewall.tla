----------------------------- MODULE Firewall -----------------------------
(***************************************************************************)
(* The connection gate of crates/security/src/firewall: check() reads the  *)
(* pause switch, the lists and the rate limiter one after the other, each  *)
(* under its own lock, while administrators pause, resume, allow and block *)
(* and the switch's transitions go to the audit log.                       *)
(***************************************************************************)
EXTENDS AuditLog

CONSTANTS Checkers,               \* the connections whose check() may be under way
          Ips, ConfigAllow, ConfigBlock,
          Burst,                  \* the quota's cells, one is refilled per tick
          MAINTENANCE_INTERVAL, PRUNE_INTERVAL,
          IdleTtl, MaxTracked, TraceCapacity,
          MaxCalls, MaxReloads    \* bounds

ASSUME FirewallAssumption ==
    /\ {Burst, MAINTENANCE_INTERVAL, PRUNE_INTERVAL, TraceCapacity} \subseteq Nat \ {0}
    /\ {IdleTtl, MaxTracked, MaxCalls, MaxReloads} \subseteq Nat
    /\ ConfigAllow \cup ConfigBlock \subseteq Ips

VARIABLES
    fw,       \* the Firewall: allow, block, paused, audited, limiter, tracker, trace, checks
    call,     \* each connection's check(): where it stands, the address, what held meanwhile
    attempts, \* ghost: calls of check() per address
    grants,   \* ghost: cells drawn per address that no tick has refilled yet
    calls, reloads

vars == <<audit, fw, call, attempts, grants, calls, reloads>>
---------------------------------------------------------------------------
\* Decision; "blocklisted" and "rate_limited" are the reasons of a Deny.
Decisions == {"allow", "blocklisted", "rate_limited"}
NoCall == [at |-> "none", ip |-> CHOOSE i \in Ips : TRUE, sawPause |-> FALSE,
           blocked |-> FALSE, decision |-> "allow"]
Unseen == [count |-> 0, idle |-> 0]

\* A keyed cell limiter (external): level counts the cells in use; an address
\* without a key has none.
FreshLimiter == [keys |-> {}, level |-> [i \in Ips |-> 0]]
Draw(l, i)   == [keys |-> l.keys \cup {i}, level |-> [l.level EXCEPT ![i] = @ + 1]]
Refill(l)    == [l EXCEPT !.level = [i \in Ips |-> IF @[i] = 0 THEN 0 ELSE @[i] - 1]]

\* Housekeeping that releases every key.
maintain_all(l) == FreshLimiter

\* maintain(): retain_recent() drops the keys no different from a fresh one.
maintain(l) == [l EXCEPT !.keys = {i \in @ : l.level[i] > 0}]

\* ConnectionTracker::record().
Tracked(t)  == {i \in Ips : t.rec[i].count > 0}
prune(t)    == [rec |-> [i \in Ips |-> IF t.rec[i].idle < IdleTtl THEN t.rec[i] ELSE Unseen],
                since |-> 0]
record(t, i) ==
    LET s == IF t.since + 1 >= PRUNE_INTERVAL THEN prune(t) ELSE [t EXCEPT !.since = @ + 1]
    IN IF i \in Tracked(s) \/ Cardinality(Tracked(s)) < MaxTracked
       THEN [s EXCEPT !.rec[i] = [count |-> @.count + 1, idle |-> 0]]
       ELSE s

\* Firewall::build() from the configuration.
build(audited) ==
    [allow |-> ConfigAllow, block |-> ConfigBlock, paused |-> FALSE, audited |-> audited,
     limiter |-> FreshLimiter, trace |-> 0, checks |-> 0,
     tracker |-> [rec |-> [i \in Ips |-> Unseen], since |-> 0]]

\* A firewall with an audit log, or one owned by a FirewallManager, which
\* attaches none and can be reloaded.
Init ==
    /\ AuditInit
    /\ fw \in {build(a) : a \in BOOLEAN}
    /\ call = [t \in Checkers |-> NoCall]
    /\ attempts = [i \in Ips |-> 0] /\ grants = [i \in Ips |-> 0]
    /\ calls = 0 /\ reloads = 0
---------------------------------------------------------------------------
Call == calls < MaxCalls /\ calls' = calls + 1

\* check(), whose trace is modelled by its length: housekeeping on every MAINTENANCE_INTERVAL-th call, then tracking.
Check(t, i) ==
    /\ call[t] = NoCall /\ Call
    /\ fw' = [fw EXCEPT !.checks = @ + 1,
                        !.limiter = IF fw.checks % MAINTENANCE_INTERVAL = 0 THEN maintain(@) ELSE @,
                        !.tracker = record(@, i)]
    /\ call' = [call EXCEPT ![t] = [NoCall EXCEPT !.at = "switch", !.ip = i,
                                                  !.sawPause = fw.paused, !.blocked = i \in fw.block]]
    /\ attempts' = [attempts EXCEPT ![i] = @ + 1]
    /\ UNCHANGED <<audit, grants, reloads>>

At(t, step)     == call[t].at = step
Goes(t, step)   == call' = [call EXCEPT ![t].at = step]
Decides(t, d)   == call' = [call EXCEPT ![t].at = "trace", ![t].decision = d]
QuietFw         == UNCHANGED <<audit, attempts, calls, reloads>>

\* The pause switch is read, then the allowlist, then the blocklist.
CheckSwitch(t) ==
    /\ At(t, "switch")
    /\ IF fw.paused THEN Decides(t, "allow") ELSE Goes(t, "allow")
    /\ UNCHANGED <<fw, grants>> /\ QuietFw

CheckAllow(t) ==
    /\ At(t, "allow")
    /\ IF call[t].ip \in fw.allow THEN Decides(t, "allow") ELSE Goes(t, "block")
    /\ UNCHANGED <<fw, grants>> /\ QuietFw

\* The blocklist consulted only for addresses the limiter knows nothing of.
CheckBlockFirst(t) ==
    /\ At(t, "block")
    /\ IF call[t].ip \in fw.block \ fw.limiter.keys
       THEN Decides(t, "blocklisted") ELSE Goes(t, "limit")
    /\ UNCHANGED <<fw, grants>> /\ QuietFw

CheckBlock(t) ==
    /\ At(t, "block")
    /\ IF call[t].ip \in fw.block THEN Decides(t, "blocklisted") ELSE Goes(t, "limit")
    /\ UNCHANGED <<fw, grants>> /\ QuietFw

CheckLimit(t) ==
    LET i == call[t].ip
    IN /\ At(t, "limit")
       /\ IF fw.limiter.level[i] < Burst
          THEN /\ Decides(t, "allow")
               /\ fw' = [fw EXCEPT !.limiter = Draw(@, i)]
               /\ grants' = [grants EXCEPT ![i] = @ + 1]
          ELSE /\ Decides(t, "rate_limited")
               /\ UNCHANGED <<fw, grants>>
       /\ QuietFw

CheckTrace(t) ==
    /\ At(t, "trace")
    /\ fw' = [fw EXCEPT !.trace = IF @ = TraceCapacity THEN @ ELSE @ + 1]
    /\ call' = [call EXCEPT ![t] = NoCall]
    /\ UNCHANGED grants /\ QuietFw

\* allow_ip(), block_ip().
Admin(t) ==
    /\ job[t] = Idle /\ Call
    /\ \E i \in Ips : fw' \in {[fw EXCEPT !.allow = @ \cup {i}], [fw EXCEPT !.block = @ \cup {i}]}
    /\ UNCHANGED <<audit, call, attempts, grants, reloads>>

\* The check()s that are under way see the switch on while it is on.
Witnessed(on) == [t \in Checkers |-> [call[t] EXCEPT !.sawPause = @ \/ (on /\ call[t] # NoCall)]]

\* Every call is recorded, transition or not.
SwitchAlways(t, on) ==
    /\ job[t] = Idle /\ Call
    /\ fw' = [fw EXCEPT !.paused = on]
    /\ call' = Witnessed(on)
    /\ IF fw.audited THEN Record(t, IF on THEN "paused" ELSE "resumed") ELSE UNCHANGED audit
    /\ UNCHANGED <<attempts, grants, reloads>>

\* PauseSwitch: the swap tells whether this call made the transition, and
\* only then the audit log is called, in a later step.
Switch(t, on) ==
    /\ job[t] = Idle /\ Call
    /\ fw' = [fw EXCEPT !.paused = on]
    /\ call' = Witnessed(on)
    /\ IF fw.paused # on /\ fw.audited
       THEN Record(t, IF on THEN "paused" ELSE "resumed")
       ELSE UNCHANGED audit
    /\ UNCHANGED <<attempts, grants, reloads>>

Pause(t)  == Switch(t, TRUE)
Resume(t) == Switch(t, FALSE)

\* FirewallManager::reload() takes the manager exclusively: no check() runs.
Reload ==
    /\ ~fw.audited /\ reloads < MaxReloads
    /\ \A t \in Checkers : call[t] = NoCall
    /\ fw' = build(FALSE)
    /\ reloads' = reloads + 1
    /\ attempts' = [i \in Ips |-> 0]
    /\ UNCHANGED <<audit, call, grants, calls>>

\* The age of a tracked address, up to where the code tells nothing apart.
Aged(r) == IF r.count > 0 /\ r.idle < IdleTtl THEN [r EXCEPT !.idle = @ + 1] ELSE r

\* Time passes: cells are refilled and tracked addresses become idle.
Tick ==
    /\ fw' = [fw EXCEPT !.limiter = Refill(@),
                        !.tracker.rec = [i \in Ips |-> Aged(@[i])]]
    /\ fw' # fw
    /\ grants' = [i \in Ips |-> IF grants[i] = 0 THEN 0 ELSE grants[i] - 1]
    /\ UNCHANGED <<audit, call, attempts, calls, reloads>>

\* Other users of the shared AuditLog (left out where the firewall has none,
\* for the two would be independent), and the log's own steps.
Logged(t) ==
    /\ \/ fw.audited /\ Record(t, "auth") /\ Call
       \/ (Trace(t) \/ Persist(t) \/ PersistFails(t) \/ Push(t)) /\ UNCHANGED calls
    /\ UNCHANGED <<fw, call, attempts, grants, reloads>>

\* A crash takes the firewall's state with it; the restarted process enforces.
Restart ==
    /\ fw.audited
    /\ RestartClean \/ \E t \in Recorders : RestartTorn(t)
    /\ fw' = build(TRUE)
    /\ call' = [t \in Checkers |-> NoCall]
    /\ attempts' = [i \in Ips |-> 0] /\ grants' = [i \in Ips |-> 0]
    /\ UNCHANGED <<calls, reloads>>

CheckSteps(t) == CheckSwitch(t) \/ CheckAllow(t) \/ CheckBlock(t) \/ CheckLimit(t) \/ CheckTrace(t)

Next ==
    \/ \E t \in Checkers : CheckSteps(t) \/ \E i \in Ips : Check(t, i)
    \/ \E t \in Recorders : Admin(t) \/ Pause(t) \/ Resume(t) \/ Logged(t)
    \/ Reload \/ Tick \/ Restart

Spec == Init /\ [][Next]_vars
---------------------------------------------------------------------------
\* Within a burst window an address gets no more connections through the
\* limiter than the quota, however often housekeeping ran in between; only a
\* reload, which starts with a new limiter, hands out another burst.
QuotaHeld == \A i \in Ips : grants[i] <= Burst * (1 + reloads)

\* An address that was on the blocklist before check() was called, and is not
\* on the allowlist, is let in only if enforcement was paused at some point
\* of that call, whichever way the reads interleave with pause and resume.
BlockHonoured ==
    \A t \in Checkers :
        (At(t, "trace") /\ call[t].decision = "allow" /\ call[t].blocked)
            => (call[t].sawPause \/ call[t].ip \in fw.allow)

\* The tracker stays within its cap during a flood and never reports more
\* attempts than were made.
TrackerSound ==
    /\ Cardinality(Tracked(fw.tracker)) <= MaxTracked
    /\ \A i \in Ips : fw.tracker.rec[i].count <= attempts[i]

\* What a flood can make of the firewall's own tables.
TablesBounded == QuotaHeld /\ TrackerSound

\* The total bypass is never silent: once every transition of the switch has
\* been handed to the log, the trail's pauses and resumptions, in whatever
\* order concurrent calls recorded them, add up to the switch's position.
Pending == \E t \in Recorders : job[t][1] = "trace" /\ job[t][2] # "auth"
CountOf(e) == Cardinality({i \in DOMAIN trail : trail[i] = e})
PauseAudited ==
    (fw.audited /\ ~Pending)
        => CountOf("paused") - CountOf("resumed") = (IF fw.paused THEN 1 ELSE 0)
=============================================================================
