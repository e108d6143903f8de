----------------------------- MODULE Lifecycle -----------------------------
(***************************************************************************)
(* The process from main() to its end: composition from the environment,   *)
(* the binding of the four listeners, one accept loop per listener with    *)
(* its own semaphore, a task per connection, the relay and the report      *)
(* worker, and the shutdown on Ctrl-C (main.rs, server.rs, serve.rs).      *)
(***************************************************************************)
EXTENDS Integers, FiniteSets, Sequences

CONSTANTS
    BindOrder, Inbound,         \* the listeners; Inbound is behind the firewall
    Limit,                      \* ConcurrencyLimits: permits of each listener
    Settings,                   \* the environments to start in, sets of Flags
    MaxPeers, MaxErrors         \* bounds: connections made, failed accepts

Listeners == {BindOrder[i] : i \in DOMAIN BindOrder}

\* A certificate is configured, the inbound port is 25, the host has a
\* resolver; SNAIL_MTA_STS, SNAIL_DANE, SNAIL_SPF_ENFORCE, SNAIL_DMARC_ENFORCE
\* and SNAIL_GREYLIST are set.
Flags == {"cert", "port25", "resolver", "sts", "dane", "spf", "dmarc", "greylist"}

ASSUME LifecycleAssumption ==
    /\ Settings \subseteq SUBSET Flags
    /\ BindOrder \in Seq(STRING) /\ Inbound \in Listeners
    /\ Len(BindOrder) = Cardinality(Listeners)
    /\ Limit \in [Listeners -> Nat] /\ MaxPeers \in Nat /\ MaxErrors \in Nat

VARIABLES
    env,        \* what the operator asked for and what the host provides
    phase,      \* where main() stands
    server,     \* the composed Server: which parts it has
    bound,      \* listeners bound so far
    queue,      \* connections waiting in the OS queue, per listener
    free,       \* available permits
    loop,       \* state of each accept loop
    gate, open, \* connections before the firewall's answer, and being served
    worker,     \* the two workers
    wakeup,     \* a stored Notify permit for each worker
    peers, errors

vars == <<env, phase, server, bound, queue, free, loop, gate, open, worker, wakeup, peers, errors>>
boot == <<env, server, bound>>
conns == <<queue, free, loop, gate, open, peers, errors>>
tasks == <<worker, wakeup>>

Workers == {"relay", "report"}
---------------------------------------------------------------------------
(* main(): each step may end the process with an error *)

Init ==
    /\ env \in Settings
    /\ phase = "certs" /\ server = {} /\ bound = {}
    /\ queue = [l \in Listeners |-> 0] /\ free = Limit
    /\ loop = [l \in Listeners |-> "none"]
    /\ gate = [l \in Listeners |-> 0] /\ open = [l \in Listeners |-> 0]
    /\ worker = [w \in Workers |-> "none"] /\ wakeup = [w \in Workers |-> FALSE]
    /\ peers = 0 /\ errors = 0

Booting == UNCHANGED <<env, conns, tasks>>
Goto(p) == phase' = p
Fails   == Goto("failed") /\ UNCHANGED <<server, bound>> /\ Booting

\* cert_plan()
cert_plan ==
    CASE "cert" \in env -> "configured"
      [] "cert" \notin env /\ "port25" \in env -> "refuse"
      [] OTHER -> "ephemeral"

\* What the builders of Server add to its parts.  A client configuration for
\* TLS that cannot be built leaves a relay that never offers it.
with_tls(plan) == {plan}
with_relay(parts, tls) == parts \cup {"relay", "resolver"} \cup (IF tls THEN {"starttls"} ELSE {})
with_mta_sts(parts) == parts \cup (env \cap {"sts"})
with_dane(parts) == parts \cup (env \cap {"dane"})
with_enforcement(parts) == parts \cup (env \cap {"spf", "dmarc"})
with_greylist(parts) == parts \cup (env \cap {"greylist"})

\* What of the server's parts an inbound message meets: SPF, DKIM and DMARC
\* are evaluated, and hence enforced, only when there is a resolver.
InEffect == server \ (IF "resolver" \in server THEN {} ELSE {"spf", "dmarc"})

\* load_certs(), the spool directory, with_tls().
LoadCerts ==
    /\ phase = "certs"
    /\ \/ /\ cert_plan # "refuse"
          /\ server' = with_tls(cert_plan) /\ Goto("resolver") /\ UNCHANGED bound /\ Booting
       \/ Fails

\* A trust store that cannot be built leaves MTA-STS out.
ConfigureRelaySoft ==
    /\ phase = "resolver"
    /\ IF "resolver" \in env
         THEN \E tls, sts \in BOOLEAN :
                 server' = with_dane(IF sts THEN with_mta_sts(with_relay(server, tls))
                                            ELSE with_relay(server, tls))
         ELSE UNCHANGED server
    /\ Goto("users") /\ UNCHANGED bound /\ Booting

\* Without a system resolver the server runs without relay, and without the
\* outbound and inbound checks that need one; a trust store that cannot be
\* built is fatal when MTA-STS was asked for.
ConfigureRelay ==
    /\ phase = "resolver"
    /\ \/ /\ IF "resolver" \in env
               THEN \E tls \in BOOLEAN : server' = with_dane(with_mta_sts(with_relay(server, tls)))
               ELSE UNCHANGED server
          /\ Goto("users") /\ UNCHANGED bound /\ Booting
       \/ {"resolver", "sts"} \subseteq env /\ Fails

\* Enforcement flags, greylist, users; a malformed user entry is fatal.
ConfigureInbound ==
    /\ phase = "users"
    /\ \/ /\ server' = with_greylist(with_enforcement(server))
          /\ Goto("bind") /\ UNCHANGED bound /\ Booting
       \/ Fails

\* run(): the listeners are bound one after the other; only then the workers
\* and the loops are started.
Bind ==
    /\ phase = "bind" /\ bound # Listeners
    /\ \/ /\ bound' = bound \cup {BindOrder[Cardinality(bound) + 1]}
          /\ UNCHANGED <<phase, server>> /\ Booting
       \/ Fails

Start ==
    /\ phase = "bind" /\ bound = Listeners
    /\ Goto("running")
    /\ loop' = [l \in Listeners |-> "permit"]
    /\ worker' = [w \in Workers |-> IF "relay" \in server THEN "asleep" ELSE "none"]
    /\ UNCHANGED <<boot, queue, free, gate, open, wakeup, peers, errors>>
---------------------------------------------------------------------------
(* Connections *)

Alive == phase \notin {"stopped", "failed"}
UnchangedElse == UNCHANGED <<boot, phase, tasks>>

\* A peer connects to a bound port.
Connect(l) ==
    /\ Alive /\ l \in bound /\ peers < MaxPeers
    /\ queue' = [queue EXCEPT ![l] = @ + 1] /\ peers' = peers + 1
    /\ UNCHANGED <<free, loop, gate, open, errors>> /\ UnchangedElse

\* One semaphore for all listeners.
AcquireShared(l) ==
    /\ loop[l] = "permit" /\ free[Inbound] > 0
    /\ free' = [free EXCEPT ![Inbound] = @ - 1]
    /\ loop' = [loop EXCEPT ![l] = "accept"]
    /\ UNCHANGED <<queue, gate, open, peers, errors>> /\ UnchangedElse

\* accept_loop(): a permit first, then accept().
Acquire(l) ==
    /\ loop[l] = "permit" /\ free[l] > 0
    /\ free' = [free EXCEPT ![l] = @ - 1]
    /\ loop' = [loop EXCEPT ![l] = "accept"]
    /\ UNCHANGED <<queue, gate, open, peers, errors>> /\ UnchangedElse

Accept(l) ==
    /\ loop[l] = "accept" /\ queue[l] > 0
    /\ queue' = [queue EXCEPT ![l] = @ - 1]
    /\ gate' = IF l = Inbound THEN [gate EXCEPT ![l] = @ + 1] ELSE gate
    /\ open' = IF l = Inbound THEN open ELSE [open EXCEPT ![l] = @ + 1]
    /\ loop' = [loop EXCEPT ![l] = "permit"]
    /\ UNCHANGED <<free, peers, errors>> /\ UnchangedElse

\* The permit is forgotten on the error path.
AcceptFailsLeaky(l) ==
    /\ loop[l] = "accept" /\ errors < MaxErrors
    /\ errors' = errors + 1
    /\ loop' = [loop EXCEPT ![l] = "permit"]
    /\ UNCHANGED <<queue, gate, open, peers, free>> /\ UnchangedElse

\* accept() fails: the permit goes back and the loop goes on.
AcceptFails(l) ==
    /\ loop[l] = "accept" /\ errors < MaxErrors
    /\ errors' = errors + 1
    /\ loop' = [loop EXCEPT ![l] = "permit"]
    /\ free' = [free EXCEPT ![l] = @ + 1]
    /\ UNCHANGED <<queue, gate, open, peers>> /\ UnchangedElse

\* serve_inbound_firewalled(): served, or told 421 and dropped.
Gate ==
    /\ gate[Inbound] > 0
    /\ gate' = [gate EXCEPT ![Inbound] = @ - 1]
    /\ \/ open' = [open EXCEPT ![Inbound] = @ + 1] /\ UNCHANGED free
       \/ free' = [free EXCEPT ![Inbound] = @ + 1] /\ UNCHANGED open
    /\ UNCHANGED <<queue, loop, peers, errors>> /\ UnchangedElse

\* The handler ends, with an error or not; a silent peer keeps it for ever.
Finish(l) ==
    /\ open[l] > 0 /\ Alive
    /\ open' = [open EXCEPT ![l] = @ - 1]
    /\ free' = [free EXCEPT ![l] = @ + 1]
    /\ UNCHANGED <<queue, loop, gate, peers, errors>> /\ UnchangedElse
---------------------------------------------------------------------------
(* Workers and shutdown *)

\* select!: the timer and the notification race; a pass that has begun runs
\* to its end.
Wake(w) ==
    /\ worker[w] = "asleep"
    /\ worker' = [worker EXCEPT ![w] = "busy"]
    /\ UNCHANGED <<boot, phase, conns, wakeup>>

Stop(w) ==
    /\ worker[w] = "asleep" /\ wakeup[w]
    /\ worker' = [worker EXCEPT ![w] = "done"] /\ wakeup' = [wakeup EXCEPT ![w] = FALSE]
    /\ UNCHANGED <<boot, phase, conns>>

EndPass(w) ==
    /\ worker[w] = "busy"
    /\ worker' = [worker EXCEPT ![w] = "asleep"]
    /\ UNCHANGED <<boot, phase, conns, wakeup>>

CtrlC == phase = "running" /\ Goto("aborting") /\ UNCHANGED <<boot, conns, tasks>>

\* abort() takes effect where the loop waits; the permit it holds is dropped.
Abort(l) ==
    /\ phase = "aborting" /\ loop[l] \in {"permit", "accept"}
    /\ free' = IF loop[l] = "accept" THEN [free EXCEPT ![l] = @ + 1] ELSE free
    /\ loop' = [loop EXCEPT ![l] = "aborted"]
    /\ UNCHANGED <<queue, gate, open, peers, errors>> /\ UnchangedElse

\* A wake-up that reaches only a worker that is waiting for it.
NotifyWaiters ==
    /\ phase = "aborting" /\ \A l \in Listeners : loop[l] = "aborted"
    /\ wakeup' = [w \in Workers |-> worker[w] = "asleep"]
    /\ Goto("joining")
    /\ UNCHANGED <<boot, conns, worker>>

\* All loops joined: notify_one() stores a permit if nobody waits.
Notify ==
    /\ phase = "aborting" /\ \A l \in Listeners : loop[l] = "aborted"
    /\ wakeup' = [w \in Workers |-> TRUE]
    /\ Goto("joining")
    /\ UNCHANGED <<boot, conns, worker>>

\* The workers that were started are awaited, then main() returns and the
\* connections still open are dropped with the runtime.
Return ==
    /\ phase = "joining" /\ \A w \in Workers : worker[w] \in {"none", "done"}
    /\ Goto("stopped")
    /\ gate' = [l \in Listeners |-> 0] /\ open' = [l \in Listeners |-> 0] /\ free' = Limit
    /\ queue' = [l \in Listeners |-> 0]
    /\ UNCHANGED <<boot, loop, peers, errors, tasks>>

Boot == LoadCerts \/ ConfigureRelay \/ ConfigureInbound \/ Bind \/ Start
Serving(l) == Acquire(l) \/ Accept(l) \/ AcceptFails(l)
Main == \/ Notify \/ Return \/ \E l \in Listeners : Abort(l)

Next ==
    \/ Boot \/ CtrlC \/ Main \/ Gate
    \/ \E l \in Listeners : Connect(l) \/ Serving(l) \/ Finish(l)
    \/ \E w \in Workers : Wake(w) \/ Stop(w) \/ EndPass(w)

\* Spawned tasks are scheduled and reports need no peer; nothing makes a
\* client finish, an exchanger of the relay's answer, or an operator press Ctrl-C.
Fairness ==
    /\ WF_vars(Main) /\ WF_vars(Gate) /\ WF_vars(EndPass("report"))
    /\ \A l \in Listeners : WF_vars(Acquire(l)) /\ WF_vars(Accept(l))
    /\ \A w \in Workers : SF_vars(Stop(w))

Spec == Init /\ [][Next]_vars
FairSpec == Spec /\ Fairness
---------------------------------------------------------------------------
\* No permit is lost or made up, on the error path, at the firewall's refusal
\* or when a loop is aborted while it holds one: what a listener serves never
\* exceeds its limit and the whole limit stays usable.
PermitsConserved ==
    \A l \in Listeners :
        free[l] + gate[l] + open[l] + (IF loop[l] = "accept" THEN 1 ELSE 0) = Limit[l]

\* main() fails rather than weaken what it goes on to offer: no certificate is
\* made up for the public port, and a server that relays mail has every check
\* that was asked for in effect, the outbound ones (a trust store that cannot be
\* built is fatal) and the inbound ones (they share the relay's resolver).  Only
\* a host without a resolver runs with less than was asked for, and then it does
\* not relay; but its SPF and DMARC enforcement is off as well, where the comment
\* at main.rs:57-59 has it that "only outbound relay is disabled".
NoSilentDowngrade ==
    loop[Inbound] # "none" =>
        /\ "port25" \in env => "ephemeral" \notin server
        /\ \/ env \cap {"sts", "dane", "spf", "dmarc", "greylist"} \subseteq InEffect
           \/ {"relay", "resolver"} \cap (server \cup env) = {}

\* A listener is starved by nothing but its own connections: while the server
\* runs, whoever waits is accepted unless that listener's permits are all in
\* use, whatever the other listeners do.
AcceptedUnlessFull ==
    \A l \in Listeners :
        (phase = "running" /\ queue[l] > 0)
            ~> (queue[l] = 0 \/ open[l] = Limit[l] \/ phase # "running")

\* A shutdown ends, unless a pass of the relay worker never does (run(),
\* spawn_relay_worker()): a notification sent while either worker is in the
\* middle of a pass reaches it when the pass is over, and neither open
\* connections nor the report worker hold the shutdown up.
ShutdownEnds ==
    phase = "aborting" ~> (phase = "stopped" \/ [](worker["relay"] = "busy"))
=============================================================================
