# Snail: a verification development

Snail is a self-hosted mail server in Rust: it accepts mail on a public SMTP
port and on an authenticated submission port, stores mail for its own users,
relays the rest through a durable spool, and lets users read their mailboxes
over POP3 and IMAP. This directory holds TLA+ modules that model its core, the
TLC configurations that check them on small instances, and proofs that TLAPS
checks for every instance. `PROJECT.json` maps every definition to the lines it
models, and lists the runs, the mutants each property is tried against, the
hazards, the findings and the theorems.

## 1. Inventory

### The parts, their state and their operations

| part | source | state | operations | module |
|---|---|---|---|---|
| outbound spool, relay worker | `snail_server/src/{spool,worker}.rs` | two files per entry (`.eml`, `.ctrl`), a marker `.bouncing`, the directory `bounced/`; the pass in progress | open (with recovery), enqueue, due_now, load, defer, remove, bounce, reap; every tick: relay, retry, bounce with a DSN | `Spool`, `MailQueue` |
| outbound relay | `snail_server/src/outbound.rs` | one call: exchanges, addresses, posture, dialog | relay, relay_to | `Relay`, `RelayCall` |
| DANE, client TLS | `network/src/{dane,tls}`, `dns/tlsa.rs` | none | which chain a posture accepts | `Dane` |
| DNS resolver | `network/src/dns/manager.rs` | none | lookups, validated or not | `Dns` |
| MTA-STS resolver | `network/src/mta_sts/` | cache of policies by domain | policy_for; reading of records and policy files | `MtaSts`, `StsPolicy` |
| SMTP connections | `snail_server/src/serve.rs`, `mail/src/transport/smtp.rs`, `access/src/msa.rs` | one session per connection | HELO, MAIL, RCPT, DATA, RSET, STARTTLS, AUTH, QUIT, body lines, end of body | `SmtpServer` |
| message and framing | `mail/src/snailmail.rs`, `transport/{inbound,outbound}.rs` | none | lines, dot-stuffing, header and path parsing | `Wire` |
| routing and delivery | `server.rs`, `transport/mta.rs`, `storage/mda.rs` | none of its own | accept_inbound: mailboxes and one spool entry per remote domain | `SmtpServer` |
| message authentication | `serve_inbound`, `network/src/{dkim,dmarc}` | none | hop count, SPF, DKIM, DMARC, stamps | `MailAuth`, `Dkim` |
| SPF | `network/src/spf/` | one evaluation: a stack of policies, two budgets | check_host | `Spf` |
| DMARC reports | `snail_server/src/dmarc_report.rs` | rows of the current window | record, drain, flush | `MailAuth` |
| mailbox store, POP3, IMAP | `mail/src/storage/store.rs`, `access/src/{pop,imap}.rs`, loops in `serve.rs` | messages by mailbox, the next id; phase, user, listing, marks | deliver, list, remove; the commands of each protocol | `MailAccess` |
| credentials | `identity/src`, `security/src/credential` | registered users | register, authenticate, AUTH PLAIN, command parsing | `Logon` |
| credential throttle | `security/src/throttle.rs` | failures and lock by address | check, record_failure, record_success | `AuthThrottle` |
| greylist | `security/src/greylist.rs` | bounded table of triplets | check | `Greylist` |
| firewall | `security/src/firewall/` | lists, pause switch, rate limiter, tracker | check, block, allow, pause, resume, reload | `Firewall` |
| audit | `security/src/audit/` | bounded ring, hash-chained file | record, append, open, verify | `AuditLog` |
| process | `main.rs`, `server.rs`, `run` and `accept_loop` in `serve.rs` | parts enabled, permits per listener, workers | start, accept, shut down | `Lifecycle` |

### How they interact

    peers --> SMTP connection --> accept_inbound --> mailbox store <-- POP3/IMAP
                |   |   |                |                  ^
         greylist throttle firewall      v                  | DSN to a local sender
                                       spool <--> relay worker
                                                     |
                                                     v
                                 relay --> MTA-STS cache, DANE, DNS --> exchangers

Each connection is a task; the relay worker and the report worker are one task
each. They share the spool directory (no lock; ids are unique and only the
worker touches a committed entry), the store, the throttle and the greylist (a
mutex for the length of one call each), and the firewall and the audit log (one
lock for each of their parts, so a call is several critical sections). Everything in memory, the mailbox store
included, is lost with the process; the spool and the audit file survive.

### What is hard

* **Crashes**: every operation of the spool is several file operations, and
  `open()` must repair any prefix of them, also when it crashes itself.
* **Ignored errors**: the worker drops the results of `remove`, `defer`,
  `bounce` and of handing over a DSN.
* **Unreliable peers**: a connection may break before, in or after any command;
  after the body nobody knows whether the message was taken.
* **Check then act**: the throttle is asked before a password is compared and
  told afterwards; POP3 lists at PASS and removes at QUIT; MTA-STS discovers an
  id, then fetches the policy.
* **Long dialogs**: one SMTP or IMAP session serves many transactions, users
  and, across STARTTLS, channels.
* **Bounded tables** at their limit: greylist, MTA-STS cache, recipients,
  connection tracker, permits, the budgets of SPF.
* **Several locks in one call**: the firewall reads its switch, its lists and its
  limiter one after the other while they change; a pause is switched first and
  recorded afterwards.
* **Texts that two parties must read alike**: where a body ends, what a signature
  covers, which name a wildcard stands for.
* **Progress**: every queued message must leave the queue, a shutdown must end, a
  listener must not be starved by another, an SPF evaluation must end.

### What makes each part correct

* spool and worker: an accepted message stays until somebody else took it or
  its sender was told; no stranded files, no loops, bounded attempts; progress;
* relay: nothing is sent outside the posture the policies demand; exchanges are
  tried in order and all of them; the report means what it says;
* MTA-STS: a cached policy is applied for its life, under its own id;
* SMTP: no relaying for strangers; what is answered 250 is stored or queued;
  no credentials in clear; the envelope is what the client was told;
* POP3/IMAP and the store: only what the owner marked is removed, only own mail
  is shown, numbers do not move;
* throttle: a bounded number of guesses, exact counts, locks that end;
* greylist: nobody passes early, a proper retry always does;
* firewall and audit: a blocked address is not served once the block is in force,
  pauses are on record, a chain that verifies is complete and in order;
* SPF, DKIM, DMARC: the verdict is the one the published records and the bytes as
  signed call for; every aggregate row is reported once or accounted for;
* process: permits add up, a server that relays has every check it was asked for,
  a shutdown ends.

## 2. Modules

Each variable and action is commented in its module; the line numbers are in
`PROJECT.json`.

**`MailQueue`** is the abstract specification of the spool: a durable,
at-least-once queue without files, crashes or a worker.

**`Spool`** models `spool.rs` and `worker.rs` one file operation per action.
`eml`, `ctrl`, `marker` say in which directory each file of an entry is;
`attempts` and `wait` are the control record; `emlAge` and `ctrlAge` the
modification times; `pc`, `cur`, `due`, `snap` are the worker's pass, or
`open()`. A step either succeeds or is one of `MaxFaults` failures; `Crash` may
fall between any two steps (`MaxTrouble` bounds both together). Time is relative to now and ages saturate, so no
time horizon is needed. A submission is the arrival at `enqueue`, by any number
of connections at once; the answer of `relay()` is a choice that `Relay`
justifies (below). **`SpoolInduction`** states the inductive invariant.

**`Relay`** models one call of `relay()`: lookups, order of exchanges, posture
(DANE, MTA-STS, opportunistic, none), addresses and every command of the dialog.
Resolvers and peers answer anything the code distinguishes; a peer presents a
chain of certificates and holds some keys. **`Dns`** is what the live resolver
makes of the library's reply (an empty answer is not an error; a validated lookup
is all or nothing, and its failure is "nothing"), **`Dane`** the TLSA records with
their octets and the three verifiers. **`RelayCall`** is what the worker may
assume of the call: how many exchangers took the message and how many of their
replies were lost. `Relay` implements it, and `Attempt` in `Spool` is exactly it.

**`MtaSts`** models `policy_for()` with its two awaits against domains that
publish, announce and withdraw versions; its answer is the policy choice of
`Relay`. The single relay worker is its only caller, so calls do not overlap.
**`StsPolicy`** reads the discovery record, the host's answer and the policy
file, and matches exchanges with patterns.

**`SmtpServer`** models a connection on either port: `SmtpSession`,
`MsaSession`, the loops around them, the body line by line, and
`accept_inbound`. The verdicts of greylist, message authentication and the
password are choices (`Greylist`, `MailAuth` and `AuthThrottle` model them in
detail). **`Wire`** holds the text functions, as operators on sequences of bytes:
lines, the collector, dot-stuffing, the header boundary, mailboxes and commands.

**`MailAuth`** models what happens on the public port between the final dot and
the reply: hop count, SPF (a choice here), DKIM, DMARC, the stamps and the row for
the report, and the worker that drains the rows. Senders compose, sign, change,
replay and loop messages meanwhile, and domains change their records.
**`Dkim`** holds canonicalisation, the choice of the signed fields (`Pick` is one
turn of the loop in `compute_header_hash`, `consumed` its set) and the verdict on a
signature; what a signature covers is stated apart from the loop, by counting from
below (`Covered`). **`Spf`** models `check_host()`, one term per step, with
`include` and `redirect` as a stack and the budgets all levels share.

**`MailAccess`** models any number of POP3 and IMAP connections and deliveries
over one store. A message is named by the number of its delivery; its id is a
separate value, so that a reused id would show. **`Logon`** holds the text side:
`SNAIL_USERS`, registration, AUTH PLAIN, the parsers of both protocols and the
check of a password.

**`AuthThrottle`** models the throttle and the three loops that use it: a guess
is a check, then a comparison and a record, with other connections in between.

**`Greylist`** models `check()` on the bounded table.

**`Firewall`** models `check()` one critical section at a time, the
administration of the lists and of the switch, housekeeping and reload. It extends
**`AuditLog`**, in which recorders interleave, writes are torn and the process
restarts and recovers the tip from the file; `stored` remembers whose hash reached
the file. Both are modelled as the library offers them: the server attaches no audit
log to its firewall.

**`Lifecycle`** models the process: `main()` with the builders of `Server` and its
failures, what of its checks is in effect (`InEffect`), binding, one accept loop and one semaphore per listener, the tasks they
spawn, both workers, Ctrl-C and the joins.

**`Lists`** holds the filter of an iterator, `Only`, and the k-th position of a set,
written without recursion.

The `MC...` modules instantiate these for TLC (values for constants and symmetry;
no definition is replaced) and check the text functions over all short inputs;
the `...Proofs` modules hold the inductive invariants, the theorems and their
proofs (section 4), and **`ListTheorems`** the facts about `Lists` they cite.

## 3. Runs

| run | question | result |
|---|---|---|
| `spool_safety` | one submission and its DSNs, three attempts, a crash and a failure anywhere; inductive invariant, refinement of `MailQueue` | holds |
| `spool_live` | everything queued is settled, bounces are finished and reaped, with a crash or a failed operation at any point, unless a `relay()` never returns | holds under fairness |
| `relay` | two exchangers and a null MX, two addresses, two recipients, three chains, four TLSA RRsets; safety, refinement of `RelayCall` | holds |
| `mtasts_cache` | two domains, a cache of one, two versions, every kind of answer | holds |
| `smtp_session` | every dialog on either port, two recipients, bodies of mixed line endings up to the size limit | holds |
| `mail_auth` | messages signed, changed, replayed and looped while policies change and reports are drained | holds |
| `spf` | every policy of up to two terms at one name with others it may include or redirect to, against a recursive reference | holds; ends under fairness |
| `mail_access` | two POP3 and one IMAP connection, two users, two messages | holds |
| `throttle` | two addresses, three connections, wrong passwords, PASS out of sequence, successes, elapsed locks | holds |
| `greylist` | three triplets, two places | holds |
| `firewall` | one check, two recorders, torn writes, restart and reload | holds |
| `lifecycle` | five environments, two of them without a resolver, two listeners, silent peers, failed accepts, Ctrl-C at any moment | holds under fairness |

### Text functions over all short inputs

TLC evaluates these `ASSUME`s of the MC modules before the run:

* `FramingStrict`: a body ends at the first CRLF.CRLF and at no look-alike with a
  bare CR or LF, for all streams of up to six bytes; `FramingCarries`: what one
  hop collects and frames, the next collects as one message with the same bytes
  but for one empty line more at its end; `StampKeeps`: a stamp changes no other
  byte; `CommandsCarry`: what `relay_script` writes, `SmtpCommand::parse` reads.
* `VerifierExact`: the DANE verifier accepts a chain exactly if a usable record
  vouches for it, over all octets around the assigned ones and chains of up to
  three certificates (that it accepts only such chains is also proved, for all).
* `AccountsApart`: the instance satisfies the hypothesis of `OnlyOwnMail`.
* `WildcardOneLabel`: a `*` in a policy stands for exactly one label.
* `LogonCarries`, `LaterEntryCounts`: who is registered can log on over each
  protocol under that very name, whatever colons, blanks and quotes are in the
  password; of two entries for one user the later counts.

### Where a property names an exception

Some properties hold only with an exception that a reader of the comments might
not expect; each is stated in the property or the action it names:

* `DuplicatesExplained`: `server.rs:432` says retries "never re-deliver to an
  already-accepted domain". A crash, a failed `remove` or a lost reply after the
  acceptance does cause a second copy, and nothing else does.
* `SenderNotified`: `dsn.rs:3` says "the sender must be told". An entry that
  cannot be read, a DSN that cannot be enqueued and one the filter rejects are
  bounced in silence.
* `BouncesFinished`: the age that `reap_bounced` looks at is the file's, so the
  time in the queue is taken off the retention.
* `EventuallySettled`, `BouncesFinished`, `ShutdownEnds`: one `relay()` that never
  returns holds up the queue, the reaping and the shutdown (`outbound.rs:233` has no
  timeout). Nothing else does.
* `GuessesCounted` claims no upper bound for a client that also sent PASS out of
  sequence (see below).
* `AcceptedAccountedFor` excepts a domain whose `enqueue` failed: the client is
  answered 250 and the failure is only logged.
* `OwnMailOnly`: the key of a folder is `format!("{user}/{name}")` (`imap.rs:198`),
  and `register_user` refuses no name, so it depends on accounts that are not named
  like a folder of another one: `FoldersApart`, the hypothesis of the theorem.
* `VerdictRight` excepts lookups that failed: a failed lookup of the From domain's
  record looks like an absent one, and the parent's record is used.
* `RowsAccounted` counts what a failed hand-over or a restart loses.
* `ChainIntact`: after a torn write the file may never verify again; what is claimed
  is that the records before it stay readable, and that a file which does verify is
  complete.
* `NoSilentDowngrade` excepts a host without a resolver, which does not relay and
  enforces neither SPF nor DMARC.

### Disagreements with the documentation

Met while modelling; the models follow the code.

* `outbound.rs:567`, `dns/manager.rs:89`: a TLSA lookup that fails is taken for
  "no records", and the exchange is delivered to opportunistically; the
  repository's `README.md:37` promises "no cleartext fallback".
* `mta_sts/mod.rs:162`: the failure of a policy host is stored without an id, so
  the next call fetches again; `mod.rs:41` says it is "not re-contacted once per
  queued message". A TXT lookup that fails (`mod.rs:175`) discards a cached policy.
* `serve.rs:368`, `msa.rs:44`: a second AUTH within a transaction changes the user
  and not the sender, which `msa.rs:55` says is bound to the user.
  `EnvelopeAgreed` says what holds: the sender is one whose credentials were given.
* `transport/outbound.rs:38`: "preserving the message verbatim", but `dot_stuff`
  adds one empty line at the end with every hop and every RETR (`FramingCarries`).
* `snailmail.rs:28`: a source route can never be "re-emitted" as a malformed
  command; from `@a:@b@c` the local part `@b` remains, which the next hop refuses.
* `snailmail.rs:240`: the header of a message that begins with an empty line ends
  elsewhere once a stamp was put on top (`StampKeeps` excepts it).
* `serve.rs:819`: "Only credential-checking attempts are counted", but `serve_pop`
  (`serve.rs:887-891`) counts every PASS that is answered `-ERR`, also one without
  USER before it, which checks no password.
* `sink.rs:146-148`: "a trailing torn line (no tab) is ignored so a crash mid-write
  does not poison the recovered tip". A line torn behind its first tab is not
  ignored: what stands behind the last tab is recovered as the tip, and the next
  record is chained to it. A line torn before it is, but `append` goes on on that
  very line, so the record that follows does not link either. The file goes on
  verifying only if the tear left nothing or a complete record (one that lacks just
  its newline counts as long as nothing is appended).
* `main.rs:57-59`: without a resolver "inbound and local delivery work; only
  outbound relay is disabled", but then SPF, DKIM and DMARC are not evaluated
  (`serve.rs:526-584`) and `SNAIL_SPF_ENFORCE` and `SNAIL_DMARC_ENFORCE` have no
  effect.
* `mta_sts/policy.rs`: of several `mode` or `max_age` lines the last counts.

### Bounds, and why they are enough

* Spool: an entry interacts with others only through the worker's snapshot and
  as the origin of a DSN; `MaxIds` leaves room for the DSN that is made again
  after a crash or a failure. Three attempts are a first, a middle and a last
  one; `BackoffCap` is reached. `spool_live` has one crash or one failure
  (`MaxTrouble` 1), wherever it falls; `spool_safety` a crash and a failure. The
  proofs cover all values.
* Relay: two exchanges make an order and a last one; two addresses make a
  reconnection, two recipients a transaction that fails halfway; the chains and
  RRsets have one of each kind the verifiers tell apart.
* MTA-STS: two versions and a cache of one for two domains make every
  eviction; `Horizon` exceeds every life by one tick.
* SMTP: two hosted and four remote mailboxes in two domains distinguish sender,
  user, recipient and entry; two recipients reach the cap; five kinds of lines
  make every framing case; the dialog is not bounded.
* Message authentication: three steps are a signature, a change and a replay, or a
  message and two changes of policy; two hops are the limit and one beyond is tried.
* SPF: `MAX_LOOKUPS` 3, `MAX_VOID` 1 and `MAX_HOSTS` 1 are exceeded by some
  policies and not by others; two names refer to each other in a circle.
* Mailbox access: two messages of two ids, two sessions that may mark the same
  one, a user to switch to.
* Throttle: three connections pass the check together with `MaxFailures` 2;
  `MaxBurst` cuts off guesses beyond what the bound allows, so an excess shows.
* Greylist: three triplets for two places; ticks up to each limit and past it.
* Firewall: one check under way against two recorders, who administer; tables of
  one place, a quota of one; two torn writes, the second behind the first.
* Lifecycle: a listener of one and one of two permits, four peers, so that one is
  full while the other is not; the environments have each flag set and unset, and
  the enforcement of SPF and of DMARC with and without a resolver.

### Fairness

* `Spool`: the worker is a task of its own whose tick fires again, so its own steps
  are weakly fair (`LocalStep`). **That `relay()` returns is not assumed**: the code
  puts no timeout on a connection, a handshake or a read; an `enqueue` that began is synchronous code; the clock
  advances; a supervisor restarts the process. Crashes and failures are bounded,
  nothing forces a submission.
* `Spf`: the evaluation runs on; its lookups end.
* `Lifecycle`: spawned tasks are scheduled (weak fairness of the loops, the gate,
  the joins and the report worker); `Stop` is strongly fair because `select!`
  chooses at random between a tick and the notification that are both ready.
  Nothing makes a client finish, an exchanger answer or an operator press Ctrl-C,
  so `ShutdownEnds` excepts a relay pass that stays busy for ever, and no other.

The other modules state safety only. `SmtpServer` (a closed connection), `Spf` (a
result), `MailAuth`, `Firewall` (bounds used up) and `Lifecycle` (a process that
ended) may stop, so their runs do not check deadlock.

## 4. Proofs

Every theorem holds for all values of the constants that satisfy the module's
named assumption, and TLC evaluates that assumption on the run's instance. None
of the properties is inductive by itself; each module states an inductive
invariant, whose parts are named in the module, and carries it through the
actions with one lemma per action or group of actions.

| module | inductive invariant | proved from it |
|---|---|---|
| `SpoolProofs` | `SpoolInv` | `NeverStranded`, `SenderNotified`, `NoBounceLoop`, `TriesBounded`, `DuplicatesExplained`, `BackoffRespected`, refinement of `MailQueue` |
| `RelayProofs` | `RelayInd` | `RelayInv`, `TransactionProtected`, soundness of the DANE and PKIX verifiers, refinement of `RelayCall` |
| `SmtpServerProofs` | `SmtpInd` | `SessionInv`, `NoOpenRelay`, `EnvelopeAgreed`, with `Accounted` also `AcceptedAccountedFor` |
| `MailAccessProofs` | `AccessInd` | `AccessInv`, `RemovalsWarranted`, `NumbersStable`, `OwnMailOnly` (under `FoldersApart`) |
| `AdmissionProofs` | `ThrottleInv`, `GuessesRecorded` | `GuessesCounted`, `GuessesBounded`, `LockHeld` |
| `AdmissionProofs` | `GreylistInd` | `GreylistTypeOK` with the bound of the table, `AllowEarned`, `RetryAccepted` |
| `AdmissionProofs` | `LifecycleInd` | `PermitsConserved` |
| `FirewallProofs` | `FirewallInd` | `TablesBounded`, `BlockHonoured`, `PauseAudited` |
| `FirewallProofs` | `FirewallInd`, `ChainKept` | `ChainIntact` |
| `PolicyProofs` | `SpfInd` | `QueriesBounded` |
| `PolicyProofs` | `SpfInd`, `ReadInd` | `ResultRight` |
| `PolicyProofs` | `StsInd` | `CacheInv`, `PolicyCurrent` |
| `PolicyProofs` | `RowsInd` | `RowsAccounted` |
| `PolicyProofs` | `AuthInd` | `DkimRight`, `VerdictRight` |

Why each invariant is what it is:

* **`SpoolInv`**. `NeverStranded`, say, depends on where the worker is between two
  renames and on a marker that only `open()` reads. What links them: which files a
  committed or uncommitted entry may have (`UncommittedInv`, `CommittedInv`), what
  the worker knows at each control point (`WorkerInv`), that its snapshot stays true
  although connections enqueue meanwhile (`SnapshotInv`), that the notice precedes
  the marker (`NoticeInv`), that a DSN has the null sender (`LoopInv`), and how far
  the counts may be ahead of the record (`CountInv`).
* **`RelayInd`**. The exchange being tried is the best of those left (`InTurn`,
  `OneCurrent`), others were passed over for a cause that still stands
  (`SkippedForCause`), the posture is the one the TLSA records or the policy ask for
  (`PostureRight`), and an encrypted channel was verified as the posture demands
  (`ChannelRight`). That a verified handshake proves something is
  `DaneVerifierSound` and `PkixVerifierSound`, for chains of any length: the
  argument goes along the path from the end-entity certificate, by the least index
  at which it fails (`LeastNat`), which replaces an induction.
* **`SmtpInd`**. Session and client agree on the transaction at every phase
  (`Agreement`); in DATA the collector holds what was said and remembers whether it
  ended with CRLF (`Gathered`). `PushSays` is the lemma that `push_line` takes from
  a line what the client means by it, whatever its ending and its dots.
* **`AccessInd`**. An id is the number of its delivery (`StoreOK`), a listing shows
  what its user owned, a number means what `Numbered` says (`ListingOK`), and marks
  are exactly the wishes of the session; while QUIT's loop runs, what is wanted and
  still stored is what the loop has left (`DeletionOK`).
* **`ThrottleInv`** joins the count with the shape of the records (`RecordsMatch`),
  because the failure of any other address may prune a record; `GuessesRecorded`
  sets the wrong passwords beside all that was counted. `GuessesBounded`
  adds that, once an address is locked, the guesses to come are those of
  connections that passed the check before: their number plus the guesses made
  never grows.
* **`GreylistInd`**. An entry tells the history of its triplet, and where there is
  none the history is too old to count (`Remembered`), so pruning by others is
  harmless.
* **`FirewallInd`**. What a limiter handed out it still counts (`QuotaKept`), a call
  under way has seen the pause while it lasts and its blocked address is still on
  the list until the list is read (`CallKept`), and the transitions of the switch
  are the traced ones plus those handed over and not traced yet (`Balanced`).
* **`Accounted`**. The public port has only local recipients (`InboundLocal`), and
  `SplitKeeps` says that filtering the recipients by domain keeps every copy:
  `Only` is a bijection onto the positions it keeps (`OnlyKeeps`).
* **`ChainKept`**. The file has one of three shapes: whole records, of which the k-th
  has number k - 1 and the hash of the one before (`WholeFile`); the same without
  the last newline (`CutLine`); or records and a line that does not link to them
  (`BrokenFile`). The sink is in step with a whole file or, after a failed sync,
  chained to another record. `FileStep` says what any write, cut anywhere, makes of
  a file: a line that does not link is ended or goes on with what is appended, and
  stays broken, because the payload of a record has no place for a second one. That
  `Lines` splits a growing text where it should, and that `tip` and `verify` read
  such files right, are lemmas of their own.
* **`SpfInd`**. A charge within the limit pays for what it lets happen: a nested call
  or the queries of one mechanism (`ChargesOK`), a fetch that is charged and not yet
  made being owed (`Owed`). Each call below another waits at the directive that made
  it (`Waiting`).
* **`ReadInd`**. The evaluation is a depth-first walk of which the reference is the
  recursion. A call that has read part of its policy has passed only directives that
  neither match nor fail by the reference one level down (`Reading`); the name a
  waiting call asked about is the one its directive or redirect refers to (`Asked`);
  and what a call returns is what its policy means at its depth, unless a limit was
  exceeded (`AnswerOK`), in which case `ChargesOK` has the error on its way to the
  top. That the reference has a value at every depth, and never `TempError`, is
  shown at the least depth where it would fail (`MeaningIs`, `MeansIs`).
* **`StsInd`**. The life an entry has left and the time its version has been gone
  never add up to more than its max_age (`EntriesOK`), no id is announced before its
  version is served (`WorldOK`), what was discovered is fetched after it was
  published (`CallOK`), and the order of eviction holds every fresh entry once
  (`OrderOK`).
* **`RowsInd`**. `RowsAccounted` as an equation of bags for each domain, with the
  shape of the reports and the spelling of the domain under evaluation (`FromOK`).
* **`AuthInd`**. A signature of a message covers what it was made over, wherever the
  message is (`MessagesOK`), and `DkimRight` and `VerdictRight` follow message by
  message. The loop that picks the signed fields is reduced to a set: after j names
  it has consumed, of each name, the lowest fields, as many as the name was mentioned
  (`Taken`, `ConsumedIs`), the least name at which this fails being refuted by
  `TakenStep`. `StampedHas` says what the stamps put on top.
* **`LifecycleInd`**. The loops follow `main()` (`LoopsFollowMain`): a permit is
  taken only while the process serves, and all come back when it stops.

What the attempts taught about the models:

* the reference for "signed under" in `Relay` asked that every certificate of a
  chain sign the next one; `webpki` looks for a path, and with three or more
  certificates the rest may be unrelated. TLC's chains of two could not tell;
* the reference for the text of a body in `SmtpServer` dropped line ends by their
  bytes, which is wrong for a line with a CR inside it; the history now records
  what each line says (`Said`);
* `DeletionHonoured` needs that nothing is left to do outside QUIT's loop, which no
  property said;
* `QueriesBounded` is not inductive: the fetch of a nested policy comes a step after
  the charge that pays for it, and the last charge, beyond the limit, pays for
  nothing (`Owed`, `Paid`);
* the reference of `Spf` gave a null sender without a HELO name the policy at the
  root of DNS, if there is one; the code answers `None` without asking, and no zone
  of the run has a policy there. The reference is now a function of what nested
  policies mean (`Reads`), which is what the proof steps through;
* `PolicyCurrent` depends on the order of discovery and fetch: without
  `txt[d] <= published[d]` an id could be ahead of the version cached under it;
* `RowsAccounted` was a sum over all rows; as an equation of bags for each domain it
  says more, and needs no induction;
* `SelectSeq` and the folds of the community modules are opaque to the provers, and
  filters, the choice of signed fields and the chain were written with them. They are
  now stated by positions (`Only`, `Nth`) or as a recursive function on numbers. For
  the latter the proofs name the value the recursion should have, show that this
  function satisfies the equation, and refute the least number at which another
  solution differs (`LeastNat`), which needs no induction rule.

**Only model-checked**, and why:

* liveness (`spool_live`, `ShutdownEnds`, `AcceptedUnlessFull` and the others):
  fairness and `ENABLED` are outside the prover;
* `NoSilentDowngrade`: the composition of the server is a fixed sequence of steps
  without a loop, whose every failure TLC tries in the five environments;
* the converse of verifier soundness (every chain vouched for is accepted), and the
  text functions listed in section 3: over short inputs only.

## 5. What is not modelled

* The text of control records (a record's schedule loses its fraction of a
  second), temporary files left by a crash, the absence of `fsync` (a power
  failure may undo what a process crash cannot), clocks that step back.
* A control record that stays unreadable, which ends every pass (`spool.rs:112`).
* The case of addresses: a mailbox is keyed by the address as the sender typed it
  (`store.rs:75`), and read under the name the user logs on with.
* Cryptography, base64, character sets, dates and wording: the text of DSNs, trace
  fields and reports is what it carries.
* Cryptographic, TLS and DNS libraries: X.509 path building is stated from its use,
  their other answers are choices; the rate limiter's cells are refilled by a tick.
* Several recipients of one remote domain share an entry; an entry in `Spool` has
  one fate.
* The loss of the in-memory store with the process.
* Parts without state that nothing depends on, or that the server does not reach:
  spam score, telemetry, OAuth, secret encryption, web access, client bindings.

## 6. Plan

Done: all parts of the table in section 1; proofs of the safety invariants and
action properties that the runs check; what is left to TLC is in section 4.

Next: the converse of verifier soundness in `Dane`.
