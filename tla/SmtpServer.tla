----------------------------- MODULE SmtpServer -----------------------------
(***************************************************************************)
(* One connection to the SMTP server: the loops serve_inbound() and        *)
(* serve_submission() (serve.rs), the session state machine behind them    *)
(* (SmtpSession, MsaSession), and what accept_inbound() does with a message*)
(* (Server, Mta, MailDeliveryAgent).  The client sends any line at any     *)
(* time.  What depends on other systems or on the message's content is a   *)
(* choice: whether credentials match, the greylist defers, the handshake   *)
(* succeeds, the message parses or loops, SPF and DMARC refuse it, the     *)
(* filter rejects it, and which entries the spool fails to store.          *)
(*                                                                         *)
(* NOOP and lines that do not parse change nothing and are left out.       *)
(***************************************************************************)
EXTENDS Wire, Lists

CONSTANTS
    Mailboxes,          \* [user, domain]: the addresses clients name
    LocalDomains,       \* the domains this server hosts
    Null,               \* the null reverse-path, and no sender
    Nobody,             \* no authenticated user
    MaxRecipients,      \* max_recipients of a session
    MaxMessageSize,     \* collector_max_size of the server
    BodyLines           \* the lines a client sends as a body

\* Mta::route(); the users of the server are its local mailboxes.
Local  == {box \in Mailboxes : box.domain \in LocalDomains}
Remote == Mailboxes \ Local
Domains == {box.domain : box \in Remote}

ASSUME SmtpServerAssumption ==
    /\ Null \notin Mailboxes
    /\ Nobody \notin Mailboxes
    /\ MaxRecipients \in Nat
    /\ MaxMessageSize \in Nat
    /\ \A line \in BodyLines : line \in Seq(STRING) /\ line # <<>> /\ Last(line) = LF

VARIABLES
    config,             \* [port, tls, relay, spf, dmarc]: the listener and what is enabled
    open,               \* the loop is running
    secure,             \* the stream is MaybeTlsStream::Tls
    phase,              \* the phase of the session; past the greeting, HELO is known
    sender,             \* its reverse-path
    rcpts,              \* its recipients
    user,               \* the user of the MsaSession
    collector,          \* the InboundCollector of the message being received
    outcome,            \* the message this step ended: the reply and what was done with it
    \* -- history, read by properties only
    txn,                \* the transaction as the client knows it from the replies
    given               \* given[x]: the channel over which x was last given

session == <<phase, sender, rcpts, user>>
vars    == <<config, open, secure, session, collector, outcome, txn, given>>

Phases    == {"greeting", "identified", "sender", "recipients", "data", "closed"}
Items     == {"helo", "from", "to", "auth"}
NoTxn     == [from |-> Null, to |-> <<>>, auth |-> {}, sent |-> <<>>, ended |-> TRUE]
NoMessage == [reply |-> "none", from |-> Null, to |-> <<>>, user |-> Nobody,
              verdict |-> "accept", failed |-> {}, stored |-> <<>>, spooled |-> {}]

RcptLists == UNION {[1..n -> Mailboxes] : n \in 0..MaxRecipients}

TypeOK ==
    /\ config \in [port : {"inbound", "submission"}, tls : BOOLEAN, relay : BOOLEAN,
                   spf : BOOLEAN, dmarc : BOOLEAN]
    /\ open \in BOOLEAN
    /\ secure \in BOOLEAN
    /\ phase \in Phases
    /\ sender \in Mailboxes \cup {Null}
    /\ rcpts \in RcptLists
    /\ user \in Local \cup {Nobody}
    /\ Len(collector.body) <= MaxMessageSize
    /\ outcome.reply \in {"none", "250", "550", "554"}
    /\ outcome.to \in RcptLists
    /\ phase \in {"recipients", "data"} => rcpts # <<>>
    /\ txn.to \in RcptLists
    /\ given \in [Items -> {"none", "plain", "tls"}]

Init ==
    /\ config \in [port : {"inbound", "submission"}, tls : BOOLEAN, relay : BOOLEAN,
                   spf : BOOLEAN, dmarc : BOOLEAN]
    /\ open = TRUE
    /\ secure = FALSE
    /\ phase = "greeting"
    /\ sender = Null
    /\ rcpts = <<>>
    /\ user = Nobody
    /\ collector = new_collector
    /\ outcome = NoMessage
    /\ txn = NoTxn
    /\ given = [i \in Items |-> "none"]

-----------------------------------------------------------------------------
(* Helpers *)

Submission == config.port = "submission"
Channel    == IF secure THEN "tls" ELSE "plain"

\* A line is read as a command: the loop runs and no body is being collected.
Command == open /\ phase # "data"

Give(item) == given' = [given EXCEPT ![item] = Channel]

\* Mutant: the submission port asks nobody to authenticate.
AuthorizedAlways == TRUE

\* Every command of the mail transaction needs an authenticated user on the
\* submission port (MsaSession::handle).
Authorized == Submission => user # Nobody

\* MAIL FROM is bound to the user; the null sender has no owner.
Owns(from) == Submission /\ user # Nobody => from = user

\* The inbound port refuses (550) a recipient that is not hosted here.
Admits(rcpt) == ~Submission => rcpt \in Local

\* STARTTLS is in sequence before a mail transaction only.
TlsAllowed == phase \in {"greeting", "identified"}

\* The step ends no message.
Silent == outcome' = NoMessage

ResetSession == phase' = "greeting" /\ sender' = Null /\ rcpts' = <<>> /\ user' = Nobody

-----------------------------------------------------------------------------
(* Commands *)

Helo ==
    /\ Command
    /\ phase' = "identified"
    /\ sender' = Null
    /\ rcpts' = <<>>
    /\ txn' = [txn EXCEPT !.from = Null, !.to = <<>>]
    /\ Give("helo")
    /\ Silent
    /\ UNCHANGED <<config, collector, open, secure, user>>

\* Mutant: the recipients survive RSET.
RsetKeepsRcpts ==
    /\ Command
    /\ phase' = IF phase = "greeting" THEN phase ELSE "identified"
    /\ sender' = Null
    /\ txn' = [txn EXCEPT !.from = Null, !.to = <<>>]
    /\ Silent
    /\ UNCHANGED <<config, collector, open, secure, rcpts, user, given>>

Rset ==
    /\ Command
    /\ phase' = IF phase = "greeting" THEN phase ELSE "identified"
    /\ sender' = Null
    /\ rcpts' = <<>>
    /\ txn' = [txn EXCEPT !.from = Null, !.to = <<>>]
    /\ Silent
    /\ UNCHANGED <<config, collector, open, secure, user, given>>

\* MsaSession::authenticate_plain(): credentials that match name the user, at
\* whatever point of a transaction; others change nothing.
authenticate_plain(u) == user' = u

\* AUTH PLAIN with credentials that match, submission only, at any point of the
\* dialog; refused (530) in cleartext when TLS is on offer.  Without a match
\* nothing changes here: what the throttle does then is AuthThrottle's matter.
Auth(u) ==
    /\ Command
    /\ Submission
    /\ config.tls => secure
    /\ authenticate_plain(u)
    /\ txn' = [txn EXCEPT !.auth = @ \cup {u}]
    /\ Give("auth")
    /\ Silent
    /\ UNCHANGED <<config, collector, open, secure, phase, sender, rcpts>>

MailFrom(from) ==
    /\ Command
    /\ Authorized
    /\ Owns(from)
    /\ phase = "identified"
    /\ phase' = "sender"
    /\ sender' = from
    /\ txn' = [txn EXCEPT !.from = from, !.to = <<>>]
    /\ Give("from")
    /\ Silent
    /\ UNCHANGED <<config, collector, open, secure, rcpts, user>>

\* RCPT TO that is accepted.  A deferral by the greylist (451) and a recipient
\* past the cap (452) change nothing.
RcptTo(rcpt) ==
    /\ Command
    /\ Authorized
    /\ Admits(rcpt)
    /\ phase \in {"sender", "recipients"}
    /\ Len(rcpts) < MaxRecipients
    /\ phase' = "recipients"
    /\ rcpts' = Append(rcpts, rcpt)
    /\ txn' = [txn EXCEPT !.to = Append(@, rcpt)]
    /\ Give("to")
    /\ Silent
    /\ UNCHANGED <<config, collector, open, secure, sender, user>>

Data ==
    /\ Command
    /\ Authorized
    /\ phase = "recipients"
    /\ phase' = "data"
    /\ collector' = new_collector
    /\ txn' = [txn EXCEPT !.sent = <<>>, !.ended = TRUE]
    /\ Silent
    /\ UNCHANGED <<config, open, secure, sender, rcpts, user, given>>

\* Mutant: the session goes on after the handshake.
StartTlsKeeps ==
    /\ Command
    /\ config.tls /\ ~secure
    /\ TlsAllowed
    /\ secure' = TRUE
    /\ txn' = NoTxn
    /\ Silent
    /\ UNCHANGED <<config, collector, open, session, given>>

\* STARTTLS outside a transaction, nothing pipelined, handshake done: the
\* session begins anew.  It is refused, without a change, in every other case.
StartTls ==
    /\ Command
    /\ config.tls /\ ~secure
    /\ TlsAllowed
    /\ secure' = TRUE
    /\ ResetSession
    /\ txn' = NoTxn
    /\ Silent
    /\ UNCHANGED <<config, collector, open, given>>

\* QUIT, the end of the stream, a line too long, a body too large, a failed
\* handshake, or a throttled AUTH.
Close ==
    /\ open
    /\ open' = FALSE
    /\ phase' = "closed"
    /\ Silent
    /\ UNCHANGED <<config, collector, secure, sender, rcpts, user, txn, given>>

-----------------------------------------------------------------------------
(* The body, and its end *)

\* What a client says with a line: its text, without the line's end and the dot
\* that protects it, and a CRLF.
Said(line) ==
    LET text == SubSeq(line, 1, Len(line) - (IF IsSuffix(CRLF, line) THEN 2 ELSE 1))
    IN (IF StartsWith(text, ".") THEN Tail(text) ELSE text) \o CRLF

\* A line of the body; one too many is answered 552 and closes the connection.
BodyLine(line) ==
    LET c == push_line(collector, line, MaxMessageSize)
    IN /\ open
       /\ phase = "data"
       /\ ~c.finished
       /\ collector' = c
       /\ open' = ~c.size_exceeded
       /\ phase' = IF c.size_exceeded THEN "closed" ELSE phase
       /\ txn' = [txn EXCEPT !.sent = @ \o Said(line), !.ended = IsSuffix(CRLF, line)]
       /\ Silent
       /\ UNCHANGED <<config, secure, sender, rcpts, user, given>>

\* accept_inbound() of the Mta splits the recipients by route().
LocalRcpts  == Only(Local, rcpts)
RemoteRcpts == Only(Remote, rcpts)

\* take_envelope(), and the reply.
Answer(reply, verdict, failed, stored, spooled) ==
    /\ open
    /\ phase = "data"
    /\ \E line \in BodyLines : push_line(collector, line, MaxMessageSize).finished
    /\ collector' = new_collector
    /\ outcome' = [reply |-> reply, from |-> sender, to |-> rcpts, user |-> user,
                   verdict |-> verdict, failed |-> failed, stored |-> stored, spooled |-> spooled]
    /\ phase' = "identified"
    /\ sender' = Null
    /\ rcpts' = <<>>
    /\ txn' = [txn EXCEPT !.from = Null, !.to = <<>>, !.sent = <<>>, !.ended = TRUE]
    /\ UNCHANGED <<config, open, secure, user, given>>

\* 554: no message can be parsed from the body, or it has MAX_RECEIVED_HOPS.
Unusable == Answer("554", "accept", {}, <<>>, {})

\* 550: SPF or DMARC refuses the message, and the server enforces it.
Unauthentic ==
    /\ ~Submission
    /\ config.spf \/ config.dmarc
    /\ Answer("550", "accept", {}, <<>>, {})

\* deliver(): to every local recipient, unless the filter rejects the message.
Delivered(verdict) == IF verdict = "reject" THEN <<>> ELSE LocalRcpts

\* RelayAuthorization::Permitted is the submission port's.
Permitted == Submission
MayRelay  == Permitted /\ config.relay

\* enqueue_relay(): the remote recipients by domain.
by_domain == [d \in {r.domain : r \in Range(RemoteRcpts)} |->
                Only({r \in Remote : r.domain = d}, RemoteRcpts)]

\* Mutant: the first entry that cannot be queued ends the loop over the domains.
QueuedUntil(failed) == IF failed = {} THEN Range(by_domain) ELSE {}

\* One entry per domain; an enqueue() that fails is only logged.
Queued(failed) == {by_domain[d] : d \in DOMAIN by_domain \ failed}

\* 250: accept_inbound() delivers locally and, for a client that may relay,
\* queues the remote recipients.
Accept(verdict, failed) ==
    /\ failed \subseteq DOMAIN by_domain
    /\ failed # {} => MayRelay
    /\ Answer("250", verdict, failed, Delivered(verdict),
              IF MayRelay THEN Queued(failed) ELSE {})

Next ==
    \/ Helo \/ Rset \/ Data \/ StartTls \/ Close
    \/ \E u \in Local : Auth(u)
    \/ \E from \in Mailboxes \cup {Null} : MailFrom(from)
    \/ \E rcpt \in Mailboxes : RcptTo(rcpt)
    \/ \E line \in BodyLines : BodyLine(line)
    \/ Unusable \/ Unauthentic
    \/ \E verdict \in {"accept", "flag", "reject"}, failed \in SUBSET Domains :
          Accept(verdict, failed)

Spec == Init /\ [][Next]_vars

-----------------------------------------------------------------------------
(* Properties *)

\* A message goes to the spool only for a user who authenticated on this
\* connection's submission port: the server is no open relay.
NoOpenRelay ==
    outcome.spooled # {} => Submission /\ outcome.user \in Local

\* A message is taken for exactly the sender and the recipients that the client
\* was told are accepted since its last MAIL, RSET, HELO or STARTTLS, and with the
\* lines it sent since DATA, all of them and no others, up to a dot that stands at
\* the beginning or behind a CRLF; and the sender of a submitted one is somebody
\* for whom credentials were given on this connection, over its present channel.
EnvelopeAgreed ==
    [][phase = "data" /\ phase' = "identified"
         => /\ outcome'.from = txn.from /\ outcome'.to = txn.to
            /\ txn.ended /\ collector.body = txn.sent
            /\ Submission => outcome'.from \in txn.auth]_vars

\* Every RCPT of a message that was answered 250 is accounted for, as often as it
\* was given: local ones are in their mailboxes unless the filter rejected the
\* message; remote ones are in the one entry of their domain, which holds no other
\* domain's, unless the spool could not store that very entry or nothing is relayed.
AcceptedAccountedFor ==
    LET Entries(r) == {e \in outcome.spooled : r \in Range(e)}
        Own(e, r) == Copies(e, r) = Copies(outcome.to, r) /\ \A q \in Range(e) : q.domain = r.domain
    IN outcome.reply = "250" =>
        \A r \in Range(outcome.to) :
            IF r \in Local
              THEN Copies(outcome.stored, r) =
                      IF outcome.verdict = "reject" THEN 0 ELSE Copies(outcome.to, r)
              ELSE /\ Submission
                   /\ IF r.domain \in outcome.failed \/ ~config.relay THEN Entries(r) = {}
                      ELSE \E e \in Entries(r) : Entries(r) = {e} /\ Own(e, r)

\* Where TLS is on offer nobody is logged on over a cleartext connection, and
\* nothing that was said before STARTTLS is left in the session after it:
\* neither the name of the client, nor a transaction, nor a login (RFC 3207).
NothingFromPlaintext ==
    /\ config.tls /\ user # Nobody => secure
    /\ secure /\ open =>
        /\ phase # "greeting" => given["helo"] = "tls"
        /\ sender # Null => given["from"] = "tls"
        /\ rcpts # <<>> => given["to"] = "tls"
        /\ user # Nobody => given["auth"] = "tls"

\* The session as a whole: its types, the recipient cap, and the channel.
SessionInv == TypeOK /\ NothingFromPlaintext
=============================================================================
