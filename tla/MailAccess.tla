----------------------------- MODULE MailAccess -----------------------------
(***************************************************************************)
(* POP3 and IMAP connections over the one mailbox store (pop.rs, imap.rs,  *)
(* store.rs and the connection loops of serve.rs).  Connections run        *)
(* concurrently with each other and with deliveries.  Each call of the     *)
(* store takes its lock once, so a session works on the listing it took    *)
(* when it logged on or selected, and QUIT removes what it marked one      *)
(* message at a time.                                                      *)
(*                                                                         *)
(* A message is named by the number of its delivery, which the program     *)
(* does not know; what the program knows it by is its id.  A mailbox is a  *)
(* set: its messages are listed in the order they were delivered.          *)
(***************************************************************************)
EXTENDS Naturals, FiniteSets

CONSTANTS
    Users,              \* accounts; each owns the mailbox of its name
    Pops,               \* POP3 connections
    Imaps,              \* IMAP connections
    MaxMail,            \* bound: deliveries
    NoUser              \* not a user

ASSUME MailAccessAssumption ==
    /\ NoUser \notin Users
    /\ Pops \cap Imaps = {}
    /\ MaxMail \in Nat

Deliveries == 1..MaxMail
Sessions == Pops \cup Imaps

VARIABLES
    tlsConfigured,      \* a certificate is configured
    delivered,          \* deliveries made so far
    owner,              \* owner[d]: the mailbox delivery d went to
    idOf,               \* idOf[d]: the id the store gave delivery d
    store,              \* store[u]: the messages in u's mailbox
    session,            \* session[s]: the state of connection s
    \* -- history, read by properties only
    shown,              \* shown[s][n]: what number n was last used for
    wanted              \* wanted[s]: messages DELEd and not RSET since

storeVars == <<delivered, owner, idOf, store>>
vars == <<tlsConfigured, storeVars, session, shown, wanted>>

Phases == {"closed", "authorization", "transaction", "update", "done",
           "authenticated", "selected"}

SessionStates ==
    [phase   : Phases,
     channel : {"plain", "tls"},
     pending : Users \cup {NoUser},     \* POP3: pending_user
     user    : Users \cup {NoUser},     \* POP3: mailbox
     view    : SUBSET Deliveries,       \* messages, or selected
     marked  : SUBSET Deliveries,       \* POP3: deleted, by id
     rest    : SUBSET Deliveries]       \* QUIT: ids its loop has yet to visit

LoggedOn(s) ==
    session[s].phase \in {"transaction", "update", "done", "authenticated", "selected"}

TypeOK ==
    /\ tlsConfigured \in {"yes", "no"}
    /\ delivered \in 0..MaxMail
    /\ owner \in [Deliveries -> Users \cup {NoUser}]
    /\ idOf \in [Deliveries -> 0..MaxMail]
    /\ store \in [Users -> SUBSET Deliveries]
    /\ session \in [Sessions -> SessionStates]
    /\ shown \in [Sessions -> [Deliveries -> 0..MaxMail]]
    /\ wanted \in [Sessions -> SUBSET Deliveries]
    /\ \A s \in Sessions : LoggedOn(s) => session[s].user # NoUser

Nothing == [n \in Deliveries |-> 0]

Fresh(phase, channel) ==
    [phase |-> phase, channel |-> channel, pending |-> NoUser, user |-> NoUser,
     view |-> {}, marked |-> {}, rest |-> {}]

Init ==
    /\ tlsConfigured \in {"yes", "no"}
    /\ delivered = 0
    /\ owner = [d \in Deliveries |-> NoUser]
    /\ idOf = [d \in Deliveries |-> 0]
    /\ store = [u \in Users |-> {}]
    /\ session = [s \in Sessions |-> Fresh("closed", "plain")]
    /\ shown = [s \in Sessions |-> Nothing]
    /\ wanted = [s \in Sessions |-> {}]

-----------------------------------------------------------------------------
(* The store *)

\* Mutant: the place in the mailbox is the id, so ids are used again.
IdByPlace(u) == Cardinality(store[u]) + 1

\* next_id is never set back.
NextId(u) == delivered + 1

\* deliver()
Deliver(u) ==
    /\ delivered < MaxMail
    /\ delivered' = delivered + 1
    /\ owner' = [owner EXCEPT ![delivered + 1] = u]
    /\ idOf' = [idOf EXCEPT ![delivered + 1] = NextId(u)]
    /\ store' = [store EXCEPT ![u] = @ \cup {delivered + 1}]
    /\ UNCHANGED <<tlsConfigured, session, shown, wanted>>

\* remove() for the mailbox u.
remove(u, id) == [store EXCEPT ![u] = {d \in @ : idOf[d] # id}]

-----------------------------------------------------------------------------
(* A connection of either kind *)

Opened(s, state) ==
    /\ session' = [session EXCEPT ![s] = state]
    /\ shown' = [shown EXCEPT ![s] = Nothing]
    /\ wanted' = [wanted EXCEPT ![s] = {}]
    /\ UNCHANGED <<tlsConfigured, storeVars>>

Quiet(s, state) ==
    /\ session' = [session EXCEPT ![s] = state]
    /\ UNCHANGED <<tlsConfigured, storeVars, shown, wanted>>

Connect(s) ==
    /\ session[s].phase \in {"closed", "done"}
    /\ Opened(s, Fresh("authorization", "plain"))

\* The peer is gone, sent a line too long, or tries a password when locked out.
Drop(s) ==
    /\ session[s].phase \notin {"closed", "done", "update"}
    /\ Opened(s, Fresh("closed", "plain"))

\* credentials_checked(), and the same condition within the sessions.
Protected(s) == tlsConfigured = "no" \/ session[s].channel = "tls"

\* STLS and STARTTLS: a fresh session takes over the encrypted connection.  POP3
\* upgrades when the session agreed, IMAP whenever the connection is plain.
StartTls(s) ==
    /\ tlsConfigured = "yes"
    /\ session[s].channel = "plain"
    /\ IF s \in Pops THEN session[s].phase = "authorization"
                     ELSE session[s].phase # "closed"
    /\ Opened(s, Fresh("authorization", "tls"))

\* The number n of a listing: 1 for the oldest, and none for 0.
Numbered(view, n) == {d \in view : Cardinality({e \in view : e <= d}) = n}

Show(s, n, d) == shown' = [shown EXCEPT ![s][n] = d]

-----------------------------------------------------------------------------
(* POP3 *)

User(s, u) ==
    /\ session[s].phase = "authorization"
    /\ Protected(s)
    /\ Quiet(s, [session[s] EXCEPT !.pending = u])

\* PASS, which consumes the name; the password is right, or not.
Pass(s) ==
    LET u == session[s].pending
        taken == [session[s] EXCEPT !.pending = NoUser]
    IN /\ session[s].phase = "authorization"
       /\ Protected(s)
       /\ u # NoUser
       /\ \/ Quiet(s, taken)
          \/ Quiet(s, [taken EXCEPT !.phase = "transaction", !.user = u, !.view = store[u]])

\* Mutant: the numbers close up over the marked messages.
MessageAtLive(s, n) ==
    Numbered({d \in session[s].view : idOf[d] \notin session[s].marked}, n)

\* message_at(): a marked message keeps its number and is not found.
MessageAt(s, n) ==
    {d \in Numbered(session[s].view, n) : idOf[d] \notin session[s].marked}

Retr(s, n) ==
    \E d \in MessageAt(s, n) :
        /\ session[s].phase = "transaction"
        /\ Show(s, n, d)
        /\ UNCHANGED <<tlsConfigured, storeVars, session, wanted>>

Dele(s, n) ==
    \E d \in MessageAt(s, n) :
        /\ session[s].phase = "transaction"
        /\ session' = [session EXCEPT ![s].marked = @ \cup {idOf[d]}]
        /\ Show(s, n, d)
        /\ wanted' = [wanted EXCEPT ![s] = @ \cup {d}]
        /\ UNCHANGED <<tlsConfigured, storeVars>>

Rset(s) ==
    /\ session[s].phase = "transaction"
    /\ session' = [session EXCEPT ![s].marked = {}]
    /\ wanted' = [wanted EXCEPT ![s] = {}]
    /\ UNCHANGED <<tlsConfigured, storeVars, shown>>

QuitUnauthenticated(s) ==
    /\ session[s].phase = "authorization"
    /\ Opened(s, Fresh("closed", "plain"))

\* QUIT begins to remove what is marked ...
Quit(s) ==
    /\ session[s].phase = "transaction"
    /\ Quiet(s, [session[s] EXCEPT !.phase = "update", !.rest = session[s].marked])

\* Mutant: the loop ends at a message that is gone already.
PurgeStops(s, id) ==
    LET u == session[s].user
        found == \E d \in store[u] : idOf[d] = id
    IN /\ session[s].phase = "update"
       /\ id \in session[s].rest
       /\ store' = remove(u, id)
       /\ session' = [session EXCEPT ![s].rest = IF found THEN @ \ {id} ELSE {}]
       /\ UNCHANGED <<tlsConfigured, delivered, owner, idOf, shown, wanted>>

\* ... message by message, in the order of a hash set, whether or not another
\* session has removed it meanwhile.
Purge(s, id) ==
    /\ session[s].phase = "update"
    /\ id \in session[s].rest
    /\ store' = remove(session[s].user, id)
    /\ session' = [session EXCEPT ![s].rest = @ \ {id}]
    /\ UNCHANGED <<tlsConfigured, delivered, owner, idOf, shown, wanted>>

QuitDone(s) ==
    /\ session[s].phase = "update"
    /\ session[s].rest = {}
    /\ Quiet(s, [session[s] EXCEPT !.phase = "done"])

Pop(s) ==
    \/ \E u \in Users : User(s, u)
    \/ Pass(s) \/ Rset(s) \/ Quit(s) \/ QuitDone(s) \/ QuitUnauthenticated(s)
    \/ \E n \in Deliveries : Retr(s, n) \/ Dele(s, n) \/ Purge(s, n)

-----------------------------------------------------------------------------
(* IMAP *)

\* Mutant: a second LOGIN leaves the mailbox selected.
LoginStays(s, u) ==
    /\ session[s].phase \in {"authorization", "authenticated", "selected"}
    /\ Protected(s)
    /\ Quiet(s, [session[s] EXCEPT !.user = u,
                    !.phase = IF @ = "selected" THEN @ ELSE "authenticated"])

\* LOGIN with the right password, at any point.  The listing of the last SELECT
\* stays, and cannot be reached before the next one.
Login(s, u) ==
    /\ session[s].phase \in {"authorization", "authenticated", "selected"}
    /\ Protected(s)
    /\ Quiet(s, [session[s] EXCEPT !.user = u, !.phase = "authenticated"])

\* mailbox_key(): INBOX is the user's mailbox, a folder one of its own.
mailbox_key(u, name) == IF name = "inbox" THEN u ELSE <<u, name>>

\* A folder's key is the user's name, a slash and the folder's name.  That this is
\* nobody's mailbox is up to who provisions the accounts: register_user() does not
\* refuse a name that ends like one.
FoldersApart == \A u \in Users : mailbox_key(u, "folder") \notin Users

\* SELECT: nothing is ever delivered to a folder.
Select(s, name) ==
    LET key == mailbox_key(session[s].user, name)
    IN /\ session[s].phase \in {"authenticated", "selected"}
       /\ session' = [session EXCEPT ![s].phase = "selected",
                          ![s].view = IF key \in DOMAIN store THEN store[key] ELSE {}]
       /\ shown' = [shown EXCEPT ![s] = Nothing]
       /\ UNCHANGED <<tlsConfigured, storeVars, wanted>>

Fetch(s, n) ==
    \E d \in Numbered(session[s].view, n) :
        /\ session[s].phase = "selected"
        /\ Show(s, n, d)
        /\ UNCHANGED <<tlsConfigured, storeVars, session, wanted>>

\* LOGOUT
Logout(s) ==
    /\ session[s].phase \in {"authorization", "authenticated", "selected"}
    /\ Opened(s, Fresh("closed", "plain"))

Imap(s) ==
    \/ \E u \in Users : Login(s, u)
    \/ \E name \in {"inbox", "folder"} : Select(s, name)
    \/ \E n \in Deliveries : Fetch(s, n)
    \/ Logout(s)

Next ==
    \/ \E u \in Users : Deliver(u)
    \/ \E s \in Sessions : Connect(s) \/ Drop(s) \/ StartTls(s)
    \/ \E s \in Pops : Pop(s)
    \/ \E s \in Imaps : Imap(s)

Spec == Init /\ [][Next]_vars

-----------------------------------------------------------------------------
(* Properties *)

\* A message leaves a mailbox only when a POP3 session of its owner that has
\* asked for exactly this message says QUIT: not one that arrived after the
\* session's listing, not one of another mailbox, and nothing when the
\* connection drops or after RSET (the QUIT arm of Pop3Session::handle).
RemovalsWarranted ==
    [][\A u \in Users : \A d \in store[u] \ store'[u] :
          \E s \in Pops : /\ session[s].phase = "update"
                          /\ session[s].user = u
                          /\ d \in wanted[s]]_vars

\* When QUIT is done, all that the session asked to delete is gone, whatever
\* other sessions of the mailbox deleted in the meantime.
DeletionHonoured ==
    \A s \in Pops : session[s].phase = "done" =>
        wanted[s] \cap store[session[s].user] = {}

\* A connection is handed mail of the user it is logged on as and of nobody
\* else, also when IMAP logs on a second time with a mailbox selected.
OwnMailOnly ==
    [][\A s \in Sessions, n \in Deliveries :
          shown'[s][n] \notin {0, shown[s][n]}
            => session[s].user = owner[shown'[s][n]]]_vars

\* A message number means the same message from PASS to QUIT, and from one
\* SELECT to the next, whatever is delivered, marked or removed in between.
NumbersStable ==
    [][\A s \in Sessions, n \in Deliveries :
          shown[s][n] # 0 => shown'[s][n] \in {shown[s][n], 0}]_vars

\* With a certificate configured nobody logs on, or names an account, over an
\* unencrypted connection, and what was said before the handshake is forgotten.
LogonProtected ==
    tlsConfigured = "yes" =>
        \A s \in Sessions :
            LoggedOn(s) \/ session[s].pending # NoUser => session[s].channel = "tls"

\* The sessions as a whole: their types, what QUIT leaves and the channel.
AccessInv == TypeOK /\ DeletionHonoured /\ LogonProtected
=============================================================================
