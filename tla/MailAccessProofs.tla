-------------------------- MODULE MailAccessProofs --------------------------
(***************************************************************************)
(* What MailAccess guarantees for any number of accounts, connections and  *)
(* deliveries: mail leaves a mailbox only on the QUIT of a session that    *)
(* asked for it, and then all of it; numbers keep their meaning; nobody    *)
(* sees another's mail, and nobody logs on in the clear.                   *)
(***************************************************************************)
EXTENDS MailAccess, FiniteSetTheorems, TLAPS

Reading == {"transaction", "update", "done", "selected"}   \* a listing can be used
PopPhases  == {"closed", "authorization", "transaction", "update", "done"}
ImapPhases == {"closed", "authorization", "authenticated", "selected"}

\* The store: an id is the number of its delivery, and a mailbox holds
\* deliveries that were made to it.
StoreOK ==
    /\ tlsConfigured \in {"yes", "no"}
    /\ delivered \in 0..MaxMail
    /\ owner \in [Deliveries -> Users \cup {NoUser}]
    /\ idOf \in [Deliveries -> 0..MaxMail]
    /\ store \in [Users -> SUBSET Deliveries]
    /\ \A d \in Deliveries : idOf[d] = IF d <= delivered THEN d ELSE 0
    /\ \A u \in Users : \A d \in store[u] : d <= delivered /\ owner[d] = u

\* One connection: st is its session, sh what its numbers were used for and
\* w what it wants deleted.
PhaseOK(s, st) ==
    /\ st \in SessionStates
    /\ s \in Pops => st.phase \in PopPhases
    /\ s \in Imaps => st.phase \in ImapPhases
    /\ st.phase \notin {"closed", "authorization"} => st.user # NoUser
    /\ tlsConfigured = "yes" =>
        (st.phase \notin {"closed", "authorization"} \/ st.pending # NoUser => st.channel = "tls")

ListingOK(st, sh) ==
    /\ sh \in [Deliveries -> 0..MaxMail]
    /\ \A d \in st.view : d <= delivered
    /\ FoldersApart /\ st.phase \in Reading => \A d \in st.view : owner[d] = st.user
    /\ \A n \in Deliveries : sh[n] # 0 => sh[n] \in Numbered(st.view, n)
    /\ st.phase \in {"closed", "authorization"} => sh = Nothing

DeletionOK(st, w) ==
    /\ w \in SUBSET Deliveries
    /\ st.marked = w
    /\ w \subseteq st.view
    /\ st.rest \subseteq w
    /\ st.phase # "update" => st.rest = {}
    /\ st.phase \in {"closed", "authorization", "authenticated", "selected"} => w = {}
    /\ st.phase = "update" => w \cap store[st.user] \subseteq st.rest
    /\ st.phase = "done" => w \cap store[st.user] = {}

SessionOK(s) ==
    /\ PhaseOK(s, session[s])
    /\ ListingOK(session[s], shown[s])
    /\ DeletionOK(session[s], wanted[s])

AccessInd ==
    /\ StoreOK
    /\ session \in [Sessions -> SessionStates]
    /\ DOMAIN shown = Sessions /\ shown = [s \in Sessions |-> shown[s]]
    /\ wanted \in [Sessions -> SUBSET Deliveries]
    /\ \A s \in Sessions : SessionOK(s)
-----------------------------------------------------------------------------
(* Numbers *)

\* A number names at most one message of a listing.
LEMMA NumberedOne ==
    ASSUME NEW view \in SUBSET Deliveries, NEW n,
           NEW d \in Numbered(view, n), NEW e \in Numbered(view, n)
    PROVE  d = e
<1> DEFINE Upto(x) == {y \in view : y <= x}
<1>1. MaxMail \in Nat
  BY MailAccessAssumption
<1>2. IsFiniteSet(view)
  <2>1. IsFiniteSet(Deliveries)
    BY <1>1, FS_Interval DEF Deliveries
  <2> QED BY <2>1, FS_Subset
<1>3. ASSUME NEW x \in view, NEW z \in view, x < z
      PROVE  Cardinality(Upto(x)) # Cardinality(Upto(z))
  <2>1. IsFiniteSet(Upto(z))
    BY <1>2, FS_Subset
  <2>2. ASSUME NEW y \in Upto(x) PROVE y \in Upto(z)
    <3>1. y \in view /\ y <= x /\ {x, y, z} \subseteq Int
      BY <1>1 DEF Deliveries
    <3> QED BY <1>3, <3>1
  <2>3. z \in Upto(z) /\ z \notin Upto(x)
    BY <1>1, <1>3 DEF Deliveries
  <2> QED BY <2>1, <2>2, <2>3, FS_Subset
<1>4. /\ d \in view /\ Cardinality(Upto(d)) = n
      /\ e \in view /\ Cardinality(Upto(e)) = n
  BY DEF Numbered
<1>5. ~(d < e) /\ ~(e < d)
  BY <1>3, <1>4
<1> QED BY <1>1, <1>4, <1>5 DEF Deliveries
-----------------------------------------------------------------------------
(* Steps of one connection: the other connections and the store stay *)

\* It is enough that the new session is right on its own.
LEMMA SessionStep ==
    ASSUME AccessInd, NEW s \in Sessions, NEW st, NEW sh, NEW w,
           PhaseOK(s, st), ListingOK(st, sh), DeletionOK(st, w),
           session' = [session EXCEPT ![s] = st],
           shown' = [shown EXCEPT ![s] = sh],
           wanted' = [wanted EXCEPT ![s] = w],
           UNCHANGED <<tlsConfigured, storeVars>>
    PROVE  AccessInd'
<1>1. StoreOK'
  BY DEF AccessInd, StoreOK, storeVars
<1>2. session' \in [Sessions -> SessionStates]
  BY DEF AccessInd, PhaseOK
<1>3. DOMAIN shown' = Sessions /\ shown' = [r \in Sessions |-> shown'[r]]
  BY DEF AccessInd
<1>4. wanted' \in [Sessions -> SUBSET Deliveries]
  BY DEF AccessInd, DeletionOK
<1>5. ASSUME NEW r \in Sessions PROVE SessionOK(r)'
  <2> DEFINE st1 == IF r = s THEN st ELSE session[r]
             sh1 == IF r = s THEN sh ELSE shown[r]
             w1  == IF r = s THEN w ELSE wanted[r]
  <2>1. session'[r] = st1 /\ shown'[r] = sh1 /\ wanted'[r] = w1
    BY DEF AccessInd
  <2>2. PhaseOK(r, st1) /\ ListingOK(st1, sh1) /\ DeletionOK(st1, w1)
    BY DEF AccessInd, SessionOK
  <2> HIDE DEF st1, sh1, w1
  <2>3. PhaseOK(r, session[r])'
    BY <2>1, <2>2 DEF PhaseOK
  <2>4. ListingOK(session[r], shown[r])'
    BY <2>1, <2>2 DEF ListingOK, storeVars
  <2>5. DeletionOK(session[r], wanted[r])'
    BY <2>1, <2>2 DEF DeletionOK, storeVars
  <2> QED BY <2>3, <2>4, <2>5 DEF SessionOK
<1> QED BY <1>1, <1>2, <1>3, <1>4, <1>5 DEF AccessInd

\* The session alone changes.
LEMMA QuietStep ==
    ASSUME AccessInd, NEW s \in Sessions, NEW st, Quiet(s, st),
           PhaseOK(s, st), ListingOK(st, shown[s]), DeletionOK(st, wanted[s])
    PROVE  AccessInd'
<1>1. shown' = [shown EXCEPT ![s] = shown[s]] /\ wanted' = [wanted EXCEPT ![s] = wanted[s]]
  BY DEF AccessInd, Quiet
<1> QED BY <1>1, SessionStep DEF Quiet

\* A connection begins, or begins again.
LEMMA OpenedStep ==
    ASSUME AccessInd, NEW s \in Sessions, NEW phase \in {"closed", "authorization"},
           NEW channel \in {"plain", "tls"}, Opened(s, Fresh(phase, channel))
    PROVE  AccessInd'
<1> DEFINE st == Fresh(phase, channel)
<1>1. PhaseOK(s, st)
  BY DEF PhaseOK, Fresh, SessionStates, Phases, PopPhases, ImapPhases
<1>2. ListingOK(st, Nothing)
  BY MailAccessAssumption DEF ListingOK, Fresh, Reading, Nothing
<1>3. DeletionOK(st, {})
  BY DEF DeletionOK, Fresh
<1> QED BY <1>1, <1>2, <1>3, SessionStep DEF Opened

\* A number is used for the message it names.
LEMMA ShowOK ==
    ASSUME AccessInd, NEW s \in Sessions, NEW n \in Deliveries,
           session[s].phase \in {"transaction", "selected"},
           NEW d \in Numbered(session[s].view, n)
    PROVE  /\ ListingOK(session[s], [shown[s] EXCEPT ![n] = d])
           /\ d \in session[s].view /\ d \in Deliveries /\ idOf[d] = d
<1>1. ListingOK(session[s], shown[s]) /\ session[s] \in SessionStates
  BY DEF AccessInd, SessionOK
<1>2. d \in session[s].view /\ d \in Deliveries
  BY <1>1 DEF Numbered, SessionStates
<1>3. d <= delivered /\ idOf[d] = d
  BY <1>1, <1>2 DEF ListingOK, AccessInd, StoreOK
<1> DEFINE sh == [shown[s] EXCEPT ![n] = d]
<1>4. sh \in [Deliveries -> 0..MaxMail]
  BY <1>1, <1>2, MailAccessAssumption DEF ListingOK, Deliveries
<1>5. \A m \in Deliveries : sh[m] # 0 => sh[m] \in Numbered(session[s].view, m)
  BY <1>1 DEF ListingOK
<1> QED BY <1>1, <1>2, <1>3, <1>4, <1>5 DEF ListingOK

\* What is known of a connection, and of what its marks stand for.
LEMMA SessionFacts ==
    ASSUME AccessInd, NEW s \in Sessions
    PROVE  /\ session[s] \in SessionStates
           /\ PhaseOK(s, session[s])
           /\ ListingOK(session[s], shown[s])
           /\ DeletionOK(session[s], wanted[s])
  BY DEF AccessInd, SessionOK, PhaseOK

\* The commands of POP3 that leave the store alone.
LEMMA PopInd ==
    ASSUME AccessInd, NEW s \in Pops, Pop(s), ~\E n \in Deliveries : Purge(s, n)
    PROVE  AccessInd'
<1> USE MailAccessAssumption
<1>0. s \in Sessions /\ s \notin Imaps
  BY DEF Sessions
<1>1. /\ session[s] \in SessionStates
      /\ PhaseOK(s, session[s])
      /\ ListingOK(session[s], shown[s])
      /\ DeletionOK(session[s], wanted[s])
  BY <1>0, SessionFacts
<1>2. ASSUME NEW u \in Users, User(s, u) PROVE AccessInd'
  <2> DEFINE st == [session[s] EXCEPT !.pending = u]
  <2>1. PhaseOK(s, st)
    BY <1>1, <1>2 DEF PhaseOK, SessionStates, User, Protected
  <2>2. ListingOK(st, shown[s]) /\ DeletionOK(st, wanted[s])
    BY <1>1 DEF ListingOK, DeletionOK, SessionStates
  <2> QED BY <1>0, <1>2, <2>1, <2>2, QuietStep DEF User
<1>3. CASE Pass(s)
  <2> DEFINE u == session[s].pending
             taken == [session[s] EXCEPT !.pending = NoUser]
             in == [taken EXCEPT !.phase = "transaction", !.user = u, !.view = store[u]]
  <2>0. session[s].phase = "authorization" /\ Protected(s) /\ u # NoUser
    BY <1>3 DEF Pass
  <2>1. u \in Users /\ store[u] \in SUBSET Deliveries
    BY <1>1, <2>0 DEF AccessInd, StoreOK, SessionStates
  <2>2. CASE Quiet(s, taken)
    <3>1. PhaseOK(s, taken)
      BY <1>1, <2>0 DEF PhaseOK, SessionStates
    <3>2. ListingOK(taken, shown[s]) /\ DeletionOK(taken, wanted[s])
      BY <1>1 DEF ListingOK, DeletionOK, SessionStates
    <3> QED BY <1>0, <2>2, <3>1, <3>2, QuietStep
  <2>3. CASE Quiet(s, in)
    <3>0. /\ in \in SessionStates
          /\ in.phase = "transaction" /\ in.channel = session[s].channel
          /\ in.pending = NoUser /\ in.user = u /\ in.view = store[u]
          /\ in.marked = session[s].marked /\ in.rest = session[s].rest
      BY <1>1, <2>1 DEF SessionStates, Phases
    <3>1. PhaseOK(s, in)
      BY <1>0, <2>0, <2>1, <3>0 DEF PhaseOK, PopPhases, Protected
    <3>2. \A d \in store[u] : d <= delivered /\ owner[d] = u
      BY <2>1 DEF AccessInd, StoreOK
    <3>3. shown[s] = Nothing /\ wanted[s] = {} /\ session[s].marked = {} /\ session[s].rest = {}
      BY <1>1, <2>0 DEF ListingOK, DeletionOK
    <3>4. ListingOK(in, shown[s])
      BY <3>0, <3>2, <3>3 DEF ListingOK, Nothing
    <3>5. DeletionOK(in, wanted[s])
      BY <3>0, <3>3 DEF DeletionOK
    <3> QED BY <1>0, <2>3, <3>1, <3>4, <3>5, QuietStep
  <2> QED BY <1>3, <2>2, <2>3 DEF Pass
<1>4. CASE Rset(s)
  <2> DEFINE st == [session[s] EXCEPT !.marked = {}]
  <2>1. PhaseOK(s, st)
    BY <1>1 DEF PhaseOK, SessionStates
  <2>2. ListingOK(st, shown[s])
    BY <1>1 DEF ListingOK, SessionStates
  <2>3. DeletionOK(st, {})
    BY <1>1, <1>4 DEF DeletionOK, SessionStates, Rset
  <2>4. shown' = [shown EXCEPT ![s] = shown[s]]
    BY <1>4 DEF AccessInd, Rset
  <2>5. session' = [session EXCEPT ![s] = st]
    BY <1>4 DEF Rset
  <2> QED BY <1>0, <1>4, <2>1, <2>2, <2>3, <2>4, <2>5, SessionStep DEF Rset
<1>5. CASE Quit(s)
  <2> DEFINE st == [session[s] EXCEPT !.phase = "update", !.rest = session[s].marked]
  <2>0. /\ st \in SessionStates
        /\ st.phase = "update" /\ st.channel = session[s].channel
        /\ st.pending = session[s].pending /\ st.user = session[s].user /\ st.view = session[s].view
        /\ st.marked = session[s].marked /\ st.rest = session[s].marked
    BY <1>1 DEF SessionStates, Phases
  <2>1. PhaseOK(s, st)
    BY <1>0, <1>1, <1>5, <2>0 DEF PhaseOK, SessionStates, Phases, PopPhases, Quit
  <2>2. ListingOK(st, shown[s]) /\ DeletionOK(st, wanted[s])
    BY <1>1, <1>5, <2>0 DEF ListingOK, DeletionOK, Quit, Reading
  <2> QED BY <1>0, <1>5, <2>1, <2>2, QuietStep DEF Quit
<1>6. CASE QuitDone(s)
  <2> DEFINE st == [session[s] EXCEPT !.phase = "done"]
  <2>0. /\ st \in SessionStates
        /\ st.phase = "done" /\ st.channel = session[s].channel
        /\ st.pending = session[s].pending /\ st.user = session[s].user /\ st.view = session[s].view
        /\ st.marked = session[s].marked /\ st.rest = session[s].rest
    BY <1>1 DEF SessionStates, Phases
  <2>1. PhaseOK(s, st)
    BY <1>0, <1>1, <1>6, <2>0 DEF PhaseOK, SessionStates, Phases, PopPhases, QuitDone
  <2>2. ListingOK(st, shown[s]) /\ DeletionOK(st, wanted[s])
    BY <1>1, <1>6, <2>0 DEF ListingOK, DeletionOK, QuitDone, Reading
  <2> QED BY <1>0, <1>6, <2>1, <2>2, QuietStep DEF QuitDone
<1>7. CASE QuitUnauthenticated(s)
  BY <1>0, <1>7, OpenedStep DEF QuitUnauthenticated
<1>8. ASSUME NEW n \in Deliveries, Retr(s, n) PROVE AccessInd'
  <2>1. PICK d \in MessageAt(s, n) : Retr(s, n)!(d)
    BY <1>8 DEF Retr
  <2>2. d \in Numbered(session[s].view, n)
    BY DEF MessageAt
  <2>3. ListingOK(session[s], [shown[s] EXCEPT ![n] = d])
    BY <1>0, <2>1, <2>2, ShowOK
  <2>4. session' = [session EXCEPT ![s] = session[s]] /\ wanted' = [wanted EXCEPT ![s] = wanted[s]]
    BY <2>1 DEF AccessInd
  <2>5. shown' = [shown EXCEPT ![s] = [shown[s] EXCEPT ![n] = d]]
    BY <2>1 DEF Show
  <2> QED BY <1>0, <1>1, <2>1, <2>3, <2>4, <2>5, SessionStep
<1>9. ASSUME NEW n \in Deliveries, Dele(s, n) PROVE AccessInd'
  <2>1. PICK d \in MessageAt(s, n) : Dele(s, n)!(d)
    BY <1>9 DEF Dele
  <2> DEFINE st == [session[s] EXCEPT !.marked = @ \cup {idOf[d]}]
             sh == [shown[s] EXCEPT ![n] = d]
             w == wanted[s] \cup {d}
  <2>2. d \in Numbered(session[s].view, n)
    BY DEF MessageAt
  <2>3. ListingOK(session[s], sh) /\ d \in session[s].view /\ d \in Deliveries /\ idOf[d] = d
    BY <1>0, <2>1, <2>2, ShowOK
  <2>4. /\ st \in SessionStates
        /\ st.phase = "transaction" /\ st.channel = session[s].channel
        /\ st.pending = session[s].pending /\ st.user = session[s].user /\ st.view = session[s].view
        /\ st.marked = session[s].marked \cup {d} /\ st.rest = session[s].rest
    BY <1>1, <2>1, <2>3, MailAccessAssumption DEF SessionStates, Phases
  <2>5. PhaseOK(s, st)
    BY <1>0, <1>1, <2>1, <2>3, <2>4 DEF PhaseOK, SessionStates, Phases, PopPhases
  <2>6. ListingOK(st, sh)
    BY <2>1, <2>3, <2>4 DEF ListingOK
  <2>7. DeletionOK(st, w)
    BY <1>1, <2>1, <2>3, <2>4 DEF DeletionOK
  <2>8. /\ session' = [session EXCEPT ![s] = st]
        /\ shown' = [shown EXCEPT ![s] = sh]
        /\ wanted' = [wanted EXCEPT ![s] = w]
    BY <2>1 DEF Show
  <2> QED BY <1>0, <2>1, <2>5, <2>6, <2>7, <2>8, SessionStep
<1> QED BY <1>2, <1>3, <1>4, <1>5, <1>6, <1>7, <1>8, <1>9 DEF Pop

\* QUIT's loop: a message leaves the store and the session's rest at once.
LEMMA PurgeInd ==
    ASSUME AccessInd, NEW s \in Pops, NEW id \in Deliveries, Purge(s, id)
    PROVE  AccessInd'
<1> USE MailAccessAssumption
<1> DEFINE user == session[s].user
<1>0. s \in Sessions /\ s \notin Imaps
  BY DEF Sessions
<1>1. /\ session[s] \in SessionStates
      /\ PhaseOK(s, session[s])
      /\ DeletionOK(session[s], wanted[s])
  BY <1>0, SessionFacts
<1>2. user \in Users /\ session[s].phase = "update"
  BY <1>1 DEF PhaseOK, SessionStates, Purge
<1>3. store' = [store EXCEPT ![user] = store[user] \ {id}]
  <2>1. \A d \in store[user] : d \in Deliveries /\ idOf[d] = d
    BY <1>2 DEF AccessInd, StoreOK
  <2>2. {d \in store[user] : idOf[d] # id} = store[user] \ {id}
    BY <2>1
  <2> QED BY <2>2 DEF Purge, remove
<1>4. /\ store' \in [Users -> SUBSET Deliveries]
      /\ \A u \in Users : store'[u] \subseteq store[u]
      /\ id \notin store'[user]
  BY <1>2, <1>3 DEF AccessInd, StoreOK
<1>5. StoreOK'
  <2>1. UNCHANGED <<tlsConfigured, delivered, owner, idOf>>
    BY DEF Purge
  <2> QED BY <1>4, <2>1 DEF AccessInd, StoreOK
<1> DEFINE st == [session[s] EXCEPT !.rest = @ \ {id}]
<1>6. /\ session' = [session EXCEPT ![s] = st] /\ shown' = shown /\ wanted' = wanted
      /\ UNCHANGED <<tlsConfigured, delivered, owner, idOf>>
  BY DEF Purge
<1>7. /\ st \in SessionStates
      /\ st.phase = "update" /\ st.channel = session[s].channel
      /\ st.pending = session[s].pending /\ st.user = user /\ st.view = session[s].view
      /\ st.marked = session[s].marked /\ st.rest = session[s].rest \ {id}
  BY <1>1, <1>2 DEF SessionStates, Phases
<1>8. ASSUME NEW r \in Sessions PROVE SessionOK(r)'
  <2>1. /\ PhaseOK(r, session[r])
        /\ ListingOK(session[r], shown[r])
        /\ DeletionOK(session[r], wanted[r])
        /\ session[r] \in SessionStates
    BY SessionFacts
  <2>2. session'[r] = IF r = s THEN st ELSE session[r]
    BY <1>6 DEF AccessInd
  <2>3. PhaseOK(r, session[r])'
    BY <1>2, <1>6, <1>7, <2>1, <2>2 DEF PhaseOK
  <2>4. ListingOK(session[r], shown[r])'
    BY <1>2, <1>6, <1>7, <2>1, <2>2 DEF ListingOK
  <2>5. DeletionOK(session[r], wanted[r])'
    <3>1. CASE r = s
      BY <1>1, <1>2, <1>4, <1>6, <1>7, <2>2, <3>1 DEF DeletionOK
    <3>2. CASE r # s
      <4>1. session[r].phase \in {"update", "done"} => session[r].user \in Users
        BY <2>1 DEF PhaseOK, SessionStates
      <4> QED BY <1>4, <1>6, <2>1, <2>2, <3>2, <4>1 DEF DeletionOK
    <3> QED BY <3>1, <3>2
  <2> QED BY <2>3, <2>4, <2>5 DEF SessionOK
<1>9. session' \in [Sessions -> SessionStates]
  BY <1>6, <1>7 DEF AccessInd
<1> QED BY <1>5, <1>6, <1>8, <1>9 DEF AccessInd

\* A delivery is in no listing and in nobody's wishes.
LEMMA DeliverInd ==
    ASSUME AccessInd, NEW u \in Users, Deliver(u)
    PROVE  AccessInd'
<1> USE MailAccessAssumption
<1> DEFINE d0 == delivered + 1
<1>1. /\ d0 \in Deliveries /\ delivered \in Nat
      /\ delivered' = d0
      /\ owner' = [owner EXCEPT ![d0] = u]
      /\ idOf' = [idOf EXCEPT ![d0] = d0]
      /\ store' = [store EXCEPT ![u] = store[u] \cup {d0}]
      /\ UNCHANGED <<tlsConfigured, session, shown, wanted>>
  BY DEF AccessInd, StoreOK, Deliver, Deliveries, NextId
<1>2. StoreOK'
  <2>1. /\ tlsConfigured' \in {"yes", "no"}
        /\ delivered' \in 0..MaxMail
        /\ owner' \in [Deliveries -> Users \cup {NoUser}]
        /\ idOf' \in [Deliveries -> 0..MaxMail]
        /\ store' \in [Users -> SUBSET Deliveries]
    BY <1>1 DEF AccessInd, StoreOK, Deliveries
  <2>2. \A d \in Deliveries : idOf'[d] = IF d <= delivered' THEN d ELSE 0
    BY <1>1 DEF AccessInd, StoreOK, Deliveries
  <2>3. ASSUME NEW v \in Users, NEW d \in store'[v]
        PROVE  d <= delivered' /\ owner'[d] = v
    <3>1. d \in Deliveries
      BY <2>1
    <3>2. d \in store[v] \/ (v = u /\ d = d0)
      BY <1>1 DEF AccessInd, StoreOK
    <3> QED BY <1>1, <3>1, <3>2 DEF AccessInd, StoreOK, Deliveries
  <2> QED BY <2>1, <2>2, <2>3 DEF StoreOK
<1>3. ASSUME NEW r \in Sessions PROVE SessionOK(r)'
  <2>1. /\ PhaseOK(r, session[r])
        /\ ListingOK(session[r], shown[r])
        /\ DeletionOK(session[r], wanted[r])
        /\ session[r] \in SessionStates
    BY SessionFacts
  <2>2. \A d \in session[r].view : d <= delivered /\ d \in Deliveries /\ d # d0 /\ owner'[d] = owner[d]
    BY <1>1, <2>1 DEF ListingOK, SessionStates, Deliveries, AccessInd, StoreOK
  <2>3. PhaseOK(r, session[r])'
    BY <1>1, <2>1 DEF PhaseOK
  <2>4. ListingOK(session[r], shown[r])'
    <3>1. \A d \in session[r].view : d <= delivered'
      BY <1>1, <2>2 DEF Deliveries
    <3> QED BY <1>1, <2>1, <2>2, <3>1 DEF ListingOK
  <2>5. DeletionOK(session[r], wanted[r])'
    <3>1. session[r].phase \in {"update", "done"} =>
            wanted[r] \cap store'[session[r].user] \subseteq wanted[r] \cap store[session[r].user]
      <4>1. session[r].phase \in {"update", "done"} => session[r].user \in Users
        BY <2>1 DEF PhaseOK, SessionStates
      <4>2. d0 \notin wanted[r]
        BY <2>1, <2>2 DEF DeletionOK
      <4> QED BY <1>1, <4>1, <4>2 DEF AccessInd, StoreOK
    <3> QED BY <1>1, <2>1, <3>1 DEF DeletionOK
  <2> QED BY <2>3, <2>4, <2>5 DEF SessionOK
<1> QED BY <1>1, <1>2, <1>3 DEF AccessInd

\* The commands of IMAP.
LEMMA ImapInd ==
    ASSUME AccessInd, NEW s \in Imaps, Imap(s)
    PROVE  AccessInd'
<1> USE MailAccessAssumption
<1>0. s \in Sessions /\ s \notin Pops
  BY DEF Sessions
<1>1. /\ session[s] \in SessionStates
      /\ PhaseOK(s, session[s])
      /\ ListingOK(session[s], shown[s])
      /\ DeletionOK(session[s], wanted[s])
  BY <1>0, SessionFacts
<1>2. ASSUME NEW u \in Users, Login(s, u) PROVE AccessInd'
  <2> DEFINE st == [session[s] EXCEPT !.user = u, !.phase = "authenticated"]
  <2>1. /\ st \in SessionStates
        /\ st.phase = "authenticated" /\ st.channel = session[s].channel
        /\ st.pending = session[s].pending /\ st.user = u /\ st.view = session[s].view
        /\ st.marked = session[s].marked /\ st.rest = session[s].rest
    BY <1>1 DEF SessionStates, Phases
  <2>2. PhaseOK(s, st)
    BY <1>0, <1>1, <1>2, <2>1 DEF PhaseOK, ImapPhases, Login, Protected
  <2>3. ListingOK(st, shown[s])
    BY <1>1, <2>1 DEF ListingOK, Reading
  <2>4. DeletionOK(st, wanted[s])
    BY <1>1, <1>2, <2>1 DEF DeletionOK, Login
  <2> QED BY <1>0, <1>2, <2>2, <2>3, <2>4, QuietStep DEF Login
<1>3. ASSUME NEW name \in {"inbox", "folder"}, Select(s, name) PROVE AccessInd'
  <2> DEFINE key == mailbox_key(session[s].user, name)
             list == IF key \in DOMAIN store THEN store[key] ELSE {}
             st == [[session[s] EXCEPT !.phase = "selected"] EXCEPT !.view = list]
  <2>0. session[s].phase \in {"authenticated", "selected"} /\ session[s].user \in Users
    BY <1>1, <1>3 DEF Select, PhaseOK, SessionStates
  <2>1. /\ list \in SUBSET Deliveries
        /\ \A d \in list : d <= delivered
        /\ FoldersApart => \A d \in list : owner[d] = session[s].user
    BY <2>0 DEF AccessInd, StoreOK, FoldersApart, mailbox_key
  <2> HIDE DEF list
  <2>2. /\ st \in SessionStates
        /\ st.phase = "selected" /\ st.channel = session[s].channel
        /\ st.pending = session[s].pending /\ st.user = session[s].user /\ st.view = list
        /\ st.marked = session[s].marked /\ st.rest = session[s].rest
    BY <1>1, <2>1 DEF SessionStates, Phases
  <2>3. PhaseOK(s, st)
    BY <1>0, <1>1, <2>0, <2>2 DEF PhaseOK, ImapPhases
  <2>4. ListingOK(st, Nothing)
    BY <2>1, <2>2 DEF ListingOK, Nothing
  <2>5. DeletionOK(st, wanted[s])
    BY <1>1, <2>0, <2>2 DEF DeletionOK
  <2>6. session' = [session EXCEPT ![s] = st]
    BY <1>0, <1>3 DEF Select, AccessInd, list
  <2>7. wanted' = [wanted EXCEPT ![s] = wanted[s]]
    BY <1>3 DEF Select, AccessInd
  <2> QED BY <1>0, <1>3, <2>3, <2>4, <2>5, <2>6, <2>7, SessionStep DEF Select
<1>4. ASSUME NEW n \in Deliveries, Fetch(s, n) PROVE AccessInd'
  <2>1. PICK d \in Numbered(session[s].view, n) : Fetch(s, n)!(d)
    BY <1>4 DEF Fetch
  <2>2. ListingOK(session[s], [shown[s] EXCEPT ![n] = d])
    BY <1>0, <2>1, ShowOK
  <2>3. session' = [session EXCEPT ![s] = session[s]] /\ wanted' = [wanted EXCEPT ![s] = wanted[s]]
    BY <2>1 DEF AccessInd
  <2>4. shown' = [shown EXCEPT ![s] = [shown[s] EXCEPT ![n] = d]]
    BY <2>1 DEF Show
  <2> QED BY <1>0, <1>1, <2>1, <2>2, <2>3, <2>4, SessionStep
<1>5. CASE Logout(s)
  BY <1>0, <1>5, OpenedStep DEF Logout
<1> QED BY <1>2, <1>3, <1>4, <1>5 DEF Imap
-----------------------------------------------------------------------------
(* The theorems *)

\* No mail and no connection at first.
LEMMA InitInd == Init => AccessInd
<1> SUFFICES ASSUME Init PROVE AccessInd
  OBVIOUS
<1> USE MailAccessAssumption
<1> DEFINE st == Fresh("closed", "plain")
<1>1. StoreOK
  BY DEF Init, StoreOK, Deliveries
<1>2. st \in SessionStates
  BY DEF Fresh, SessionStates, Phases
<1>3. ASSUME NEW s \in Sessions PROVE SessionOK(s)
  <2>1. session[s] = st /\ shown[s] = Nothing /\ wanted[s] = {}
    BY DEF Init
  <2>2. PhaseOK(s, st)
    BY DEF PhaseOK, Fresh, SessionStates, Phases, PopPhases, ImapPhases
  <2>3. ListingOK(st, Nothing)
    BY DEF ListingOK, Fresh, Reading, Nothing
  <2>4. DeletionOK(st, {})
    BY DEF DeletionOK, Fresh
  <2> QED BY <2>1, <2>2, <2>3, <2>4 DEF SessionOK
<1> QED BY <1>1, <1>2, <1>3 DEF Init, AccessInd

\* Every step preserves the invariant.
LEMMA NextInd == AccessInd /\ [Next]_vars => AccessInd'
<1> SUFFICES ASSUME AccessInd, [Next]_vars PROVE AccessInd'
  OBVIOUS
<1>1. ASSUME NEW u \in Users, Deliver(u) PROVE AccessInd'
  BY <1>1, DeliverInd
<1>2. ASSUME NEW s \in Sessions, Connect(s) \/ Drop(s) \/ StartTls(s) PROVE AccessInd'
  BY <1>2, OpenedStep DEF Connect, Drop, StartTls
<1>3. ASSUME NEW s \in Pops, Pop(s) PROVE AccessInd'
  BY <1>3, PopInd, PurgeInd
<1>4. ASSUME NEW s \in Imaps, Imap(s) PROVE AccessInd'
  BY <1>4, ImapInd
<1>5. CASE UNCHANGED vars
  BY <1>5 DEF vars, storeVars, AccessInd, StoreOK, SessionOK, PhaseOK, ListingOK, DeletionOK
<1> QED BY <1>1, <1>2, <1>3, <1>4, <1>5 DEF Next

\* The inductive invariant: ids are delivery numbers, a mailbox holds what was
\* delivered to it, a listing what its user owned when it was taken, and a
\* session's marks are exactly its wishes and, during QUIT, what is left to do.
THEOREM AccessInductive == Spec => []AccessInd
  BY InitInd, NextInd, PTL DEF Spec

\* At all times, with any number of connections: the types, QUIT leaves nothing
\* of what the session marked (Pop3Session::handle, remove()), and with a
\* certificate nobody logs on or names an account in the clear
\* (credentials_checked()).
THEOREM AccessIsSafe == Spec => []AccessInv
<1>1. AccessInd => AccessInv
  <2> SUFFICES ASSUME AccessInd PROVE AccessInv
    OBVIOUS
  <2>1. \A s \in Sessions : PhaseOK(s, session[s]) /\ DeletionOK(session[s], wanted[s])
                            /\ shown[s] \in [Deliveries -> 0..MaxMail]
    BY DEF AccessInd, SessionOK, ListingOK
  <2>2. TypeOK
    <3>1. shown \in [Sessions -> [Deliveries -> 0..MaxMail]]
      BY <2>1 DEF AccessInd
    <3>2. \A s \in Sessions : LoggedOn(s) => session[s].user # NoUser
      BY <2>1 DEF LoggedOn, PhaseOK
    <3> QED BY <3>1, <3>2 DEF AccessInd, StoreOK, TypeOK
  <2>3. DeletionHonoured
    BY <2>1 DEF DeletionHonoured, DeletionOK, Sessions
  <2>4. LogonProtected
    BY <2>1 DEF LogonProtected, LoggedOn, PhaseOK
  <2> QED BY <2>2, <2>3, <2>4 DEF AccessInv
<1> QED BY <1>1, AccessInductive, PTL

\* A step leaves the store alone, is a delivery, or is one removal of a QUIT.
LEMMA StoreSteps ==
    ASSUME [Next]_vars
    PROVE  \/ store' = store
           \/ \E u \in Users : Deliver(u)
           \/ \E s \in Pops : \E id \in Deliveries : Purge(s, id)
<1>1. ASSUME NEW s \in Sessions, Connect(s) \/ Drop(s) \/ StartTls(s) PROVE store' = store
  BY <1>1 DEF Connect, Drop, StartTls, Opened, storeVars
<1>2. ASSUME NEW s \in Pops, Pop(s), ~\E id \in Deliveries : Purge(s, id) PROVE store' = store
  BY <1>2 DEF Pop, User, Pass, Rset, Quit, QuitDone, QuitUnauthenticated, Retr, Dele,
              Opened, Quiet, storeVars
<1>3. ASSUME NEW s \in Imaps, Imap(s) PROVE store' = store
  BY <1>3 DEF Imap, Login, Select, Fetch, Logout, Opened, Quiet, storeVars
<1>4. CASE UNCHANGED vars
  BY <1>4 DEF vars, storeVars
<1> QED BY <1>1, <1>2, <1>3, <1>4 DEF Next

\* Nothing leaves a mailbox but what a session of its owner, in QUIT, has asked
\* for message by message: not another's mail, not what came after the listing.
THEOREM OnlyWarrantedRemovals == Spec => RemovalsWarranted
<1> DEFINE Warranted ==
      \A u \in Users : \A d \in store[u] \ store'[u] :
          \E s \in Pops : /\ session[s].phase = "update"
                          /\ session[s].user = u
                          /\ d \in wanted[s]
<1>1. AccessInd /\ [Next]_vars => Warranted
  <2> SUFFICES ASSUME AccessInd, [Next]_vars,
                      NEW u \in Users, NEW d \in store[u] \ store'[u]
               PROVE  \E s \in Pops : /\ session[s].phase = "update"
                                      /\ session[s].user = u
                                      /\ d \in wanted[s]
    OBVIOUS
  <2>1. ASSUME NEW v \in Users, Deliver(v) PROVE FALSE
    BY <2>1 DEF Deliver, AccessInd, StoreOK
  <2>2. ASSUME NEW s \in Pops, NEW id \in Deliveries, Purge(s, id)
        PROVE  session[s].phase = "update" /\ session[s].user = u /\ d \in wanted[s]
    <3>1. s \in Sessions /\ DeletionOK(session[s], wanted[s]) /\ session[s].phase = "update"
      BY <2>2, SessionFacts DEF Sessions, Purge
    <3>2. d \in Deliveries /\ idOf[d] = d
      BY DEF AccessInd, StoreOK
    <3>3. session[s].user = u /\ d = id
      BY <2>2, <3>2 DEF Purge, remove, AccessInd, StoreOK
    <3> QED BY <2>2, <3>1, <3>3 DEF Purge, DeletionOK
  <2> QED BY <2>1, <2>2, StoreSteps
<1>2. AccessInd /\ [Next]_vars => [Warranted]_vars
  BY <1>1
<1> HIDE DEF Warranted
<1>3. Spec => [][Warranted]_vars
  BY <1>2, AccessInductive, PTL DEF Spec
<1> QED BY <1>3 DEF RemovalsWarranted, Warranted

\* A step that shows something new for a number shows, to a session that reads,
\* the message that the number names in its listing.
LEMMA ShowSteps ==
    ASSUME AccessInd, [Next]_vars, NEW r \in Sessions, NEW n \in Deliveries
    PROVE  \/ shown'[r][n] \in {0, shown[r][n]}
           \/ /\ session[r].phase \in {"transaction", "selected"}
              /\ shown'[r][n] \in Numbered(session[r].view, n)
<1> USE MailAccessAssumption
<1> DEFINE Goal == \/ shown'[r][n] \in {0, shown[r][n]}
                   \/ /\ session[r].phase \in {"transaction", "selected"}
                      /\ shown'[r][n] \in Numbered(session[r].view, n)
<1>0. /\ DOMAIN shown = Sessions
      /\ \A s \in Sessions : shown[s] \in [Deliveries -> 0..MaxMail]
  BY SessionFacts DEF AccessInd, ListingOK
<1>1. ASSUME NEW s \in Sessions, shown' = [shown EXCEPT ![s] = Nothing] PROVE Goal
  BY <1>0, <1>1 DEF Nothing
<1>2. ASSUME shown' = shown PROVE Goal
  BY <1>2
<1>3. ASSUME NEW s \in Sessions, NEW m \in Deliveries, NEW d \in Numbered(session[s].view, m),
             session[s].phase \in {"transaction", "selected"}, Show(s, m, d)
      PROVE  Goal
  BY <1>0, <1>3 DEF Show
<1>4. ASSUME NEW s \in Sessions, Connect(s) \/ Drop(s) \/ StartTls(s) PROVE Goal
  BY <1>1, <1>4 DEF Connect, Drop, StartTls, Opened
<1>5. ASSUME NEW s \in Pops, Pop(s) PROVE Goal
  <2>0. s \in Sessions
    BY DEF Sessions
  <2>1. CASE \E m \in Deliveries : Retr(s, m) \/ Dele(s, m)
    BY <1>3, <2>0, <2>1 DEF Retr, Dele, MessageAt
  <2>2. CASE QuitUnauthenticated(s)
    BY <1>1, <2>0, <2>2 DEF QuitUnauthenticated, Opened
  <2>3. CASE ~QuitUnauthenticated(s) /\ ~\E m \in Deliveries : Retr(s, m) \/ Dele(s, m)
    BY <1>2, <1>5, <2>3 DEF Pop, User, Pass, Rset, Quit, QuitDone, Purge, Quiet
  <2> QED BY <2>1, <2>2, <2>3
<1>6. ASSUME NEW s \in Imaps, Imap(s) PROVE Goal
  <2>0. s \in Sessions
    BY DEF Sessions
  <2>1. CASE \E m \in Deliveries : Fetch(s, m)
    BY <1>3, <2>0, <2>1 DEF Fetch
  <2>2. CASE Logout(s) \/ \E name \in {"inbox", "folder"} : Select(s, name)
    BY <1>1, <2>0, <2>2 DEF Logout, Select, Opened
  <2>3. CASE \E u \in Users : Login(s, u)
    BY <1>2, <2>3 DEF Login, Quiet
  <2> QED BY <1>6, <2>1, <2>2, <2>3 DEF Imap
<1>7. ASSUME NEW u \in Users, Deliver(u) PROVE Goal
  BY <1>2, <1>7 DEF Deliver
<1>8. CASE UNCHANGED vars
  BY <1>2, <1>8 DEF vars
<1> QED BY <1>4, <1>5, <1>6, <1>7, <1>8 DEF Next

\* A message number that was used keeps its meaning until the next SELECT or the
\* end of the session, whatever others deliver or remove (message_at()).
THEOREM NumbersKeepMeaning == Spec => NumbersStable
<1> DEFINE Stable == \A s \in Sessions, n \in Deliveries :
                        shown[s][n] # 0 => shown'[s][n] \in {shown[s][n], 0}
<1>1. AccessInd /\ [Next]_vars => Stable
  <2> SUFFICES ASSUME AccessInd, [Next]_vars, NEW s \in Sessions, NEW n \in Deliveries,
                      shown[s][n] # 0
               PROVE  shown'[s][n] \in {shown[s][n], 0}
    OBVIOUS
  <2>1. shown[s][n] \in Numbered(session[s].view, n) /\ session[s].view \in SUBSET Deliveries
    BY SessionFacts DEF ListingOK, SessionStates
  <2>2. shown'[s][n] \in Numbered(session[s].view, n) => shown'[s][n] = shown[s][n]
    BY <2>1, NumberedOne
  <2> QED BY <2>2, ShowSteps
<1>2. AccessInd /\ [Next]_vars => [Stable]_vars
  BY <1>1
<1> HIDE DEF Stable
<1>3. Spec => [][Stable]_vars
  BY <1>2, AccessInductive, PTL DEF Spec
<1> QED BY <1>3 DEF NumbersStable, Stable

\* If no account is named like a folder of another, a connection is only ever
\* handed mail of the user it is logged on as (mailbox_key(), LOGIN, PASS).
THEOREM OnlyOwnMail == FoldersApart => (Spec => OwnMailOnly)
<1> SUFFICES ASSUME FoldersApart PROVE Spec => OwnMailOnly
  OBVIOUS
<1> DEFINE Own == \A s \in Sessions, n \in Deliveries :
                     shown'[s][n] \notin {0, shown[s][n]}
                        => session[s].user = owner[shown'[s][n]]
<1>1. AccessInd /\ [Next]_vars => Own
  <2> SUFFICES ASSUME AccessInd, [Next]_vars, NEW s \in Sessions, NEW n \in Deliveries,
                      shown'[s][n] \notin {0, shown[s][n]}
               PROVE  session[s].user = owner[shown'[s][n]]
    OBVIOUS
  <2>1. session[s].phase \in Reading /\ shown'[s][n] \in session[s].view
    BY ShowSteps DEF Reading, Numbered
  <2> QED BY <2>1, SessionFacts DEF ListingOK
<1>2. AccessInd /\ [Next]_vars => [Own]_vars
  BY <1>1
<1> HIDE DEF Own
<1>3. Spec => [][Own]_vars
  BY <1>2, AccessInductive, PTL DEF Spec
<1> QED BY <1>3 DEF OwnMailOnly, Own
=============================================================================
