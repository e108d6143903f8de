---------------------------- MODULE RelayProofs ----------------------------
(***************************************************************************)
(* What Relay guarantees for every set of exchangers, preferences, TLSA    *)
(* records, certificate chains and trust anchors: the verifiers accept     *)
(* only peers that the records or the authorities vouch for, no mail       *)
(* transaction is less protected than the policies in force demand, the    *)
(* exchanges are tried in order of preference, a report says what happened,*)
(* and a call is what the relay worker takes it for (RelayCall).           *)
(***************************************************************************)
EXTENDS Relay, FiniteSetTheorems, TLAPS

Looking == {"start", "mx", "policy"}                \* no exchange chosen yet
Settled == Dialog \cup {"resolve", "connect"}       \* the posture of mx is known
Trying  == Settled \cup {"posture"}

\* An exchange that is being tried is the best of those that are left, and
\* nothing else is being tried.
InTurn ==
    pc \in Trying =>
        /\ mx \in DOMAIN pref
        /\ outcome[mx] = "current"
        /\ \A e \in DOMAIN pref : outcome[e] = "untried" => pref[mx] <= pref[e]

OneCurrent ==
    \A e \in Exchanges : outcome[e] = "current" => e = mx /\ pc \in Trying \cup {"done"}

\* An exchange is passed over for one of two reasons, and the policy that is
\* the second one does not change once exchanges are tried.
SkippedForCause ==
    /\ \A e \in Exchanges :
          outcome[e] = "skipped" => e = Null \/ (policy.mode = "enforce" /\ e \notin policy.allows)
    /\ pc \in Looking => policy = NoPolicy /\ \A e \in Exchanges : outcome[e] = "untried"
    /\ pc = "policy" => DOMAIN pref # {}

\* The report is there when the call is over, and not before; there is an
\* address to connect to.
Progress ==
    /\ report # "pending" <=> pc = "done"
    /\ pc = "connect" => addrs > 0

\* The posture is the one that the TLSA records or the policy ask for.
PostureRight ==
    /\ daneActive => policy = NoPolicy
    /\ pc \in Settled =>
        IF daneActive
          THEN posture = IF has_usable_tlsa(tlsa) THEN "dane" ELSE Fallback
          ELSE /\ tlsa = {}
               /\ posture = IF policy.mode = "enforce" THEN "pkix" ELSE Fallback
               /\ policy.mode = "enforce" => mx \in policy.allows

\* An encrypted connection was verified as the posture demands; a connection
\* that is not is used for a transaction only if neither the posture nor the
\* peer's offer calls for TLS.
ChannelRight ==
    /\ pc \in Dialog /\ chan = "tls" =>
        /\ posture = "dane" => "dane" \in proved
        /\ posture = "pkix" => "pkix" \in proved
    /\ pc \in {"starttls", "handshake"} => offered /\ has_config(posture)
    /\ pc = "ehloTls" => chan = "tls"
    /\ pc \in Transaction =>
        chan = "tls" \/ (~is_mandatory(posture) /\ ~(has_config(posture) /\ offered))

RelayInd ==
    /\ TypeOK /\ InTurn /\ OneCurrent /\ SkippedForCause /\ Progress
    /\ DeferredAfterAll /\ FailedForCause /\ PostureRight /\ ChannelRight
-----------------------------------------------------------------------------
(* The verifiers *)

\* The least element of a set of numbers, for arguments along a chain.
LEMMA LeastNat ==
    ASSUME NEW S \in SUBSET Nat, S # {}
    PROVE  \E n \in S : \A m \in S : n <= m
<1>1. PICK x \in S : \A y \in S : ~(<<y, x>> \in OpToRel(<, Nat))
  BY NatLessThanWellFounded, WFMin, Zenon
<1>2. \A y \in S : ~(y < x)
  BY <1>1 DEF OpToRel
<1> QED BY <1>2

\* webpki accepts a chain only below a key that signs it, through certificates
\* of the chain that may sign (verify_for_usage).
LEMMA PathSigns ==
    ASSUME NEW T, NEW chain \in Seq(T), chain # <<>>, NEW anchor,
           verify_for_usage(chain, anchor)
    PROVE  Signs(chain, anchor)
<1>1. Len(chain) \in Nat /\ DOMAIN chain = 1 .. Len(chain) /\ Head(chain) = chain[1]
  OBVIOUS
<1>2. PICK n \in 1 .. Len(chain) : \E path \in [1 .. n -> 1 .. Len(chain)] :
          /\ path[1] = 1
          /\ chain[path[n]].signer = anchor
          /\ \A i \in 2 .. n : chain[path[i]].ca /\ chain[path[i]].key = chain[path[i - 1]].signer
  BY DEF verify_for_usage
<1>3. PICK path \in [1 .. n -> 1 .. Len(chain)] :
          /\ path[1] = 1
          /\ chain[path[n]].signer = anchor
          /\ \A i \in 2 .. n : chain[path[i]].ca /\ chain[path[i]].key = chain[path[i - 1]].signer
  BY <1>2
<1>4. ASSUME NEW set, SignedUnder(chain, set)
      PROVE  anchor \in set
  <2> DEFINE bad == {i \in 1 .. n : chain[path[i]].signer \notin set}
  <2>1. SUFFICES ASSUME bad # {} PROVE FALSE
    BY <1>1, <1>3
  <2>2. PICK i \in bad : \A j \in bad : i <= j
    <3>1. bad \in SUBSET Nat
      BY <1>1
    <3> HIDE DEF bad
    <3> QED BY <2>1, <3>1, LeastNat
  <2>3. i # 1
    BY <1>3, <1>4 DEF SignedUnder
  <2>4. i \in 2 .. n /\ i - 1 \in 1 .. n
    BY <2>3, <1>1
  <2>5. i - 1 \notin bad
    BY <2>2, <2>4
  <2>6. chain[path[i]].ca /\ chain[path[i]].key \in set
    BY <1>3, <2>4, <2>5
  <2> QED BY <1>1, <1>3, <1>4, <2>4, <2>6 DEF SignedUnder
<1>5. ~chain[1].ca
  BY <1>1 DEF verify_for_usage
<1> QED BY <1>4, <1>5 DEF Signs

\* The octets behind the names that the verifier compares.
LEMMA Octets ==
    ASSUME NEW r
    PROVE  /\ usage(r) = "DaneEe" <=> r.usage = 3
           /\ usage(r) = "DaneTa" <=> r.usage = 2
           /\ selector(r) # "Other" => r.selector \in 0..1
           /\ selector(r) = "Full" <=> r.selector = 0
           /\ matching(r) = "Full" <=> r.matching = 0
           /\ matching(r) = "Sha256" <=> r.matching = 1
           /\ matching(r) = "Sha512" <=> r.matching = 2
<1>1. r.usage \in 0..3 <=> r.usage \in {0, 1, 2, 3}
  OBVIOUS
<1>2. r.selector \in 0..1 <=> r.selector \in {0, 1}
  OBVIOUS
<1>3. r.matching \in 0..2 <=> r.matching \in {0, 1, 2}
  OBVIOUS
<1>4. /\ usage(r) = "DaneEe" <=> r.usage = 3
      /\ usage(r) = "DaneTa" <=> r.usage = 2
  BY <1>1 DEF usage
<1>5. /\ selector(r) # "Other" => r.selector \in 0..1
      /\ selector(r) = "Full" <=> r.selector = 0
  BY <1>2 DEF selector
<1>6. /\ matching(r) = "Full" <=> r.matching = 0
      /\ matching(r) = "Sha256" <=> r.matching = 1
      /\ matching(r) = "Sha512" <=> r.matching = 2
  BY <1>3 DEF matching
<1> QED BY <1>4, <1>5, <1>6

\* A certificate that matches a record is one that the record names.
LEMMA MatchNames ==
    ASSUME NEW r, NEW cert, cert_matches(r, cert)
    PROVE  r.selector \in 0..1 /\ r.matching \in 0..2 /\ Names(r, cert)
<1> DEFINE content == IF r.selector = 0 THEN Full(cert) ELSE Spki(cert)
<1>1. selected_content(selector(r), cert) = content
  BY Octets DEF selected_content
<1>2. r.selector \in 0..1 /\ matches_association(matching(r), content, r.data)
  BY <1>1, Octets DEF cert_matches
<1> HIDE DEF content
<1>3. \/ r.matching = 0 /\ r.data = content
      \/ r.matching = 1 /\ r.data = Sha256(content)
      \/ r.matching = 2 /\ r.data = Sha512(content)
  BY <1>2, Octets DEF matches_association
<1>4. r.data = CASE r.matching = 0 -> content [] r.matching = 1 -> Sha256(content)
                 [] r.matching = 2 -> Sha512(content)
  BY <1>3
<1> QED BY <1>2, <1>3, <1>4 DEF Names, content

\* What the DANE verifier accepts, a usable record vouches for: the end-entity
\* certificate or key that it names, or an anchor of the chain that it names and
\* under which the exchange's certificate is signed (verify_server_cert).
THEOREM DaneVerifierSound ==
    ASSUME NEW records, NEW T, NEW chain \in Seq(T), chain # <<>>, NEW host,
           dane_verify(records, chain, host)
    PROVE  Vouched(records, chain, host)
<1>1. Head(chain) = chain[1]
  OBVIOUS
<1>2. PICK r \in records : CASE usage(r) = "DaneEe" -> cert_matches(r, Head(chain))
                             [] usage(r) = "DaneTa" -> matches_dane_ta(r, chain, host)
                             [] OTHER -> FALSE
  BY DEF dane_verify
<1>3. CASE usage(r) = "DaneEe"
  <2>1. r.usage = 3 /\ cert_matches(r, chain[1])
    BY <1>1, <1>2, <1>3, Octets
  <2>2. r.selector \in 0..1 /\ r.matching \in 0..2 /\ Names(r, chain[1])
    BY <2>1, MatchNames
  <2> QED BY <2>1, <2>2 DEF Vouched
<1>4. CASE usage(r) = "DaneTa"
  <2>1. r.usage = 2 /\ matches_dane_ta(r, chain, host)
    BY <1>2, <1>4, Octets
  <2> DEFINE named == {i \in DOMAIN chain : cert_matches(r, chain[i])}
  <2>2. /\ named # {}
        /\ verify_for_usage(chain, chain[Min(named)].key)
        /\ chain[1].name = host
    BY <1>1, <2>1 DEF matches_dane_ta
  <2>3. Min(named) \in named
    <3>1. named \in SUBSET Nat
      OBVIOUS
    <3> HIDE DEF named
    <3>2. \E n \in named : \A m \in named : n <= m
      BY <2>2, <3>1, LeastNat
    <3> QED BY <3>2 DEF Min
  <2>4. Min(named) \in DOMAIN chain /\ cert_matches(r, chain[Min(named)])
    BY <2>3
  <2> HIDE DEF named
  <2>5. Signs(chain, chain[Min(named)].key)
    BY <2>2, PathSigns
  <2>6. r.selector \in 0..1 /\ r.matching \in 0..2 /\ Names(r, chain[Min(named)])
    BY <2>4, MatchNames
  <2> QED BY <2>1, <2>2, <2>4, <2>5, <2>6 DEF Vouched
<1> QED BY <1>2, <1>3, <1>4

\* What the PKIX verifier accepts, a trust anchor signs, for this exchange
\* (pkix_client).
LEMMA PkixVerifierSound ==
    ASSUME NEW T, NEW chain \in Seq(T), chain # <<>>, NEW host, pkix_verify(Roots, chain, host)
    PROVE  chain[1].name = host /\ \E root \in Roots : Signs(chain, root)
BY PathSigns DEF pkix_verify

\* So an encrypted connection proves what the posture demands: the peer presents
\* a chain that its verifier accepts and signs with the key of it.
LEMMA HandshakeProves ==
    ASSUME NEW chain \in Chains, NEW keys, Verified(chain), verify_signature(chain, keys)
    PROVE  /\ posture = "dane" => "dane" \in Proved(tlsa, chain, keys, mx)
           /\ posture = "pkix" => "pkix" \in Proved(tlsa, chain, keys, mx)
<1>1. chain \in Seq(Range(chain)) /\ chain # <<>>
  BY RelayAssumption
<1>2. chain[1].key \in keys
  BY <1>1 DEF verify_signature
<1>3. ASSUME posture = "dane" PROVE Vouched(tlsa, chain, mx)
  <2>1. dane_verify(tlsa, chain, mx)
    BY <1>3 DEF Verified
  <2> QED BY <1>1, <2>1, DaneVerifierSound
<1>4. ASSUME posture = "pkix" PROVE chain[1].name = mx /\ \E root \in Roots : Signs(chain, root)
  <2>1. pkix_verify(Roots, chain, mx)
    BY <1>4 DEF Verified
  <2> QED BY <1>1, <2>1, PkixVerifierSound
<1> QED BY <1>2, <1>3, <1>4 DEF Proved
-----------------------------------------------------------------------------
(* The resolver's answers *)

MxRecords == [preference : Prefs, exchange : Exchanges]

\* Every MX record of a reply has a preference and an exchange (lookup_mx,
\* secure_mx); whatever they are, sorting gives each exchange one preference.
LEMMA MxReplies ==
    ASSUME NEW reply \in Replied(Aliased(MxSets))
    PROVE  /\ secure_mx(reply) \subseteq MxRecords
           /\ lookup_mx(reply) # Failed => lookup_mx(reply) \subseteq MxRecords
<1>1. ASSUME NEW r \in reply.records, r.type = "MX"
      PROVE  r.data \in MxRecords
  <2>1. reply.records \in Aliased(MxSets)
    BY <1>1 DEF Replied
  <2>2. PICK set \in MxSets : reply.records \in {set, set \cup {Alias}}
    BY <2>1 DEF Aliased
  <2>3. r \in set
    BY <1>1, <2>2 DEF Alias
  <2>4. PICK es \in SUBSET Exchanges : \E p \in [es -> Prefs], proof \in [es -> Proofs] :
            set = {[type |-> "MX", proof |-> proof[e],
                    data |-> [preference |-> p[e], exchange |-> e]] : e \in es}
    BY <2>2 DEF MxSets
  <2>5. PICK p \in [es -> Prefs], proof \in [es -> Proofs] :
            set = {[type |-> "MX", proof |-> proof[e],
                    data |-> [preference |-> p[e], exchange |-> e]] : e \in es}
    BY <2>4
  <2>6. PICK e \in es : r.data = [preference |-> p[e], exchange |-> e]
    BY <2>3, <2>5
  <2> QED BY <2>6 DEF MxRecords
<1>2. secure_mx(reply) \subseteq MxRecords
  BY <1>1 DEF secure_mx, secure_answers, OfType, Values
<1>3. ASSUME lookup_mx(reply) # Failed
      PROVE  lookup_mx(reply) = Values(OfType(reply.records, "MX"))
  BY <1>3 DEF lookup_mx, answers
<1> QED BY <1>1, <1>2, <1>3 DEF OfType, Values

\* Sorting the records gives every exchange of a reply one preference.
LEMMA SortedType ==
    ASSUME NEW mxs \in SUBSET MxRecords
    PROVE  /\ \E set \in SUBSET Exchanges : Sorted(mxs) \in [set -> Prefs]
           /\ mxs # {} => DOMAIN Sorted(mxs) # {}
<1> DEFINE set == {r.exchange : r \in mxs}
<1>1. set \in SUBSET Exchanges
  BY DEF MxRecords
<1>2. ASSUME NEW e \in set
      PROVE  (CHOOSE r \in mxs : r.exchange = e).preference \in Prefs
  <2>1. \E r \in mxs : r.exchange = e
    BY <1>2
  <2> QED BY <2>1 DEF MxRecords
<1>3. Sorted(mxs) \in [set -> Prefs]
  BY <1>2 DEF Sorted
<1> QED BY <1>1, <1>3

\* A TLSA RRset is taken whole when all of it is validated, or not at all.
LEMMA TlsaReplies ==
    ASSUME NEW reply \in Replied(Aliased(TlsaSets))
    PROVE  secure_tlsa(reply) \in RRsets
<1>0. {} \in RRsets
  BY RelayAssumption
<1>1. CASE reply.status # "ok"
  <2>1. reply.records = {}
    BY <1>1 DEF Replied
  <2>2. secure_tlsa(reply) = {}
    BY <2>1 DEF secure_tlsa, secure_answers, OfType, Values
  <2> QED BY <1>0, <2>2
<1>2. CASE reply.status = "ok"
  <2>1. PICK set \in TlsaSets : reply.records \in {set, set \cup {Alias}}
    BY <1>2 DEF Replied, Aliased
  <2>2. PICK rrset \in RRsets : \E proof \in [rrset -> Proofs] :
            set = {[type |-> "TLSA", proof |-> proof[r], data |-> r] : r \in rrset}
    BY <2>1 DEF TlsaSets
  <2>3. OfType(reply.records, "TLSA") = set
    BY <2>1, <2>2 DEF OfType, Alias
  <2>4. CASE \A q \in set : q.proof = "secure"
    <3>1. secure_tlsa(reply) = Values(set)
      BY <2>3, <2>4 DEF secure_tlsa, secure_answers, Values
    <3>2. PICK proof \in [rrset -> Proofs] :
              set = {[type |-> "TLSA", proof |-> proof[r], data |-> r] : r \in rrset}
      BY <2>2
    <3>3. ASSUME NEW r \in rrset PROVE \E q \in set : q.data = r
      <4>1. [type |-> "TLSA", proof |-> proof[r], data |-> r] \in set
        BY <3>2
      <4> QED BY <4>1
    <3>4. \A q \in set : q.data \in rrset
      BY <3>2
    <3>5. Values(set) = rrset
      BY <3>3, <3>4 DEF Values
    <3> QED BY <3>1, <3>5
  <2>5. CASE ~\A q \in set : q.proof = "secure"
    <3>1. secure_tlsa(reply) = {}
      BY <2>3, <2>5 DEF secure_tlsa, secure_answers, Values
    <3> QED BY <1>0, <3>1
  <2> QED BY <2>4, <2>5
<1> QED BY <1>1, <1>2

\* resolve_exchange() gives at least one address, within the bound.
LEMMA AddressReplies ==
    ASSUME NEW reply \in Replied(AddressSets), lookup_ip(reply) \notin {Failed, {}}
    PROVE  Cardinality(lookup_ip(reply)) \in 1 .. MaxAddrs
<1> USE RelayAssumption
<1>1. reply.status # "failed" /\ lookup_ip(reply) = Values(OfType(reply.records, "A"))
  BY DEF lookup_ip
<1>2. reply.status = "ok" /\ reply.records \in AddressSets
  <2>1. reply.records # {}
    BY <1>1 DEF OfType, Values
  <2> QED BY <2>1 DEF Replied
<1>3. PICK n \in 0 .. MaxAddrs :
          reply.records = {[type |-> "A", proof |-> "insecure", data |-> [ip |-> i]] : i \in 1 .. n}
  BY <1>2 DEF AddressSets
<1> DEFINE ips == {[ip |-> i] : i \in 1 .. n}
           f == [i \in 1 .. n |-> [ip |-> i]]
<1>4. lookup_ip(reply) = ips
  <2>1. OfType(reply.records, "A") = reply.records
    BY <1>3 DEF OfType
  <2>2. \A r \in reply.records : r.data \in ips
    BY <1>3
  <2>3. ASSUME NEW a \in ips PROVE \E r \in reply.records : r.data = a
    <3>1. PICK i \in 1 .. n : a = [ip |-> i]
      OBVIOUS
    <3>2. [type |-> "A", proof |-> "insecure", data |-> [ip |-> i]] \in reply.records
      BY <1>3
    <3> QED BY <3>1, <3>2
  <2> HIDE DEF ips
  <2> QED BY <1>1, <2>1, <2>2, <2>3 DEF Values
<1>5. f \in Surjection(1 .. n, ips)
  BY DEF Surjection
<1>6. IsFiniteSet(1 .. n) /\ Cardinality(1 .. n) = n
  BY FS_Interval
<1> HIDE DEF ips, f
<1>7. IsFiniteSet(ips) /\ Cardinality(ips) <= n
  BY <1>5, <1>6, FS_Surjection
<1>8. Cardinality(ips) \in Nat /\ Cardinality(ips) # 0
  BY <1>4, <1>7, FS_CardinalityType, FS_EmptySet
<1> QED BY <1>4, <1>7, <1>8
-----------------------------------------------------------------------------
(* The inductive invariant *)

PeerOK ==
    /\ addrs \in 0..MaxAddrs
    /\ offered \in BOOLEAN
    /\ chan \in Channels
    /\ proved \subseteq {"dane", "pkix"}
    /\ rcptLeft \in 0..MaxRcpts
    /\ copies \in Nat
    /\ lost \in Nat

\* What a step leaves alone once the posture of mx is known.
SameTarget == UNCHANGED <<asked, found, mx, tlsa, posture>>

\* The dialog with one address is over: on to the next address or exchange, or
\* back to the caller.
Leaves(end) ==
    \/ addrs' > 0 /\ Goto("connect") /\ UNCHANGED outcome
    \/ Goto("next") /\ outcome' = [outcome EXCEPT ![mx] = end]
    \/ Return("failed", "refused") /\ UNCHANGED outcome
    \/ Return("delivered", "accepted") /\ UNCHANGED outcome

\* The dialog with an address ends: the call goes on elsewhere, or returns.
LEMMA LeavesInd ==
    ASSUME RelayInd, pc \in Settled, SameTarget, PeerOK',
           NEW end \in {"exhausted", "noaddr"}, Leaves(end)
    PROVE  RelayInd'
<1> USE DEF RelayInd, SameTarget, asked, found
<1>1. pc \notin Looking /\ pc \in Trying /\ pc # "done" /\ report = "pending"
  BY DEF Looking, Trying, Settled, Dialog, Progress
<1>2. mx \in Exchanges /\ outcome \in [Exchanges -> {"untried", "skipped", "noaddr", "current", "exhausted"}]
  BY DEF TypeOK
<1>3. outcome[mx] = "current" /\ mx \in DOMAIN pref
  BY <1>1 DEF InTurn
<1>4. /\ outcome' = outcome \/ (pc' = "next" /\ outcome' = [outcome EXCEPT ![mx] = end])
      /\ pc' \in {"connect", "next", "done"}
      /\ pc' = "connect" => addrs' > 0 /\ outcome' = outcome
      /\ pc' = "next" => outcome' = [outcome EXCEPT ![mx] = end]
      /\ pc' # "done" => report' = report /\ cause' = cause
      /\ pc' = "done" => /\ outcome' = outcome
                         /\ \/ report' = "failed" /\ cause' = "refused"
                            \/ report' = "delivered" /\ cause' = "accepted"
  BY DEF Leaves, Goto, Return
<1>5. TypeOK'
  BY <1>2, <1>4 DEF TypeOK, PeerOK, Dialog
<1>6. InTurn'
  BY <1>1, <1>4 DEF InTurn, Trying, Settled, Dialog
<1>7. OneCurrent'
  BY <1>1, <1>2, <1>4 DEF OneCurrent, Trying, Settled
<1>8. SkippedForCause'
  BY <1>1, <1>2, <1>4 DEF SkippedForCause, Looking
<1>9. Progress'
  BY <1>1, <1>4 DEF Progress
<1>10. DeferredAfterAll'
  BY <1>1, <1>4 DEF DeferredAfterAll
<1>11. FailedForCause'
  BY <1>1, <1>3, <1>4 DEF FailedForCause
<1>12. PostureRight'
  BY <1>1, <1>4 DEF PostureRight, Settled, Dialog, Fallback
<1>13. ChannelRight'
  BY <1>1, <1>4 DEF ChannelRight, Dialog, Transaction
<1> QED BY <1>5, <1>6, <1>7, <1>8, <1>9, <1>10, <1>11, <1>12, <1>13

\* The dialog goes on.
LEMMA StaysInd ==
    ASSUME RelayInd, pc \in Settled, SameTarget, PeerOK',
           NEW label \in Dialog, Goto(label), UNCHANGED outcome, ChannelRight'
    PROVE  RelayInd'
<1> USE DEF RelayInd, SameTarget, asked, found, Goto
<1>1. pc \notin Looking /\ pc \in Trying /\ pc # "done" /\ report = "pending"
  BY DEF Looking, Trying, Settled, Dialog, Progress
<1>2. pc' \notin Looking /\ pc' \in Trying /\ pc' # "done" /\ pc' # "connect" /\ pc' \in Settled
  BY DEF Looking, Trying, Settled, Dialog
<1>3. TypeOK'
  BY <1>2 DEF TypeOK, PeerOK
<1>4. InTurn' /\ OneCurrent' /\ SkippedForCause' /\ Progress'
  BY <1>1, <1>2 DEF InTurn, OneCurrent, SkippedForCause, Progress, Looking
<1>5. DeferredAfterAll' /\ FailedForCause'
  BY <1>1 DEF DeferredAfterAll, FailedForCause
<1>6. PostureRight'
  BY <1>1, <1>2 DEF PostureRight, Fallback
<1> QED BY <1>3, <1>4, <1>5, <1>6

\* classify() and the errors relay() treats like it.
LEMMA NextAddressLeaves ==
    ASSUME NextAddress(addrs') PROVE Leaves("exhausted")
BY DEF NextAddress, Leaves

\* A reply that classify() judges ends the dialog.
LEMMA ClassifyLeaves ==
    ASSUME NEW reply, Classify(reply), UNCHANGED addrs PROVE Leaves("exhausted")
BY NextAddressLeaves DEF Classify, Leaves, NextAddress

\* A command is answered: the dialog goes on, or ends.
LEMMA CommandStep ==
    ASSUME RelayInd, pc \in Dialog, SameTarget, PeerOK', UNCHANGED addrs,
           NEW good, NEW label \in Dialog, Command(good, label),
           pc' = label => ChannelRight'
    PROVE  RelayInd'
<1>1. pc \in Settled
  BY DEF Settled
<1>2. PICK reply \in Replies : IF reply \in good
                                 THEN Goto(label) /\ UNCHANGED outcome ELSE Classify(reply)
  BY DEF Command
<1>3. CASE reply \in good
  BY <1>1, <1>2, <1>3, StaysInd DEF Goto
<1>4. CASE reply \notin good
  BY <1>1, <1>2, <1>4, ClassifyLeaves, LeavesInd
<1> QED BY <1>3, <1>4

\* The steps of relay_to().
LEMMA DialogInd ==
    ASSUME RelayInd,
           \/ Connect \/ Greeting \/ Ehlo \/ StartTls \/ Handshake \/ EhloTls
           \/ MailFrom \/ RcptTo \/ Data \/ Verdict
    PROVE  RelayInd'
<1> USE RelayAssumption
<1>0. PeerOK /\ ChannelRight /\ PostureRight /\ Progress /\ rcpts \in 0..MaxRcpts /\ posture \in Postures
  BY DEF RelayInd, TypeOK, PeerOK
<1>1. CASE Connect
  <2>1. pc = "connect" /\ pc \in Settled /\ addrs > 0
    BY <1>0, <1>1 DEF Connect, Settled, Progress
  <2>2. SameTarget /\ PeerOK'
    <3>1. SameTarget
      BY <1>1 DEF Connect, SameTarget
    <3>2. addrs' \in 0..MaxAddrs
      BY <1>0, <1>1, <2>1 DEF Connect, PeerOK
    <3> QED BY <1>0, <1>1, <3>1, <3>2 DEF Connect, PeerOK, counts, Channels
  <2>3. CASE Goto("greeting") /\ UNCHANGED outcome
    <3>1. ChannelRight'
      BY <1>1, <2>3 DEF Connect, Goto, ChannelRight, Transaction
    <3> QED BY <2>1, <2>2, <2>3, <3>1, StaysInd DEF Dialog
  <2>4. CASE NextAddress(addrs - 1)
    <3>1. NextAddress(addrs')
      BY <1>1, <2>4 DEF Connect
    <3> QED BY <2>1, <2>2, <3>1, NextAddressLeaves, LeavesInd
  <2> QED BY <1>1, <2>3, <2>4 DEF Connect
<1>2. CASE Greeting
  <2>1. pc \in Dialog /\ SameTarget /\ PeerOK' /\ UNCHANGED addrs
    BY <1>0, <1>2 DEF Greeting, Dialog, SameTarget, PeerOK, target, peer, counts
  <2>2. pc' = "ehlo" => ChannelRight'
    BY <1>0, <1>2 DEF Greeting, ChannelRight, peer, target, Transaction, Dialog
  <2> QED BY <1>2, <2>1, <2>2, CommandStep DEF Greeting, Dialog
<1>3. CASE Ehlo
  <2>1. pc = "ehlo" /\ pc \in Settled /\ SameTarget /\ PeerOK' /\ UNCHANGED addrs
    <3>1. offered' \in BOOLEAN
      <4>1. offered' = offered \/ \E caps \in SUBSET Capabilities : offered' = advertises_starttls(caps)
        BY <1>3 DEF Ehlo
      <4>2. \A caps : advertises_starttls(caps) \in BOOLEAN
        BY DEF advertises_starttls
      <4>3. offered \in BOOLEAN
        BY <1>0 DEF PeerOK
      <4> QED BY <4>1, <4>2, <4>3
    <3> QED BY <1>0, <1>3, <3>1 DEF Ehlo, Settled, Dialog, SameTarget, PeerOK, target, counts
  <2>2. CASE \E reply \in Replies \ {"2xx"} : Classify(reply)
    BY <2>1, <2>2, ClassifyLeaves, LeavesInd
  <2>3. CASE is_mandatory(posture) /\ ~offered' /\ NextAddress(addrs)
    BY <2>1, <2>3, NextAddressLeaves, LeavesInd
  <2>4. CASE /\ ~(is_mandatory(posture) /\ ~offered')
             /\ Goto(IF has_config(posture) /\ offered' THEN "starttls" ELSE "mail")
             /\ UNCHANGED outcome
    <3>1. ChannelRight'
      BY <1>0, <1>3, <2>1, <2>4 DEF Ehlo, Goto, ChannelRight, Transaction, Dialog, target,
           is_mandatory, has_config
    <3> QED BY <2>1, <2>4, <3>1, StaysInd DEF Dialog
  <2> QED BY <1>3, <2>2, <2>3, <2>4 DEF Ehlo
<1>4. CASE StartTls
  <2>1. pc = "starttls" /\ pc \in Settled /\ SameTarget /\ PeerOK' /\ UNCHANGED addrs
    BY <1>0, <1>4 DEF StartTls, Settled, Dialog, SameTarget, PeerOK, target, peer, counts
  <2>2. CASE Goto("handshake") /\ UNCHANGED outcome
    <3>1. ChannelRight'
      BY <1>0, <1>4, <2>1, <2>2 DEF StartTls, Goto, ChannelRight, Transaction, Dialog, target, peer
    <3> QED BY <2>1, <2>2, <3>1, StaysInd DEF Dialog
  <2>3. CASE NextAddress(addrs)
    BY <2>1, <2>3, NextAddressLeaves, LeavesInd
  <2> QED BY <1>4, <2>2, <2>3 DEF StartTls
<1>5. CASE Handshake
  <2>1. pc = "handshake" /\ pc \in Settled /\ SameTarget /\ UNCHANGED <<addrs, offered, rcptLeft, counts>>
    BY <1>0, <1>5 DEF Handshake, Settled, Dialog, SameTarget, target
  <2>2. CASE NextAddress(addrs) /\ UNCHANGED <<chan, proved>>
    <3>1. PeerOK'
      BY <1>0, <2>1, <2>2 DEF PeerOK, counts
    <3> QED BY <2>1, <2>2, <3>1, NextAddressLeaves, LeavesInd
  <2>3. CASE /\ \E chain \in Chains, keys \in SUBSET {chain[1].key : chain \in Chains} :
                  /\ Verified(chain)
                  /\ verify_signature(chain, keys)
                  /\ proved' = Proved(tlsa, chain, keys, mx)
             /\ chan' = "tls"
             /\ Goto("ehloTls")
             /\ UNCHANGED outcome
    <3>1. PICK chain \in Chains, keys \in SUBSET {chain[1].key : chain \in Chains} :
              /\ Verified(chain)
              /\ verify_signature(chain, keys)
              /\ proved' = Proved(tlsa, chain, keys, mx)
      BY <2>3
    <3>2. /\ posture = "dane" => "dane" \in proved'
          /\ posture = "pkix" => "pkix" \in proved'
      BY <3>1, HandshakeProves
    <3>3. PeerOK'
      BY <1>0, <2>1, <2>3, <3>1 DEF PeerOK, counts, Channels, Proved
    <3>4. ChannelRight'
      BY <2>1, <2>3, <3>2 DEF Goto, ChannelRight, SameTarget, Transaction
    <3> QED BY <2>1, <2>3, <3>3, <3>4, StaysInd DEF Dialog
  <2> QED BY <1>5, <2>2, <2>3 DEF Handshake
<1>6. CASE EhloTls
  <2>1. pc \in Dialog /\ SameTarget /\ PeerOK' /\ UNCHANGED addrs
    BY <1>0, <1>6 DEF EhloTls, Dialog, SameTarget, PeerOK, target, peer, counts
  <2>2. pc' = "mail" => ChannelRight'
    BY <1>0, <1>6 DEF EhloTls, ChannelRight, peer, target, Transaction, Dialog
  <2> QED BY <1>6, <2>1, <2>2, CommandStep DEF EhloTls, Dialog
<1>7. CASE MailFrom
  <2>1. pc \in Dialog /\ SameTarget /\ PeerOK' /\ UNCHANGED addrs
    BY <1>0, <1>7 DEF MailFrom, Dialog, SameTarget, PeerOK, target, peer, counts
  <2>2. pc' = "rcpt" => ChannelRight'
    BY <1>0, <1>7 DEF MailFrom, ChannelRight, peer, target, Transaction, Dialog
  <2> QED BY <1>7, <2>1, <2>2, CommandStep DEF MailFrom, Dialog
<1>8. CASE RcptTo
  <2> DEFINE label == IF rcptLeft' > 0 THEN "rcpt" ELSE "data"
  <2>1. pc \in Dialog /\ SameTarget /\ PeerOK' /\ UNCHANGED addrs
    BY <1>0, <1>8 DEF RcptTo, Dialog, SameTarget, PeerOK, target, counts
  <2>2. pc' = label => ChannelRight'
    BY <1>0, <1>8 DEF RcptTo, ChannelRight, target, Transaction, Dialog
  <2>3. label \in Dialog /\ Command({"2xx"}, label)
    BY <1>8 DEF RcptTo, Dialog
  <2> HIDE DEF label
  <2> QED BY <2>1, <2>2, <2>3, CommandStep
<1>9. CASE Data
  <2>1. pc \in Dialog /\ SameTarget /\ PeerOK' /\ UNCHANGED addrs
    BY <1>0, <1>9 DEF Data, Dialog, SameTarget, PeerOK, target, peer, counts
  <2>2. pc' = "verdict" => ChannelRight'
    BY <1>0, <1>9 DEF Data, ChannelRight, peer, target, Transaction, Dialog
  <2> QED BY <1>9, <2>1, <2>2, CommandStep DEF Data, Dialog
<1>10. CASE Verdict
  <2>1. pc = "verdict" /\ pc \in Settled /\ SameTarget /\ PeerOK' /\ UNCHANGED addrs
    BY <1>0, <1>10 DEF Verdict, Settled, Dialog, SameTarget, PeerOK, target, peer, counts
  <2>2. Leaves("exhausted")
    BY <1>10, <2>1, ClassifyLeaves, NextAddressLeaves DEF Verdict, Leaves
  <2> QED BY <2>1, <2>2, LeavesInd
<1> QED BY <1>1, <1>2, <1>3, <1>4, <1>5, <1>6, <1>7, <1>8, <1>9, <1>10

\* The call returns before an exchange was chosen.
LEMMA ReturnInd ==
    ASSUME RelayInd, pc \in Looking \cup {"next"}, NEW result, NEW why, Return(result, why),
           \/ result = "failed" /\ why = "norcpt" /\ rcpts = 0
           \/ result = "failed" /\ why = "nullmx" /\ DOMAIN pref = {Null}
           \/ result = "deferred" /\ why = "nomx"
           \/ /\ result = "deferred" /\ why = "exhausted" /\ pc = "next"
              /\ \A e \in DOMAIN pref : outcome[e] # "untried",
           UNCHANGED <<asked, target, peer, counts, outcome>>, UNCHANGED found
    PROVE  RelayInd'
<1> USE DEF RelayInd, asked, found, target, peer, counts, Return
<1>1. TypeOK'
  BY DEF TypeOK
<1>2. InTurn' /\ PostureRight' /\ ChannelRight' /\ Progress'
  BY DEF InTurn, PostureRight, ChannelRight, Progress, Trying, Settled, Dialog, Transaction, Fallback
<1>3. OneCurrent' /\ SkippedForCause'
  BY DEF OneCurrent, SkippedForCause, Looking, Trying, Settled, Dialog
<1>4. FailedForCause'
  BY DEF FailedForCause
<1>5. DeferredAfterAll'
  <2>1. SUFFICES ASSUME result = "deferred", why = "exhausted", pc = "next",
                        \A e \in DOMAIN pref : outcome[e] # "untried"
                 PROVE  DeferredAfterAll'
    BY DEF DeferredAfterAll
  <2>2. \A e \in DOMAIN pref : e \in Exchanges /\ outcome[e] \in {"skipped", "noaddr", "exhausted"}
    BY <2>1 DEF OneCurrent, TypeOK, Trying, Settled, Dialog
  <2> QED BY <2>1, <2>2 DEF DeferredAfterAll, SkippedForCause
<1> QED BY <1>1, <1>2, <1>3, <1>4, <1>5

\* The steps of relay() before an exchange is chosen.
LEMMA LookupInd ==
    ASSUME RelayInd, Start \/ LookupMx \/ PolicyFor \/ NoMoreExchanges
    PROVE  RelayInd'
<1> USE RelayAssumption
<1>1. ASSUME UNCHANGED <<asked, policy, target, peer, counts, outcome>>,
             pc \in {"start", "mx"}, NEW label \in {"mx", "policy"}, Goto(label),
             \E set \in SUBSET Exchanges : pref' \in [set -> Prefs],
             daneActive' \in BOOLEAN,
             label = "policy" => DOMAIN pref' # {}
      PROVE  RelayInd'
  <2> USE <1>1 DEF RelayInd, asked, target, peer, counts, Goto
  <2>1. /\ report = "pending" /\ policy = NoPolicy /\ \A e \in Exchanges : outcome[e] = "untried"
        /\ pc' \in {"mx", "policy"}
    BY DEF Progress, SkippedForCause, Looking
  <2>2. TypeOK'
    BY DEF TypeOK
  <2>3. InTurn' /\ PostureRight' /\ ChannelRight' /\ Progress'
    BY <2>1 DEF InTurn, PostureRight, ChannelRight, Progress, Trying, Settled, Dialog, Transaction
  <2>4. OneCurrent' /\ SkippedForCause'
    BY <2>1 DEF OneCurrent, SkippedForCause, Looking
  <2>5. DeferredAfterAll' /\ FailedForCause'
    BY <2>1 DEF DeferredAfterAll, FailedForCause
  <2> QED BY <2>2, <2>3, <2>4, <2>5
<1>2. CASE Start
  <2>1. pc = "start" /\ UNCHANGED <<asked, policy, target, peer, counts, outcome>>
    BY <1>2 DEF Start
  <2>2. CASE rcpts = 0
    BY <1>2, <2>1, <2>2, ReturnInd DEF Start, Looking, found
  <2>3. CASE rcpts # 0
    <3>1. PICK reply \in Replied(Aliased(MxSets)) :
              LET mxs == IF config.dane THEN secure_mx(reply) ELSE {}
              IN /\ daneActive' = (mxs # {})
                 /\ pref' = Sorted(mxs)
                 /\ Goto(IF daneActive' THEN "policy" ELSE "mx")
      BY <1>2, <2>3 DEF Start
    <3> DEFINE mxs == IF config.dane THEN secure_mx(reply) ELSE {}
               label == IF daneActive' THEN "policy" ELSE "mx"
    <3>2. daneActive' = (mxs # {}) /\ pref' = Sorted(mxs) /\ Goto(label)
      BY <3>1
    <3>3. mxs \in SUBSET MxRecords
      BY MxReplies
    <3> HIDE DEF mxs
    <3>4. daneActive' \in BOOLEAN /\ label \in {"mx", "policy"} /\ (label = "policy" => mxs # {})
      BY <3>2
    <3>5. /\ \E set \in SUBSET Exchanges : pref' \in [set -> Prefs]
          /\ mxs # {} => DOMAIN pref' # {}
      BY <3>2, <3>3, SortedType
    <3> HIDE DEF label
    <3> QED BY <1>1, <2>1, <3>2, <3>4, <3>5
  <2> QED BY <2>2, <2>3
<1>3. CASE LookupMx
  <2>1. pc = "mx" /\ UNCHANGED <<asked, policy, target, peer, counts, outcome>> /\ UNCHANGED daneActive
    BY <1>3 DEF LookupMx
  <2>2. PICK reply \in Replied(Aliased(MxSets)) :
            CASE lookup_mx(reply) = Failed -> Return("deferred", "nomx") /\ UNCHANGED pref
              [] lookup_mx(reply) = {} -> pref' = [e \in {Domain} |-> 0] /\ Goto("policy")
              [] OTHER -> pref' = Sorted(lookup_mx(reply)) /\ Goto("policy")
    BY <1>3 DEF LookupMx
  <2>3. \/ Return("deferred", "nomx") /\ UNCHANGED pref
        \/ pref' = [e \in {Domain} |-> 0] /\ Goto("policy")
        \/ /\ lookup_mx(reply) # Failed /\ lookup_mx(reply) # {}
           /\ pref' = Sorted(lookup_mx(reply)) /\ Goto("policy")
    BY <2>2, Zenon
  <2>4. CASE Return("deferred", "nomx") /\ UNCHANGED pref
    BY <2>1, <2>4, ReturnInd DEF Looking, found
  <2>5. CASE pref' = [e \in {Domain} |-> 0] /\ Goto("policy")
    <3>1. {Domain} \in SUBSET Exchanges /\ pref' \in [{Domain} -> Prefs] /\ DOMAIN pref' # {}
      BY <2>5 DEF Exchanges
    <3>2. daneActive' \in BOOLEAN
      BY <2>1 DEF RelayInd, TypeOK
    <3> QED BY <1>1, <2>1, <2>5, <3>1, <3>2
  <2>6. CASE /\ lookup_mx(reply) # Failed /\ lookup_mx(reply) # {}
             /\ pref' = Sorted(lookup_mx(reply)) /\ Goto("policy")
    <3>1. lookup_mx(reply) \in SUBSET MxRecords
      BY <2>6, MxReplies
    <3>2. (\E set \in SUBSET Exchanges : pref' \in [set -> Prefs]) /\ DOMAIN pref' # {}
      BY <2>6, <3>1, SortedType
    <3>3. daneActive' \in BOOLEAN
      BY <2>1 DEF RelayInd, TypeOK
    <3> QED BY <1>1, <2>1, <2>6, <3>2, <3>3
  <2> QED BY <2>3, <2>4, <2>5, <2>6
<1>4. CASE PolicyFor
  <2>1. pc = "policy" /\ UNCHANGED <<asked, daneActive, pref, target, peer, counts, outcome>>
    BY <1>4 DEF PolicyFor
  <2>2. CASE \A e \in DOMAIN pref : is_null(e)
    <3>1. DOMAIN pref = {Null}
      BY <2>1, <2>2 DEF RelayInd, SkippedForCause, is_null
    <3> QED BY <1>4, <2>1, <2>2, <3>1, ReturnInd DEF PolicyFor, Looking, found
  <2>3. CASE ~\A e \in DOMAIN pref : is_null(e)
    <3> USE DEF RelayInd, asked, target, peer, counts, Goto
    <3>1. /\ policy' \in Policies /\ (daneActive => policy' = policy) /\ Goto("next")
          /\ report = "pending" /\ policy = NoPolicy /\ \A e \in Exchanges : outcome[e] = "untried"
      BY <1>4, <2>1, <2>3 DEF PolicyFor, TypeOK, Progress, SkippedForCause, Looking
    <3>2. TypeOK'
      BY <2>1, <3>1 DEF TypeOK
    <3>3. InTurn' /\ PostureRight' /\ ChannelRight' /\ Progress'
      BY <2>1, <3>1 DEF InTurn, PostureRight, ChannelRight, Progress, Trying, Settled, Dialog, Transaction
    <3>4. OneCurrent' /\ SkippedForCause'
      BY <2>1, <3>1 DEF OneCurrent, SkippedForCause, Looking
    <3>5. DeferredAfterAll' /\ FailedForCause'
      BY <2>1, <3>1 DEF DeferredAfterAll, FailedForCause
    <3> QED BY <3>2, <3>3, <3>4, <3>5
  <2> QED BY <2>2, <2>3
<1>5. CASE NoMoreExchanges
  BY <1>5, ReturnInd DEF NoMoreExchanges
<1> QED BY <1>2, <1>3, <1>4, <1>5

\* The choice of an exchange, its posture and its addresses.
LEMMA ExchangeInd ==
    ASSUME RelayInd, NextExchange \/ DanePosture \/ StsPosture \/ ResolveExchange
    PROVE  RelayInd'
<1> USE RelayAssumption
<1>0. /\ mx \in Exchanges
      /\ outcome \in [Exchanges -> {"untried", "skipped", "noaddr", "current", "exhausted"}]
      /\ \A e \in DOMAIN pref : e \in Exchanges
  BY DEF RelayInd, TypeOK
<1>1. CASE NextExchange
  <2> USE DEF RelayInd, asked, found, peer, counts, Goto
  <2>1. PICK e \in DOMAIN pref :
            /\ Best(e)
            /\ mx' = e
            /\ outcome' = [outcome EXCEPT ![e] = IF is_null(e) THEN "skipped" ELSE "current"]
            /\ Goto(IF is_null(e) THEN "next" ELSE "posture")
    BY <1>1 DEF NextExchange
  <2>2. /\ pc = "next" /\ report = "pending" /\ UNCHANGED <<report, cause>>
        /\ pc' = IF e = Null THEN "next" ELSE "posture"
        /\ outcome' = [outcome EXCEPT ![e] = IF e = Null THEN "skipped" ELSE "current"]
        /\ \A f \in Exchanges : outcome[f] # "current"
        /\ UNCHANGED <<asked, found, tlsa, posture, addrs, peer, counts>>
    BY <1>1, <2>1 DEF NextExchange, is_null, Progress, OneCurrent, Trying, Settled, Dialog
  <2>3. TypeOK'
    BY <1>0, <2>1, <2>2 DEF TypeOK
  <2>4. InTurn'
    BY <1>0, <2>1, <2>2 DEF InTurn, Best, Trying, Settled, Dialog
  <2>5. OneCurrent'
    BY <1>0, <2>1, <2>2 DEF OneCurrent, Trying
  <2>6. SkippedForCause'
    BY <1>0, <2>1, <2>2 DEF SkippedForCause, Looking
  <2>7. Progress' /\ DeferredAfterAll' /\ FailedForCause'
    BY <2>2 DEF Progress, DeferredAfterAll, FailedForCause
  <2>8. PostureRight' /\ ChannelRight'
    BY <2>2 DEF PostureRight, ChannelRight, Settled, Dialog, Transaction
  <2> QED BY <2>3, <2>4, <2>5, <2>6, <2>7, <2>8
<1>2. CASE DanePosture \/ StsPosture
  <2> USE DEF RelayInd, asked, found, peer, counts
  <2>1. /\ pc = "posture" /\ pc \in Trying /\ report = "pending"
        /\ outcome[mx] = "current" /\ mx \in DOMAIN pref
        /\ UNCHANGED <<asked, found, mx, addrs, peer, counts>>
    BY <1>2 DEF DanePosture, StsPosture, Trying, InTurn, Progress
  <2>2. tlsa' \in RRsets
    BY <1>2, TlsaReplies DEF DanePosture, StsPosture
  <2>3. CASE Goto("resolve") /\ UNCHANGED outcome
    <3>1. /\ posture' \in Postures
          /\ IF daneActive
               THEN posture' = IF has_usable_tlsa(tlsa') THEN "dane" ELSE Fallback
               ELSE /\ tlsa' = {}
                    /\ posture' = IF policy.mode = "enforce" THEN "pkix" ELSE Fallback
                    /\ policy.mode = "enforce" => mx \in policy.allows
      BY <1>2, <2>1, <2>3 DEF DanePosture, StsPosture, dane_tls_policy, Fallback, Postures, Goto
    <3>2. /\ pc' = "resolve" /\ UNCHANGED <<report, cause, outcome>>
          /\ pc' \in Trying /\ pc' \in Settled /\ pc' \notin Looking
      BY <2>3 DEF Goto, Trying, Settled, Looking
    <3>3. TypeOK'
      BY <2>1, <2>2, <3>1, <3>2 DEF TypeOK
    <3>4. InTurn' /\ OneCurrent' /\ SkippedForCause' /\ Progress'
      BY <2>1, <3>2 DEF InTurn, OneCurrent, SkippedForCause, Progress
    <3>5. DeferredAfterAll' /\ FailedForCause'
      BY <2>1, <3>2 DEF DeferredAfterAll, FailedForCause
    <3>6. PostureRight'
      BY <2>1, <3>1, <3>2 DEF PostureRight, Fallback
    <3>7. ChannelRight'
      BY <3>2 DEF ChannelRight, Dialog, Transaction
    <3> QED BY <3>3, <3>4, <3>5, <3>6, <3>7
  <2>4. CASE /\ StsPosture /\ policy.mode = "enforce" /\ mx \notin policy.allows
             /\ outcome' = [outcome EXCEPT ![mx] = "skipped"]
             /\ Goto("next")
             /\ UNCHANGED posture
    <3>1. /\ pc' = "next" /\ UNCHANGED <<report, cause, posture>>
          /\ pc' \notin Trying /\ pc' \notin Settled /\ pc' \notin Looking
      BY <2>4 DEF Goto, Trying, Settled, Looking, Dialog
    <3>2. TypeOK'
      BY <1>0, <2>1, <2>2, <2>4, <3>1 DEF TypeOK
    <3>3. InTurn' /\ OneCurrent' /\ Progress'
      BY <1>0, <2>1, <2>4, <3>1 DEF InTurn, OneCurrent, Progress
    <3>4. SkippedForCause'
      BY <1>0, <2>1, <2>4, <3>1 DEF SkippedForCause
    <3>5. DeferredAfterAll' /\ FailedForCause'
      BY <2>1, <3>1 DEF DeferredAfterAll, FailedForCause
    <3>6. PostureRight' /\ ChannelRight'
      BY <2>1, <3>1 DEF PostureRight, ChannelRight, Settled, Dialog, Transaction
    <3> QED BY <3>2, <3>3, <3>4, <3>5, <3>6
  <2> QED BY <1>2, <2>3, <2>4 DEF DanePosture, StsPosture, Goto
<1>3. CASE ResolveExchange
  <2>1. /\ pc = "resolve" /\ pc \in Settled /\ SameTarget
        /\ UNCHANGED <<peer, counts>> /\ PeerOK
    BY <1>3 DEF ResolveExchange, Settled, SameTarget, RelayInd, TypeOK, PeerOK
  <2>2. PICK reply \in Replied(AddressSets) :
            IF lookup_ip(reply) \in {Failed, {}}
              THEN /\ outcome' = [outcome EXCEPT ![mx] = "noaddr"]
                   /\ Goto("next")
                   /\ UNCHANGED addrs
              ELSE /\ addrs' = Cardinality(lookup_ip(reply))
                   /\ Goto("connect")
                   /\ UNCHANGED outcome
    BY <1>3 DEF ResolveExchange
  <2>3. CASE lookup_ip(reply) \in {Failed, {}}
    <3>1. PeerOK' /\ Leaves("noaddr")
      BY <2>1, <2>2, <2>3 DEF PeerOK, peer, counts, Leaves
    <3> QED BY <2>1, <3>1, LeavesInd
  <2>4. CASE lookup_ip(reply) \notin {Failed, {}}
    <3>1. addrs' \in 1 .. MaxAddrs
      BY <2>2, <2>4, AddressReplies
    <3>2. PeerOK' /\ Leaves("noaddr")
      BY <2>1, <2>2, <2>4, <3>1 DEF PeerOK, peer, counts, Leaves
    <3> QED BY <2>1, <3>2, LeavesInd
  <2> QED BY <2>3, <2>4
<1> QED BY <1>1, <1>2, <1>3

\* A call begins with nothing looked up and nothing said.
LEMMA InitInd == Init => RelayInd
<1> SUFFICES ASSUME Init PROVE RelayInd
  OBVIOUS
<1> USE RelayAssumption
<1>1. TypeOK
  <2>1. pref \in [{} -> Prefs] /\ {} \in SUBSET Exchanges
    BY DEF Init
  <2>2. NoPolicy \in Policies
    BY DEF Policies
  <2>3. \E set \in SUBSET Exchanges : pref \in [set -> Prefs]
    BY <2>1
  <2>4. outcome \in [Exchanges -> {"untried", "skipped", "noaddr", "current", "exhausted"}]
    BY DEF Init
  <2>5. addrs \in 0..MaxAddrs /\ rcptLeft \in 0..MaxRcpts /\ copies \in Nat /\ lost \in Nat
    BY DEF Init
  <2>6. mx \in Exchanges /\ tlsa \in RRsets /\ proved \subseteq {"dane", "pkix"}
    BY DEF Init, Exchanges
  <2>7. posture \in Postures /\ offered \in BOOLEAN /\ chan \in Channels /\ daneActive \in BOOLEAN
    BY DEF Init, Postures, Channels
  <2> QED BY <2>2, <2>3, <2>4, <2>5, <2>6, <2>7 DEF Init, TypeOK
<1>2. InTurn /\ OneCurrent /\ SkippedForCause /\ Progress
  BY DEF Init, InTurn, OneCurrent, SkippedForCause, Progress, Trying, Settled, Dialog, Looking
<1>3. DeferredAfterAll /\ FailedForCause /\ PostureRight /\ ChannelRight
  BY DEF Init, DeferredAfterAll, FailedForCause, PostureRight, ChannelRight, Settled, Dialog, Transaction
<1> QED BY <1>1, <1>2, <1>3 DEF RelayInd

\* Every step preserves the invariant.
LEMMA NextInd == RelayInd /\ [Next]_vars => RelayInd'
<1> SUFFICES ASSUME RelayInd, [Next]_vars PROVE RelayInd'
  OBVIOUS
<1>1. CASE UNCHANGED vars
  BY <1>1 DEF RelayInd, vars, asked, found, target, peer, counts, TypeOK, InTurn, OneCurrent,
       SkippedForCause, Progress, DeferredAfterAll, FailedForCause, PostureRight, ChannelRight, Fallback
<1> QED BY <1>1, LookupInd, ExchangeInd, DialogInd DEF Next, Returned

\* The inductive invariant: where the call stands, which exchanges it skipped and
\* why, and what the posture in force demands of the channel it has (relay, relay_to).
THEOREM InductiveInvariant == Spec => []RelayInd
BY InitInd, NextInd, PTL DEF Spec

-----------------------------------------------------------------------------
(* What follows *)

\* relay() contacts an exchange only after every one of lower preference has had
\* its turn, defers only after all of them, and gives a message up for good only
\* on the word of a peer, of a null MX or for want of a recipient.
THEOREM RelayIsSafe == Spec => []RelayInv
<1>1. RelayInd => RelayInv
  <2> SUFFICES ASSUME RelayInd PROVE PreferenceOrder
    BY DEF RelayInd, RelayInv
  <2>1. SUFFICES ASSUME pc \in Dialog \cup {"connect"}, NEW e \in DOMAIN pref, pref[e] < pref[mx]
                 PROVE  outcome[e] \in {"skipped", "noaddr", "exhausted"}
    BY DEF PreferenceOrder
  <2>2. pc \in Trying /\ mx \in DOMAIN pref
    BY <2>1 DEF RelayInd, InTurn, Trying, Settled
  <2>3. e # mx /\ e \in Exchanges /\ pref[e] \in Nat /\ pref[mx] \in Nat
    BY <2>1, <2>2, RelayAssumption DEF RelayInd, TypeOK
  <2>4. outcome[e] # "untried"
    BY <2>1, <2>2, <2>3 DEF RelayInd, InTurn
  <2>5. outcome[e] # "current"
    BY <2>3 DEF RelayInd, OneCurrent
  <2> QED BY <2>3, <2>4, <2>5 DEF RelayInd, TypeOK
<1> QED BY <1>1, InductiveInvariant, PTL

\* No command of a mail transaction reaches a peer that has proved less than the
\* policy in enforce mode or the usable TLSA record in force demands, and none
\* goes in cleartext to a peer that offered STARTTLS (relay, relay_to).
THEOREM MailIsProtected == Spec => []TransactionProtected
<1>1. RelayInd => TransactionProtected
  <2> SUFFICES ASSUME RelayInd, pc \in Transaction
               PROVE  /\ policy.mode = "enforce" => chan = "tls" /\ "pkix" \in proved /\ mx \in policy.allows
                      /\ has_usable_tlsa(tlsa) => chan = "tls" /\ "dane" \in proved
                      /\ offered /\ config.tls => chan # "plain"
    BY DEF TransactionProtected
  <2>1. pc \in Dialog /\ pc \in Settled
    BY DEF Transaction, Dialog, Settled
  <2>2. /\ chan = "tls" \/ (~is_mandatory(posture) /\ ~(has_config(posture) /\ offered))
        /\ chan = "tls" /\ posture = "dane" => "dane" \in proved
        /\ chan = "tls" /\ posture = "pkix" => "pkix" \in proved
    BY <2>1 DEF RelayInd, ChannelRight
  <2>3. /\ daneActive => policy.mode = "absent"
        /\ daneActive => posture = IF has_usable_tlsa(tlsa) THEN "dane" ELSE Fallback
        /\ ~daneActive => /\ tlsa = {}
                          /\ posture = IF policy.mode = "enforce" THEN "pkix" ELSE Fallback
                          /\ policy.mode = "enforce" => mx \in policy.allows
    BY <2>1 DEF RelayInd, PostureRight, NoPolicy
  <2>4. ~daneActive => ~has_usable_tlsa(tlsa)
    BY <2>3 DEF has_usable_tlsa
  <2> QED BY <2>2, <2>3, <2>4 DEF is_mandatory, has_config, Fallback
<1> QED BY <1>1, InductiveInvariant, PTL

\* The worker may take the report at its word: it says "delivered" when and only
\* when an exchanger said that it took the message, after which no other is given
\* it, and the copies it is not told of are those whose reply was lost.
THEOREM CallImplemented == Spec => ImplementsCall
<1>1. Init => Call!CallInit
  BY DEF Init, Call!CallInit
<1>2. RelayInd /\ [Next]_vars
        => [Call!TakenUnseen \/ Call!TakenSeen \/ Call!NotTaken]_(Call!callVars)
  <2> SUFFICES ASSUME RelayInd, [Next]_vars
               PROVE  [Call!TakenUnseen \/ Call!TakenSeen \/ Call!NotTaken]_(Call!callVars)
    OBVIOUS
  <2> USE DEF Call!TakenUnseen, Call!TakenSeen, Call!NotTaken, Call!callVars
  <2>0. pc # "done" => report = "pending"
    BY DEF RelayInd, Progress
  <2>2. ASSUME NEW reply, Classify(reply), UNCHANGED <<copies, lost>>, pc # "done"
        PROVE  UNCHANGED <<report, copies, lost>> \/ Call!NotTaken
    BY <2>0, <2>2 DEF Classify, NextAddress, Goto, Return
  <2>3. ASSUME NEW good, NEW label, Command(good, label), UNCHANGED <<copies, lost>>, pc # "done"
        PROVE  UNCHANGED <<report, copies, lost>> \/ Call!NotTaken
    BY <2>2, <2>3 DEF Command, Goto
  <2>4. CASE Start \/ PolicyFor \/ NextExchange \/ NoMoreExchanges
    BY <2>0, <2>4 DEF Start, PolicyFor, NextExchange, NoMoreExchanges, Goto, Return, counts
  <2>5. CASE LookupMx
    <3>1. /\ pc = "mx" /\ UNCHANGED <<copies, lost>>
          /\ Return("deferred", "nomx") \/ Goto("policy")
      <4>1. pc = "mx" /\ UNCHANGED <<copies, lost>>
        BY <2>5 DEF LookupMx, counts
      <4>2. Return("deferred", "nomx") \/ Goto("policy")
        BY <2>5, Zenon DEF LookupMx
      <4> QED BY <4>1, <4>2
    <3> QED BY <2>0, <3>1 DEF Goto, Return
  <2>6. CASE DanePosture \/ StsPosture \/ ResolveExchange
    BY <2>6 DEF DanePosture, StsPosture, ResolveExchange, Goto, counts
  <2>7. CASE Connect \/ StartTls \/ Handshake
    BY <2>7 DEF Connect, StartTls, Handshake, NextAddress, Goto, counts
  <2>8. CASE Greeting \/ EhloTls \/ MailFrom \/ RcptTo \/ Data
    BY <2>3, <2>8 DEF Greeting, EhloTls, MailFrom, RcptTo, Data, counts
  <2>9. CASE Ehlo
    BY <2>2, <2>9 DEF Ehlo, NextAddress, Goto, counts
  <2>10. CASE Verdict
    BY <2>0, <2>2, <2>10 DEF Verdict, NextAddress, Goto, Return, counts
  <2>11. CASE Returned \/ UNCHANGED vars
    BY <2>11 DEF Returned, vars, counts
  <2> QED BY <2>4, <2>5, <2>6, <2>7, <2>8, <2>9, <2>10, <2>11 DEF Next
<1> QED BY <1>1, <1>2, InductiveInvariant, PTL DEF Spec, ImplementsCall, Call!CallSpec
=============================================================================
