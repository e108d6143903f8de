------------------------------- MODULE MtaSts -------------------------------
(***************************************************************************)
(* The MTA-STS policy cache (mta_sts/mod.rs) that the relay worker consults*)
(* before a delivery.  policy_for() awaits the discovery TXT record, looks *)
(* at the cache, and awaits the policy host if it has to; domains publish, *)
(* change and withdraw, time passes and lookups fail at any of these       *)
(* points.  The worker makes one call at a time.                           *)
(*                                                                         *)
(* A policy is a version number, which its file carries as a label of its  *)
(* exchange, and its max_age; the discovery id of a version is its number. *)
(* As RFC 8461 asks of a domain, the host serves a version before the TXT  *)
(* record announces it.                                                    *)
(***************************************************************************)
EXTENDS StsPolicy

CONSTANTS
    Domains,            \* recipient domains
    MAX_CACHE,          \* entries the cache may hold
    NEGATIVE_TTL,       \* life of a negative entry, in ticks
    Ages,               \* max_age values in policy files, in ticks
    MaxVersion,         \* bound: versions a domain publishes
    Horizon             \* bound: ticks counted, beyond the life of any entry

ASSUME MtaStsAssumption ==
    /\ MAX_CACHE \in Nat \ {0}
    /\ NEGATIVE_TTL \in Nat \ {0}
    /\ Ages \subseteq Nat
    /\ MaxVersion \in Nat
    /\ Horizon \in Nat
    /\ MAX_AGE_CAP \in Nat /\ MAX_BODY \in Nat
    /\ \A a \in {1, MAX_AGE_CAP, NEGATIVE_TTL} : a <= Horizon

VARIABLES
    host,               \* host[d]: the policy the policy host of d serves
    txt,                \* txt[d]: the id its TXT record announces
    published,          \* published[d]: versions published so far
    cache,              \* cache[d]: the entry for d
    order,              \* the cached domains, least recently stored first
    pc,                 \* where the call of policy_for() is
    dom,                \* the domain it asks about
    discovered,         \* the discovery id it found
    result,             \* what it returned
    \* -- history, read by properties only
    gone                \* gone[d][v]: ticks since v was last served by d

world == <<host, txt, published>>
stsVars == <<world, cache, order, pc, dom, discovered, result, gone>>

NoId     == 0
NoPolicy == [ver |-> 0, maxAge |-> 0]
NoEntry  == [id |-> NoId, policy |-> NoPolicy, left |-> 0]
Versions == 1..MaxVersion
Files    == [ver : Versions, maxAge : Ages] \cup {NoPolicy}
Policies == [ver : Versions, maxAge : 0..MAX_AGE_CAP] \cup {NoPolicy}

\* Positive entries live for max_age, but for a tick at least.
Ttl(policy) == IF policy.maxAge > 1 THEN policy.maxAge ELSE 1

StsTypeOK ==
    /\ host \in [Domains -> Files]
    /\ txt \in [Domains -> Versions \cup {NoId}]
    /\ published \in [Domains -> 0..MaxVersion]
    /\ cache \in [Domains -> [id : Versions \cup {NoId}, policy : Policies, left : 0..Horizon]]
    /\ order \in Seq(Domains)
    /\ Len(order) <= MAX_CACHE
    /\ pc \in {"idle", "discover", "fetch", "done"}
    /\ dom \in Domains
    /\ discovered \in Versions \cup {NoId}
    /\ result \in Policies
    /\ gone \in [Domains -> [Versions -> 0..Horizon]]

StsInit ==
    /\ host = [d \in Domains |-> NoPolicy]
    /\ txt = [d \in Domains |-> NoId]
    /\ published = [d \in Domains |-> 0]
    /\ cache = [d \in Domains |-> NoEntry]
    /\ order = <<>>
    /\ pc = "idle"
    /\ dom \in Domains
    /\ discovered = NoId
    /\ result = NoPolicy
    /\ gone = [d \in Domains |-> [v \in Versions |-> Horizon]]

-----------------------------------------------------------------------------
(* The domains and time *)

Publish(d, age) ==
    LET v == published[d] + 1
    IN /\ v \in Versions
       /\ published' = [published EXCEPT ![d] = v]
       /\ host' = [host EXCEPT ![d] = [ver |-> v, maxAge |-> age]]
       /\ gone' = [gone EXCEPT ![d][v] = 0]
       /\ UNCHANGED <<txt, cache, order, pc, dom, discovered, result>>

Announce(d) ==
    /\ host[d] # NoPolicy
    /\ txt' = [txt EXCEPT ![d] = host[d].ver]
    /\ UNCHANGED <<host, published, cache, order, pc, dom, discovered, result, gone>>

WithdrawId(d) ==
    /\ txt' = [txt EXCEPT ![d] = NoId]
    /\ UNCHANGED <<host, published, cache, order, pc, dom, discovered, result, gone>>

WithdrawPolicy(d) ==
    /\ host' = [host EXCEPT ![d] = NoPolicy]
    /\ UNCHANGED <<txt, published, cache, order, pc, dom, discovered, result, gone>>

Tick ==
    /\ cache' = [d \in Domains |-> [cache[d] EXCEPT !.left = IF @ > 0 THEN @ - 1 ELSE 0]]
    /\ gone' = [d \in Domains |-> [v \in Versions |->
            IF host[d].ver = v THEN 0
            ELSE IF gone[d][v] < Horizon THEN gone[d][v] + 1 ELSE Horizon]]
    /\ UNCHANGED <<world, order, pc, dom, discovered, result>>

-----------------------------------------------------------------------------
(* The cache *)

Fresh(d) == cache[d].left > 0

Negative == [id |-> NoId, policy |-> NoPolicy, left |-> NEGATIVE_TTL]

\* store(): a domain that is new to a full cache evicts the oldest entry.
Store(d, entry) ==
    LET evict == Len(order) >= MAX_CACHE /\ ~Contains(order, d)
        kept  == IF evict THEN Tail(order) ELSE order
    IN /\ cache' = [x \in Domains |-> IF x = d THEN entry
                                      ELSE IF evict /\ x = Head(order) THEN NoEntry
                                      ELSE cache[x]]
       /\ order' = Append(Only(Domains \ {d}, kept), d)

-----------------------------------------------------------------------------
(* policy_for() *)

Finish(policy) == pc' = "done" /\ result' = policy

policy_for(d) ==
    /\ pc \in {"idle", "done"}
    /\ pc' = "discover"
    /\ dom' = d
    /\ discovered' = NoId
    /\ result' = NoPolicy
    /\ UNCHANGED <<world, cache, order, gone>>

\* A fresh entry that applies to what discovery found: a positive one of the
\* same id, or a negative one when nothing was found.
Applies(found) ==
    /\ Fresh(dom)
    /\ found = cache[dom].id
    /\ found = NoId => cache[dom].policy = NoPolicy

\* discover_id(): the first record that has an id; a lookup that fails is taken
\* for an absent record.
Line(key, value) == [key |-> key, value |-> value]
TxtRecords(d) == <<<<Line("v", "spf1")>>>>
                 \o (IF txt[d] = NoId THEN <<>> ELSE <<<<Line("v", "STSv1"), Line("id", txt[d])>>>>)
discover_id(records) ==
    LET valid == {k \in DOMAIN records : is_valid_id(parse_sts_txt(records[k]))}
    IN IF valid = {} THEN NoId ELSE parse_sts_txt(records[Min(valid)])

Discover(answered) ==
    LET found == IF answered THEN discover_id(TxtRecords(dom)) ELSE NoId
    IN /\ pc = "discover"
       /\ discovered' = found
       /\ \/ /\ Applies(found)
             /\ Finish(cache[dom].policy)
             /\ UNCHANGED <<cache, order>>
          \/ /\ ~Applies(found)
             /\ found = NoId
             /\ Store(dom, Negative)
             /\ Finish(NoPolicy)
          \/ /\ ~Applies(found)
             /\ found # NoId
             /\ pc' = "fetch"
             /\ UNCHANGED <<cache, order, result>>
       /\ UNCHANGED <<world, dom, gone>>

\* What the policy host of d answers: the file, all of it or cut short, or a
\* page that is none, with or without its length; no answer in FETCH_TIMEOUT is
\* like a failure.
HttpReply(code, body) ==
    {[code |-> c, headers |-> h, body |-> SubSeq(body, 1, n)] :
        c \in {code, 301}, n \in {Len(body) - 1, Len(body)},
        h \in {<<>>, <<Line("content-length", Len(body))>>,
               <<Line("transfer-encoding", "chunked"), Line("content-length", Len(body))>>}}
Answers(d) ==
    IF host[d] = NoPolicy THEN HttpReply(404, <<Line("", 0)>>)
    ELSE HttpReply(200, <<Line("version", "STSv1"), Line("mode", "enforce"),
                        Line("mx", <<host[d].ver>>), Line("max_age", host[d].maxAge)>>)

fetch_and_parse(answer) == policy_parse(parse_http_response(answer))

\* It succeeds.
Fetched ==
    /\ pc = "fetch"
    /\ \E answer \in Answers(dom) :
        LET parsed == fetch_and_parse(answer)
            policy == [ver |-> Head(CHOOSE name \in parsed.mx : TRUE), maxAge |-> parsed.max_age]
        IN /\ parsed # Error
           /\ Store(dom, [id |-> discovered, policy |-> policy, left |-> Ttl(policy)])
           /\ Finish(policy)
    /\ UNCHANGED <<world, dom, discovered, gone>>

\* Mutant: an expired policy is better than none.
FetchFailedStale ==
    /\ pc = "fetch"
    /\ IF cache[dom].policy # NoPolicy
         THEN Finish(cache[dom].policy) /\ UNCHANGED <<cache, order>>
         ELSE Finish(NoPolicy) /\ Store(dom, Negative)
    /\ UNCHANGED <<world, dom, discovered, gone>>

\* Mutant: the policy that is kept is put under the id it could not refresh to.
FetchFailedRestamps ==
    /\ pc = "fetch"
    /\ IF Fresh(dom) /\ cache[dom].policy # NoPolicy
         THEN Finish(cache[dom].policy) /\ Store(dom, [cache[dom] EXCEPT !.id = discovered])
         ELSE Finish(NoPolicy) /\ Store(dom, Negative)
    /\ UNCHANGED <<world, dom, discovered, gone>>

\* It fails: no address, no connection, a timeout, or an answer that is no policy,
\* as every host may give.  A policy that is cached and fresh still holds.
FetchFailed ==
    /\ pc = "fetch"
    /\ IF Fresh(dom) /\ cache[dom].policy # NoPolicy
         THEN Finish(cache[dom].policy) /\ UNCHANGED <<cache, order>>
         ELSE Finish(NoPolicy) /\ Store(dom, Negative)
    /\ UNCHANGED <<world, dom, discovered, gone>>

StsNext ==
    \/ \E d \in Domains : \/ \E age \in Ages : Publish(d, age)
                          \/ Announce(d) \/ WithdrawId(d) \/ WithdrawPolicy(d)
                          \/ policy_for(d)
    \/ \E answered \in BOOLEAN : Discover(answered)
    \/ Fetched \/ FetchFailed
    \/ Tick

StsSpec == StsInit /\ [][StsNext]_stsVars

-----------------------------------------------------------------------------
(* Properties *)

Returns == pc # "done" /\ pc' = "done"

\* The cached domains are exactly the listed ones, each once: an eviction drops
\* the entry together with its place, whatever was refreshed in between.
CacheConsistent ==
    /\ \A i, j \in 1..Len(order) : order[i] = order[j] => i = j
    /\ \A d \in Domains : Fresh(d) => Contains(order, d)

\* A policy that policy_for() returns was served by the domain's host less than
\* its max_age ago: no refresh failure, id change or withdrawal keeps it longer.
PolicyCurrent ==
    [][Returns /\ result' # NoPolicy
         => gone[dom][result'.ver] < Ttl(result')]_stsVars

\* A policy is never older than the id it is cached under, so that an unchanged
\* id means an up-to-date policy: a version published between discovery and
\* fetch is cached under the older id and fetched again.
IdNeverAhead ==
    \A d \in Domains : cache[d].id # NoId => cache[d].policy.ver >= cache[d].id

\* The cache as a whole: its types and its bound, its order of eviction, and
\* the ids its policies are kept under.
CacheInv == StsTypeOK /\ CacheConsistent /\ IdNeverAhead
=============================================================================
