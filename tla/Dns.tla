-------------------------------- MODULE Dns ---------------------------------
(***************************************************************************)
(* What HickoryResolver (dns/manager.rs) makes of the answers of the       *)
(* resolver library: its lookups for mail routing, which are not           *)
(* validated, and those for DANE, which count only if they are.            *)
(*                                                                         *)
(* The library's reply is [status, records]: records of any type, an alias *)
(* that led to them included, each with the outcome of its validation; no  *)
(* records of the type asked for ("none"); or a failure.                   *)
(***************************************************************************)
EXTENDS Naturals

Proofs == {"secure", "insecure"}

\* An Err; all other results are sets of records, the empty one for None.
Failed == {[lookup |-> "failed"]}

Replied(record_sets) ==
    [status : {"none", "failed"}, records : {{}}] \cup [status : {"ok"}, records : record_sets]
OfType(records, type) == {r \in records : r.type = type}
Values(records) == {r.data : r \in records}

\* "There is no such record" is an empty answer, not an error.
answers(reply) == IF reply.status = "failed" THEN Failed ELSE reply.records

\* All records of the type, or none of them: they must all be validated.
secure_answers(reply, type) ==
    {r \in OfType(reply.records, type) :
        \A q \in OfType(reply.records, type) : q.proof = "secure"}

lookup_mx(reply) ==
    IF answers(reply) = Failed THEN Failed ELSE Values(OfType(answers(reply), "MX"))
lookup_ip(reply) ==
    IF reply.status = "failed" THEN Failed ELSE Values(OfType(reply.records, "A"))

\* A failure of these lookups is None as well.
secure_mx(reply)   == Values(secure_answers(reply, "MX"))
secure_tlsa(reply) == Values(secure_answers(reply, "TLSA"))
=============================================================================
