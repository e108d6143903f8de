------------------------------ MODULE MCMtaSts ------------------------------
(* MtaSts for TLC, and the matching of mx patterns over all short names. *)
EXTENDS MtaSts

Symmetry == Permutations(Domains)

\* An exchange is allowed exactly if a pattern is its name, but for the first
\* label where the pattern has a *: never a name with more or fewer labels.
ASSUME WildcardOneLabel ==
    LET Names(labels) == UNION {[1 .. n -> labels] : n \in 1 .. 3}
        Same(p, h) == Len(p) = Len(h) /\ \A i \in DOMAIN p : p[i] = h[i] \/ (i = 1 /\ Len(p) > 1 /\ p[i] = "*")
    IN \A p, q \in Names({"*", "a", "b"}), h \in Names({"a", "b"}) :
            allows_mx([mx |-> {p, q}], h) = (Same(p, h) \/ Same(q, h))
=============================================================================
