------------------------------- MODULE Lists -------------------------------
(***************************************************************************)
(* Positions in lists, for the code's iterator filters and line splits.    *)
(***************************************************************************)
EXTENDS Naturals, FiniteSets, Sequences

\* How many members of S do not exceed i, and the k-th least member of S.
Rank(S, i) == Cardinality({j \in S : j <= i})
Nth(S, k)  == CHOOSE i \in S : Rank(S, i) = k

\* How often the list s has r.
Copies(s, r) == Cardinality({i \in DOMAIN s : s[i] = r})

\* The elements of the list s that are in T, in their order.
Only(T, s) ==
    LET K == {i \in DOMAIN s : s[i] \in T}
    IN [k \in 1 .. Cardinality(K) |-> s[Nth(K, k)]]
=============================================================================
