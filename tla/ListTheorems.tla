---------------------------- MODULE ListTheorems ----------------------------
(***************************************************************************)
(* Lemmas about Lists and about sequences that the proofs of the           *)
(* components share.                                                       *)
(***************************************************************************)
EXTENDS Lists, FiniteSetTheorems, SequenceTheorems, TLAPS

\* The least element of a set of numbers, for arguments along a list.
LEMMA LeastNat ==
    ASSUME NEW S \in SUBSET Nat, S # {}
    PROVE  \E n \in S : \A m \in S : n <= m
<1>1. PICK x \in S : \A y \in S : ~(<<y, x>> \in OpToRel(<, Nat))
  BY NatLessThanWellFounded, WFMin, Zenon
<1>2. \A y \in S : ~(y < x)
  BY <1>1 DEF OpToRel
<1> QED BY <1>2

\* Ranks count from 1 to the number of members and grow with the members.
LEMMA RankGrows ==
    ASSUME NEW S \in SUBSET Nat, IsFiniteSet(S)
    PROVE  /\ Cardinality(S) \in Nat
           /\ \A i \in S : Rank(S, i) \in 1 .. Cardinality(S)
           /\ \A i, j \in S : i < j => Rank(S, i) < Rank(S, j)
<1>1. Cardinality(S) \in Nat
  BY FS_CardinalityType
<1>2. ASSUME NEW i \in S
      PROVE  /\ Rank(S, i) \in 1 .. Cardinality(S)
             /\ IsFiniteSet({x \in S : x <= i})
  <2> DEFINE D == {x \in S : x <= i}
  <2>1. IsFiniteSet(D) /\ Cardinality(D) <= Cardinality(S)
    <3>1. D \in SUBSET S
      OBVIOUS
    <3> QED BY <3>1, FS_Subset
  <2>2. Cardinality(D) \in Nat /\ Cardinality(D) # 0
    <3>1. D # {}
      BY <1>2
    <3> QED BY <3>1, <2>1, FS_CardinalityType, FS_EmptySet
  <2> QED BY <1>1, <2>1, <2>2 DEF Rank
<1>3. ASSUME NEW i \in S, NEW j \in S, i < j PROVE Rank(S, i) < Rank(S, j)
  <2> DEFINE D == {x \in S : x <= i}
             E == {x \in S : x <= j}
  <2>0. i \in Nat /\ j \in Nat /\ \A x \in S : x \in Nat
    OBVIOUS
  <2>1. D \in SUBSET E /\ j \in E /\ j \notin D
    <3>1. \A x \in D : x \in E
      BY <1>3, <2>0
    <3>2. j <= j /\ ~(j <= i)
      BY <1>3, <2>0
    <3> QED BY <3>1, <3>2
  <2>2. IsFiniteSet(E)
    BY <1>2
  <2>3. Cardinality(D) <= Cardinality(E) /\ Cardinality(D) # Cardinality(E)
    <3> HIDE DEF D, E
    <3> QED BY <2>1, <2>2, FS_Subset
  <2>4. Rank(S, i) = Cardinality(D) /\ Rank(S, j) = Cardinality(E)
    BY DEF Rank
  <2>5. Rank(S, i) \in Nat /\ Rank(S, j) \in Nat
    <3>1. \A x \in S : Rank(S, x) \in 1 .. Cardinality(S)
      BY <1>2
    <3> QED BY <1>1, <3>1
  <2> HIDE DEF D, E
  <2> QED BY <2>3, <2>4, <2>5
<1> QED BY <1>1, <1>2, <1>3

\* Nth enumerates the members of S by their rank.
LEMMA NthMember ==
    ASSUME NEW S \in SUBSET Nat, IsFiniteSet(S)
    PROVE  /\ \A i \in S : Nth(S, Rank(S, i)) = i
           /\ \A k \in 1 .. Cardinality(S) : Nth(S, k) \in S /\ Rank(S, Nth(S, k)) = k
<1>1. \A i, j \in S : Rank(S, i) = Rank(S, j) => i = j
  BY RankGrows
<1>2. \A i \in S : Nth(S, Rank(S, i)) = i
  BY <1>1 DEF Nth
<1>3. ASSUME NEW k \in 1 .. Cardinality(S) PROVE \E i \in S : Rank(S, i) = k
  <2> DEFINE f == [i \in S |-> Rank(S, i)]
             n == Cardinality(S)
  <2>1. n \in Nat /\ IsFiniteSet(1 .. n) /\ Cardinality(1 .. n) = n
    BY RankGrows, FS_Interval
  <2>2. f \in Injection(S, 1 .. n)
    BY <1>1, RankGrows DEF Injection, IsInjective
  <2>3. f \in Surjection(S, 1 .. n)
    <3> HIDE DEF f
    <3> QED BY <2>1, <2>2, FS_Injection
  <2> QED BY <2>3 DEF Surjection
<1> QED BY <1>2, <1>3 DEF Nth

\* That o has what a filter by T keeps of the list s over A: members of T only,
\* every one of them, as often as s has it; a list that loses an element gets
\* shorter, and one without repetitions gets none.
Filters(o, T, s, A) ==
    /\ o \in Seq(A \cap T)
    /\ Len(o) <= Len(s)
    /\ \A r \in T : Copies(o, r) = Copies(s, r)
    /\ \A i \in DOMAIN s : s[i] \in T => \E k \in DOMAIN o : o[k] = s[i]
    /\ (\E i \in DOMAIN s : s[i] \notin T) => Len(o) < Len(s)
    /\ (\A i, j \in DOMAIN s : s[i] = s[j] => i = j) => \A i, j \in DOMAIN o : o[i] = o[j] => i = j

\* Only is such a filter.
LEMMA OnlyFilters == ASSUME NEW A, NEW T, NEW s \in Seq(A) PROVE Filters(Only(T, s), T, s, A)
<1> DEFINE K == {i \in DOMAIN s : s[i] \in T}
           n == Cardinality(K)
           o == Only(T, s)
<1>0. Len(s) \in Nat /\ DOMAIN s = 1 .. Len(s)
  BY LenProperties
<1>1. IsFiniteSet(DOMAIN s) /\ Cardinality(DOMAIN s) = Len(s)
  BY <1>0, FS_Interval
<1>2. K \in SUBSET Nat /\ IsFiniteSet(K) /\ n \in Nat /\ n <= Len(s)
  <2>1. K \in SUBSET DOMAIN s
    OBVIOUS
  <2>2. IsFiniteSet(K) /\ n <= Len(s)
    BY <1>1, <2>1, FS_Subset
  <2> QED BY <1>0, <2>1, <2>2, FS_CardinalityType
<1>3. /\ \A i \in K : Rank(K, i) \in 1 .. n /\ Nth(K, Rank(K, i)) = i
      /\ \A k \in 1 .. n : Nth(K, k) \in K /\ Rank(K, Nth(K, k)) = k
  <2> HIDE DEF K
  <2> QED BY <1>2, RankGrows, NthMember
<1>4. o = [k \in 1 .. n |-> s[Nth(K, k)]]
  BY DEF Only
<1>5. o \in Seq(A \cap T) /\ Len(o) = n /\ DOMAIN o = 1 .. n
  <2>1. \A k \in 1 .. n : s[Nth(K, k)] \in A \cap T
    BY <1>3, ElementOfSeq
  <2> HIDE DEF K, n
  <2>2. o \in [1 .. n -> A \cap T]
    BY <1>4, <2>1
  <2> HIDE DEF o
  <2> QED BY <1>2, <2>2, SeqDef, LenProperties
<1>6. ASSUME NEW r \in T
      PROVE  Copies(o, r) = Copies(s, r)
  <2> DEFINE P == {i \in DOMAIN s : s[i] = r}
             Q == {k \in DOMAIN o : o[k] = r}
             f == [i \in P |-> Rank(K, i)]
  <2>1. P \in SUBSET K
    OBVIOUS
  <2>2. IsFiniteSet(P)
    <3> HIDE DEF P, K
    <3> QED BY <1>2, <2>1, FS_Subset
  <2>3. f \in Injection(P, Q)
    <3>1. \A i \in P : Rank(K, i) \in 1 .. n /\ Nth(K, Rank(K, i)) = i
      BY <1>3, <2>1
    <3> HIDE DEF K, n
    <3>2. \A i \in P : o[Rank(K, i)] = r
      BY <1>4, <3>1
    <3> HIDE DEF o
    <3>3. \A i \in P : Rank(K, i) \in Q
      BY <1>5, <3>1, <3>2
    <3>4. \A i, j \in P : Rank(K, i) = Rank(K, j) => i = j
      BY <3>1
    <3> HIDE DEF P, Q
    <3> QED BY <3>3, <3>4 DEF Injection, IsInjective
  <2>4. f \in Surjection(P, Q)
    <3>1. ASSUME NEW k \in Q PROVE \E i \in P : f[i] = k
      <4>1. k \in 1 .. n /\ s[Nth(K, k)] = r
        <5> HIDE DEF K, n
        <5> QED BY <1>4, <1>5
      <4>2. Nth(K, k) \in K /\ Rank(K, Nth(K, k)) = k
        BY <1>3, <4>1
      <4>3. Nth(K, k) \in P
        BY <4>1, <4>2
      <4> HIDE DEF P
      <4> QED BY <4>2, <4>3
    <3> HIDE DEF P, Q
    <3> QED BY <2>3, <3>1 DEF Surjection, Injection
  <2>5. ExistsBijection(P, Q)
    <3> HIDE DEF f, P, Q
    <3> QED BY <2>3, <2>4 DEF ExistsBijection, Bijection
  <2> HIDE DEF P, Q
  <2>6. Cardinality(Q) = Cardinality(P)
    BY <2>2, <2>5, FS_Bijection
  <2> QED BY <2>6 DEF P, Q, Copies
<1>7. ASSUME NEW i \in DOMAIN s, s[i] \in T PROVE \E k \in DOMAIN o : o[k] = s[i]
  <2>1. i \in K
    BY <1>7
  <2>2. Rank(K, i) \in 1 .. n /\ Nth(K, Rank(K, i)) = i
    BY <1>3, <2>1
  <2> HIDE DEF K, n
  <2>3. o[Rank(K, i)] = s[i]
    BY <1>4, <2>2
  <2> HIDE DEF o
  <2> QED BY <1>5, <2>2, <2>3
<1>8. ASSUME NEW i \in DOMAIN s, s[i] \notin T PROVE Len(o) < Len(s)
  <2>1. K \in SUBSET DOMAIN s /\ K # DOMAIN s
    BY <1>8
  <2>2. n # Len(s)
    <3> HIDE DEF K
    <3> QED BY <1>1, <2>1, FS_Subset DEF n
  <2>3. Len(o) = n /\ n \in Nat /\ n <= Len(s) /\ Len(s) \in Nat
    BY <1>0, <1>2, <1>5
  <2> HIDE DEF n, o, K
  <2> QED BY <2>2, <2>3
<1>9. ASSUME \A i, j \in DOMAIN s : s[i] = s[j] => i = j, NEW i \in DOMAIN o, NEW j \in DOMAIN o, o[i] = o[j]
      PROVE  i = j
  <2>1. i \in 1 .. n /\ j \in 1 .. n /\ s[Nth(K, i)] = s[Nth(K, j)]
    <3> HIDE DEF K, n
    <3> QED BY <1>4, <1>5, <1>9
  <2>2. Nth(K, i) \in DOMAIN s /\ Nth(K, j) \in DOMAIN s
    BY <1>3, <2>1
  <2>3. Nth(K, i) = Nth(K, j)
    BY <1>9, <2>1, <2>2
  <2> HIDE DEF K, n, o
  <2> QED BY <1>3, <2>1, <2>3
<1> HIDE DEF K, n, o
<1>10. Filters(o, T, s, A)
  BY <1>2, <1>5, <1>6, <1>7, <1>8, <1>9 DEF Filters
<1> QED BY <1>10 DEF o

\* What is filtered is of the list's type and in T.
LEMMA OnlyTyped == ASSUME NEW A, NEW T, NEW s \in Seq(A) PROVE Only(T, s) \in Seq(A \cap T)
BY OnlyFilters DEF Filters

\* Nothing that is in T is lost.
LEMMA OnlyKeeps ==
    ASSUME NEW A, NEW T, NEW s \in Seq(A)
    PROVE  /\ Len(Only(T, s)) <= Len(s)
           /\ \A r \in T : Copies(Only(T, s), r) = Copies(s, r)
           /\ \A i \in DOMAIN s : s[i] \in T => \E k \in DOMAIN Only(T, s) : Only(T, s)[k] = s[i]
<1>1. Filters(Only(T, s), T, s, A)
  BY OnlyFilters
<1> QED BY <1>1 DEF Filters
\* How many members of S are not less than i: the rank from above.
Below(S, i) == Cardinality({x \in S : i <= x})

\* The two ranks of a member count it twice and every other one once.
LEMMA BelowIs ==
    ASSUME NEW S \in SUBSET Nat, IsFiniteSet(S), NEW i \in S
    PROVE  Below(S, i) \in Nat /\ Below(S, i) + Rank(S, i) = Cardinality(S) + 1
<1> DEFINE U == {x \in S : i <= x}
           L == {x \in S : x <= i}
<1>1. U \in SUBSET S /\ L \in SUBSET S /\ U \cup L = S /\ U \cap L = {i}
  <2>1. i \in Nat /\ \A x \in S : x \in Nat
    OBVIOUS
  <2>2. \A x \in S : (i <= x \/ x <= i) /\ (i <= x /\ x <= i => x = i)
    BY <2>1
  <2>3. i <= i
    BY <2>1
  <2>4. U \cup L = S
    BY <2>2, Zenon
  <2>5. U \cap L = {i}
    BY <2>2, <2>3, Zenon
  <2> QED BY <2>4, <2>5
<1>2. Below(S, i) = Cardinality(U) /\ Rank(S, i) = Cardinality(L)
  BY DEF Below, Rank
<1> HIDE DEF U, L
<1>3. IsFiniteSet(U) /\ IsFiniteSet(L)
  BY <1>1, FS_Subset
<1>4. Cardinality(S) = Cardinality(U) + Cardinality(L) - Cardinality({i})
  BY <1>1, <1>3, FS_Union
<1>5. Cardinality({i}) = 1 /\ Cardinality(U) \in Nat /\ Cardinality(L) \in Nat /\ Cardinality(S) \in Nat
  BY <1>3, FS_Singleton, FS_CardinalityType
<1> QED BY <1>2, <1>4, <1>5

\* When the m highest members are gone, the highest one left is the next.
LEMMA HighestLeft ==
    ASSUME NEW S \in SUBSET Nat, IsFiniteSet(S), NEW m \in Nat
    PROVE  LET left == {i \in S : ~(Below(S, i) <= m)}
           IN {i \in left : \A x \in left : x <= i} = {i \in S : Below(S, i) = m + 1}
<1> DEFINE left == {i \in S : ~(Below(S, i) <= m)}
           n == Cardinality(S)
<1>1. /\ n \in Nat
      /\ \A i \in S : Rank(S, i) \in 1 .. n
      /\ \A i, j \in S : i < j => Rank(S, i) < Rank(S, j)
  BY RankGrows
<1>2. \A k \in 1 .. n : Nth(S, k) \in S /\ Rank(S, Nth(S, k)) = k
  BY NthMember
<1>3. \A i \in S : Below(S, i) \in Nat /\ Below(S, i) + Rank(S, i) = n + 1
  BY BelowIs
<1>4. \A i \in S : i \in Nat
  OBVIOUS
<1> HIDE DEF n
<1>5. ASSUME NEW i \in left, \A x \in left : x <= i PROVE Below(S, i) = m + 1
  <2> SUFFICES ASSUME Below(S, i) # m + 1 PROVE FALSE
    OBVIOUS
  <2>1. Below(S, i) > m + 1 /\ Rank(S, i) \in 1 .. n /\ Rank(S, i) + 1 \in 1 .. n
    BY <1>1, <1>3, <1>5
  <2> DEFINE y == Nth(S, Rank(S, i) + 1)
  <2>2. y \in S /\ Rank(S, y) = Rank(S, i) + 1
    BY <1>2, <2>1
  <2> HIDE DEF y
  <2>3. Below(S, y) > m /\ Below(S, y) \in Nat
    BY <1>1, <1>3, <2>1, <2>2
  <2>4. y \in left
    BY <2>2, <2>3
  <2>5. y <= i /\ y # i
    BY <1>1, <1>5, <2>1, <2>2, <2>4
  <2>6. y < i
    BY <1>4, <2>2, <2>5
  <2> QED BY <1>1, <2>1, <2>2, <2>6
<1>6. ASSUME NEW i \in S, Below(S, i) = m + 1 PROVE i \in left /\ \A x \in left : x <= i
  <2>1. i \in left
    BY <1>6
  <2>2. ASSUME NEW x \in left, ~(x <= i) PROVE FALSE
    <3>1. x \in S /\ i < x /\ ~(Below(S, x) <= m)
      BY <1>4, <2>2
    <3>2. Rank(S, i) < Rank(S, x)
      BY <1>1, <3>1
    <3> QED BY <1>1, <1>3, <1>6, <3>1, <3>2
  <2> QED BY <2>1, <2>2
<1> QED BY <1>5, <1>6

\* How often n is among the first j elements of the list h.
Uses(h, n, j) == Cardinality({i \in 1 .. j : h[i] = n})

\* One element more counts once, for its own value.
LEMMA UsesGrow ==
    ASSUME NEW h, NEW n, NEW j \in Nat
    PROVE  /\ Uses(h, n, j) \in Nat /\ Uses(h, n, 0) = 0
           /\ Uses(h, n, j + 1) = IF h[j + 1] = n THEN Uses(h, n, j) + 1 ELSE Uses(h, n, j)
<1> DEFINE U == {i \in 1 .. j : h[i] = n}
           V == {i \in 1 .. (j + 1) : h[i] = n}
<1>1. IsFiniteSet(U)
  <2>1. U \in SUBSET (1 .. j) /\ IsFiniteSet(1 .. j)
    BY FS_Interval
  <2> QED BY <2>1, FS_Subset
<1>2. j + 1 \notin U /\ V = IF h[j + 1] = n THEN U \cup {j + 1} ELSE U
  OBVIOUS
<1>3. Uses(h, n, j) = Cardinality(U) /\ Uses(h, n, j + 1) = Cardinality(V)
  BY DEF Uses
<1>4. Uses(h, n, 0) = 0
  <2>1. {i \in 1 .. 0 : h[i] = n} = {}
    OBVIOUS
  <2> QED BY <2>1, FS_EmptySet DEF Uses
<1> HIDE DEF U, V
<1>5. Cardinality(U) \in Nat /\ Cardinality(U \cup {j + 1}) = Cardinality(U) + 1
  BY <1>1, <1>2, FS_AddElement, FS_CardinalityType
<1> QED BY <1>2, <1>3, <1>4, <1>5
=============================================================================
