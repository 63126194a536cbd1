-------------------------- MODULE TranscriptsProofs --------------------------
(***************************************************************************)
(* Proofs about Transcripts, for lists of any length: a comprehension and  *)
(* a sort rearrange the elements that they keep, a sort orders them, and   *)
(* the order in which they came matters for equal keys only.               *)
(*                                                                         *)
(* There is no induction on lists.  The place of an element in an order is *)
(* the number of elements before it, so everything follows from facts on   *)
(* cardinalities.                                                          *)
(***************************************************************************)
EXTENDS Transcripts, FiniteSetTheorems, FunctionTheorems, TLAPS

-----------------------------------------------------------------------------
(* Finite sets in an order.                                                *)

StrictOrder(R, P) ==
    /\ \A i \in P : <<i, i>> \notin R
    /\ \A i, j, k \in P : <<i, j>> \in R /\ <<j, k>> \in R => <<i, k>> \in R
    /\ \A i, j \in P : i # j => <<i, j>> \in R \/ <<j, i>> \in R

Below(x, R, P) == {y \in P : <<y, x>> \in R}

\* What comes earlier has fewer elements before it, and none has them all.
LEMMA BelowGrows ==
    ASSUME NEW P, IsFiniteSet(P), NEW R, StrictOrder(R, P)
    PROVE  /\ \A x \in P : Cardinality(Below(x, R, P)) \in 0..Cardinality(P) - 1
           /\ \A x, y \in P : <<x, y>> \in R =>
                Cardinality(Below(x, R, P)) < Cardinality(Below(y, R, P))
<1>0. Cardinality(P) \in Nat  BY FS_CardinalityType
<1>1. ASSUME NEW x \in P
      PROVE  /\ IsFiniteSet(Below(x, R, P)) /\ Cardinality(Below(x, R, P)) \in Nat
             /\ Cardinality(Below(x, R, P)) < Cardinality(P)
  <2>1. Below(x, R, P) \in SUBSET P /\ Below(x, R, P) # P
    BY DEF Below, StrictOrder
  <2>2. IsFiniteSet(Below(x, R, P))
    BY <2>1, FS_Subset
  <2>3. Cardinality(Below(x, R, P)) \in Nat
    BY <2>2, FS_CardinalityType
  <2>. QED  BY <1>0, <2>1, <2>2, <2>3, FS_Subset
<1>2. ASSUME NEW x \in P, NEW y \in P, <<x, y>> \in R
      PROVE  Cardinality(Below(x, R, P)) < Cardinality(Below(y, R, P))
  <2>1. Below(x, R, P) \in SUBSET Below(y, R, P) /\ Below(x, R, P) # Below(y, R, P)
    BY <1>2 DEF Below, StrictOrder
  <2>. QED  BY <1>1, <2>1, FS_Subset
<1>. QED  BY <1>0, <1>1, <1>2

\* Ordered enumerates the set, each element once, in the order.
LEMMA OrderedEnumerates ==
    ASSUME NEW P, IsFiniteSet(P), NEW R, StrictOrder(R, P)
    PROVE  /\ Ordered(P, R) \in Bijection(1..Cardinality(P), P)
           /\ \A m, n \in 1..Cardinality(P) :
                m < n => <<Ordered(P, R)[m], Ordered(P, R)[n]>> \in R
<1> DEFINE
      N == Cardinality(P)
      Increasing(f) == \A m, n \in 1..N : m < n => <<f[m], f[n]>> \in R
      rank == [x \in P |-> Cardinality(Below(x, R, P)) + 1]
      place == Inverse(rank, P, 1..N)
<1>0. N \in Nat /\ IsFiniteSet(1..N) /\ Cardinality(1..N) = N
  BY FS_CardinalityType, FS_Interval
<1>1. \A x, y \in P : <<x, y>> \in R => rank[x] < rank[y]
  BY <1>0, BelowGrows
<1>2. rank \in Bijection(P, 1..N)
  <2>1. rank \in [P -> 1..N]
    BY <1>0, BelowGrows
  <2>2. \A x, y \in P : rank[x] = rank[y] => x = y
    <3> SUFFICES ASSUME NEW x \in P, NEW y \in P, rank[x] = rank[y], x # y
                 PROVE  FALSE
      OBVIOUS
    <3>1. rank[x] \in Int /\ rank[y] \in Int
      BY <1>0, <2>1
    <3>2. <<x, y>> \in R \/ <<y, x>> \in R
      BY DEF StrictOrder
    <3> HIDE DEF rank
    <3>. QED  BY <1>1, <3>1, <3>2
  <2>3. rank \in Injection(P, 1..N)
    BY <2>1, <2>2, Fun_IsInj
  <2>4. rank \in Surjection(P, 1..N)
    BY <1>0, <2>3, FS_Injection
  <2>. QED  BY <2>3, <2>4, Fun_IsBij
<1> HIDE DEF rank
<1>3. place \in [1..N -> P] /\ \A k \in 1..N : rank[place[k]] = k
  <2>1. place \in Bijection(1..N, P) /\ \A x \in P : place[rank[x]] = x
    BY <1>2, Fun_BijInverse
  <2>2. \A k \in 1..N : \E x \in P : rank[x] = k
    <3> HIDE DEF N
    <3>. QED  BY <1>2 DEF Bijection, Surjection
  <2>3. place \in [1..N -> P]
    BY <2>1, Fun_BijectionProperties
  <2> HIDE DEF place
  <2>. QED  BY <2>1, <2>2, <2>3
<1>4. Increasing(place)
  <2> SUFFICES ASSUME NEW m \in 1..N, NEW n \in 1..N, m < n
               PROVE  <<place[m], place[n]>> \in R
    OBVIOUS
  <2> HIDE DEF place, N
  <2>1. place[m] \in P /\ place[n] \in P /\ rank[place[m]] < rank[place[n]]
    BY <1>3
  <2>2. rank[place[m]] \in Int /\ rank[place[n]] \in Int /\ place[m] # place[n]
    BY <1>3
  <2>3. <<place[n], place[m]>> \notin R
    BY <1>1, <2>1, <2>2
  <2>. QED  BY <2>1, <2>2, <2>3 DEF StrictOrder
<1>5. Ordered(P, R) \in [1..N -> P] /\ Increasing(Ordered(P, R))
  <2> HIDE DEF place, rank
  <2>. QED  BY <1>3, <1>4 DEF Ordered
<1>6. Ordered(P, R) \in Bijection(1..N, P)
  <2> HIDE DEF N
  <2>1. \A m, n \in 1..N : Ordered(P, R)[m] = Ordered(P, R)[n] => m = n
    <3> SUFFICES ASSUME NEW m \in 1..N, NEW n \in 1..N, m # n
                 PROVE  Ordered(P, R)[m] # Ordered(P, R)[n]
      OBVIOUS
    <3>1. m < n \/ n < m
      BY <1>0
    <3>. QED  BY <1>5, <3>1 DEF StrictOrder
  <2>2. Ordered(P, R) \in Injection(1..N, P)
    BY <1>5, <2>1, Fun_IsInj
  <2>3. Ordered(P, R) \in Surjection(1..N, P)
    BY <1>0, <2>2, FS_Injection DEF N
  <2>. QED  BY <2>2, <2>3, Fun_IsBij
<1>. QED  BY <1>5, <1>6

-----------------------------------------------------------------------------
(* Rearrangements.                                                         *)

\* The definition of a bijection, taken apart.
LEMMA BijectionFacts ==
    ASSUME NEW A, NEW B, NEW f \in Bijection(A, B)
    PROVE  /\ f \in [A -> B]
           /\ \A x, y \in A : f[x] = f[y] => x = y
           /\ \A y \in B : \E x \in A : f[x] = y
BY DEF Bijection, Injection, Surjection, IsInjective

\* u has at the positions A what v has at the positions B, in another order.
Rearranged(u, A, v, B) ==
    \E q \in Bijection(A, B) : \A k \in A : u[k] = v[q[k]]

\* The positions of A at which u has an element of X.
At(u, A, X) == {k \in A : u[k] \in X}

\* The elements of one kind are rearranged with the whole.
LEMMA RearrangedParts ==
    ASSUME NEW A, NEW B, NEW u, NEW v, Rearranged(u, A, v, B), NEW X
    PROVE  Rearranged(u, At(u, A, X), v, At(v, B, X))
<1> DEFINE AX == At(u, A, X)
           BX == At(v, B, X)
<1>0. AX = {k \in A : u[k] \in X} /\ BX = {k \in B : v[k] \in X}
  BY DEF At
<1> HIDE DEF AX, BX
<1>1. PICK q \in Bijection(A, B) : \A k \in A : u[k] = v[q[k]]
  BY DEF Rearranged
<1>2. /\ q \in [A -> B]
      /\ \A x, y \in A : q[x] = q[y] => x = y
      /\ \A y \in B : \E x \in A : q[x] = y
  BY BijectionFacts
<1> DEFINE g == [k \in AX |-> q[k]]
<1>3. g \in [AX -> BX]
  BY <1>0, <1>1, <1>2
<1>4. g \in Bijection(AX, BX)
  <2>1. \A x, y \in AX : g[x] = g[y] => x = y
    BY <1>0, <1>2
  <2>2. \A y \in BX : \E x \in AX : g[x] = y
    BY <1>0, <1>1, <1>2
  <2> HIDE DEF g
  <2>. QED  BY <1>3, <2>1, <2>2, Fun_IsBij
<1>5. \A k \in AX : u[k] = v[g[k]]
  BY <1>0, <1>1
<1> HIDE DEF g
<1>6. Rearranged(u, AX, v, BX)
  BY <1>4, <1>5 DEF Rearranged
<1>. QED  BY <1>6 DEF AX, BX

\* Elements of any kind are as many in the one as in the other.
LEMMA SameCounts ==
    ASSUME NEW A, NEW B, IsFiniteSet(A), NEW u, NEW v, Rearranged(u, A, v, B), NEW X
    PROVE  Cardinality(At(u, A, X)) = Cardinality(At(v, B, X))
<1>1. Rearranged(u, At(u, A, X), v, At(v, B, X))
  BY RearrangedParts
<1>2. IsFiniteSet(At(u, A, X))
  <2>1. At(u, A, X) \in SUBSET A
    BY DEF At
  <2>. QED  BY <2>1, FS_Subset
<1>. QED  BY <1>1, <1>2, FS_Bijection, Fun_ExistsBij DEF Rearranged

\* Rearrangement is symmetric and transitive.
LEMMA RearrangedBack ==
    ASSUME NEW A, NEW B, NEW u, NEW v, Rearranged(u, A, v, B)
    PROVE  Rearranged(v, B, u, A)
<1>1. PICK q \in Bijection(A, B) : \A k \in A : u[k] = v[q[k]]
  BY DEF Rearranged
<1> DEFINE p == Inverse(q, A, B)
<1>2. p \in Bijection(B, A) /\ \A k \in A : p[q[k]] = k
  BY Fun_BijInverse
<1> HIDE DEF p
<1>3. \A k \in B : v[k] = u[p[k]]
  BY <1>1, <1>2, BijectionFacts
<1>. QED  BY <1>2, <1>3 DEF Rearranged

LEMMA RearrangedTwice ==
    ASSUME NEW A, NEW B, NEW C, NEW u, NEW v, NEW w,
           Rearranged(u, A, v, B), Rearranged(v, B, w, C)
    PROVE  Rearranged(u, A, w, C)
<1>1. PICK q \in Bijection(A, B) : \A k \in A : u[k] = v[q[k]]
  BY DEF Rearranged
<1>2. PICK p \in Bijection(B, C) : \A k \in B : v[k] = w[p[k]]
  BY DEF Rearranged
<1> DEFINE r == [k \in A |-> p[q[k]]]
<1>3. r \in Bijection(A, C)
  BY Fun_BijTransitive
<1>4. \A k \in A : u[k] = w[r[k]]
  BY <1>1, <1>2, BijectionFacts
<1> HIDE DEF r
<1>. QED  BY <1>3, <1>4 DEF Rearranged

-----------------------------------------------------------------------------
(* Comprehensions.                                                         *)

\* Sets of positions are finite and ordered.
LEMMA Positions ==
    ASSUME NEW n \in Nat, NEW P \in SUBSET (1..n)
    PROVE  /\ IsFiniteSet(P) /\ Cardinality(P) \in 0..n
           /\ Cardinality(1..n) = n
           /\ StrictOrder({p \in P \X P : p[1] < p[2]}, P)
<1>1. IsFiniteSet(1..n) /\ Cardinality(1..n) = n
  BY FS_Interval
<1>2. IsFiniteSet(P) /\ Cardinality(P) \in 0..n
  <2>1. IsFiniteSet(P) /\ Cardinality(P) <= n
    BY <1>1, FS_Subset
  <2>2. Cardinality(P) \in Nat
    BY <2>1, FS_CardinalityType
  <2>. QED  BY <2>1, <2>2
<1>3. StrictOrder({p \in P \X P : p[1] < p[2]}, P)
  BY DEF StrictOrder
<1>. QED  BY <1>1, <1>2, <1>3

\* A comprehension keeps the elements at its positions, and nothing else.
LEMMA KeptElements ==
    ASSUME NEW n \in Nat, NEW P \in SUBSET (1..n), NEW s
    PROVE  /\ DOMAIN Kept(s, P) = 1..Cardinality(P)
           /\ Kept(s, P) = [k \in 1..Cardinality(P) |-> Kept(s, P)[k]]
           /\ Rearranged(Kept(s, P), 1..Cardinality(P), s, P)
<1> DEFINE o == Ordered(P, {p \in P \X P : p[1] < p[2]})
<1>1. o \in Bijection(1..Cardinality(P), P)
  BY Positions, OrderedEnumerates
<1>2. Kept(s, P) = [k \in 1..Cardinality(P) |-> s[o[k]]]
  BY DEF Kept
<1> HIDE DEF o
<1>. QED  BY <1>1, <1>2 DEF Rearranged

\* Nothing is kept of an empty list.
LEMMA NothingKept == \A s : Kept(s, {}) = <<>>
<1> SUFFICES ASSUME NEW s  PROVE Kept(s, {}) = <<>>
  OBVIOUS
<1>1. 1..Cardinality({}) = {}
  BY FS_EmptySet
<1>. QED  BY <1>1 DEF Kept

-----------------------------------------------------------------------------
(* Sorting.                                                                *)

Keys == Int \X Int \X Int

\* LexLess orders triples of numbers as Python orders tuples.
LEMMA LexLessOnKeys ==
    ASSUME NEW a \in Keys, NEW b \in Keys
    PROVE  LexLess(a, b) <=> \/ a[1] < b[1]
                             \/ a[1] = b[1] /\ a[2] < b[2]
                             \/ a[1] = b[1] /\ a[2] = b[2] /\ a[3] < b[3]
<1>1. DOMAIN a = {1, 2, 3}
  BY DEF Keys
<1>2. 1..(1 - 1) = {} /\ 1..(2 - 1) = {1} /\ 1..(3 - 1) = {1, 2}
  OBVIOUS
<1>. QED  BY <1>1, <1>2 DEF LexLess

\* Tuples are totally ordered.
LEMMA KeysInOrder ==
    /\ \A a \in Keys : ~ LexLess(a, a)
    /\ \A a, b, c \in Keys : LexLess(a, b) /\ LexLess(b, c) => LexLess(a, c)
    /\ \A a, b \in Keys : a # b => LexLess(a, b) \/ LexLess(b, a)
<1>1. \A a \in Keys : a[1] \in Int /\ a[2] \in Int /\ a[3] \in Int
                      /\ a = <<a[1], a[2], a[3]>>
  BY DEF Keys
<1>2. \A a \in Keys : ~ LexLess(a, a)
  BY <1>1, LexLessOnKeys
<1>3. ASSUME NEW a \in Keys, NEW b \in Keys, NEW c \in Keys,
             LexLess(a, b), LexLess(b, c)
      PROVE  LexLess(a, c)
  BY <1>1, <1>3, LexLessOnKeys
<1>4. ASSUME NEW a \in Keys, NEW b \in Keys, a # b
      PROVE  LexLess(a, b) \/ LexLess(b, a)
  <2>1. a[1] # b[1] \/ a[2] # b[2] \/ a[3] # b[3]
    BY <1>1, <1>4
  <2>. QED  BY <1>1, <2>1, LexLessOnKeys
<1>. QED  BY <1>2, <1>3, <1>4

\* SortedBy, with the keys given by a function.
KeyOrder(s, key) ==
    {p \in (DOMAIN s) \X (DOMAIN s) :
        \/ LexLess(key[s[p[1]]], key[s[p[2]]])
        \/ key[s[p[1]]] = key[s[p[2]]] /\ p[1] < p[2]}
SortedOn(s, key) ==
    [k \in DOMAIN s |-> s[Ordered(DOMAIN s, KeyOrder(s, key))[k]]]

\* Ties are broken by position, which makes the sort stable and its order
\* strict.
LEMMA KeyOrderIsStrict ==
    ASSUME NEW n \in Nat, NEW X, NEW s \in [1..n -> X], NEW key \in [X -> Keys]
    PROVE  StrictOrder(KeyOrder(s, key), DOMAIN s)
<1> DEFINE R == KeyOrder(s, key)
<1>1. DOMAIN s = 1..n /\ \A i \in 1..n : key[s[i]] \in Keys
  OBVIOUS
<1>2. \A i, j \in 1..n : <<i, j>> \in R <=>
        LexLess(key[s[i]], key[s[j]]) \/ (key[s[i]] = key[s[j]] /\ i < j)
  BY <1>1 DEF KeyOrder
<1> HIDE DEF R
<1>3. \A i \in 1..n : <<i, i>> \notin R
  BY <1>1, <1>2, KeysInOrder
<1>4. ASSUME NEW i \in 1..n, NEW j \in 1..n, NEW k \in 1..n,
             <<i, j>> \in R, <<j, k>> \in R
      PROVE  <<i, k>> \in R
  BY <1>1, <1>2, <1>4, KeysInOrder
<1>5. ASSUME NEW i \in 1..n, NEW j \in 1..n, i # j
      PROVE  <<i, j>> \in R \/ <<j, i>> \in R
  BY <1>1, <1>2, <1>5, KeysInOrder
<1>. QED  BY <1>1, <1>3, <1>4, <1>5 DEF StrictOrder, R

\* A sort rearranges the list and leaves no element before a smaller one.
LEMMA SortElements ==
    ASSUME NEW n \in Nat, NEW X, NEW s \in [1..n -> X], NEW key \in [X -> Keys]
    PROVE  /\ SortedOn(s, key) \in [1..n -> X]
           /\ Rearranged(SortedOn(s, key), 1..n, s, 1..n)
           /\ \A j, k \in 1..n : j < k =>
                ~ LexLess(key[SortedOn(s, key)[k]], key[SortedOn(s, key)[j]])
<1> DEFINE R == KeyOrder(s, key)
           o == Ordered(1..n, R)
           u == SortedOn(s, key)
<1>0. DOMAIN s = 1..n /\ IsFiniteSet(1..n) /\ Cardinality(1..n) = n
  BY FS_Interval
<1>1. StrictOrder(R, 1..n)
  BY <1>0, KeyOrderIsStrict
<1>2. \A i, j \in 1..n : <<i, j>> \in R =>
        LexLess(key[s[i]], key[s[j]]) \/ key[s[i]] = key[s[j]]
  BY <1>0 DEF KeyOrder
<1>3. u = [k \in 1..n |-> s[o[k]]]
  BY <1>0 DEF SortedOn
<1> HIDE DEF R, u
<1>4. o \in Bijection(1..n, 1..n) /\ \A j, k \in 1..n : j < k => <<o[j], o[k]>> \in R
  BY <1>0, <1>1, OrderedEnumerates
<1> HIDE DEF o
<1>5. o \in [1..n -> 1..n]
  BY <1>4, BijectionFacts
<1>6. u \in [1..n -> X]
  BY <1>3, <1>5
<1>7. Rearranged(u, 1..n, s, 1..n)
  BY <1>3, <1>4 DEF Rearranged
<1>8. ASSUME NEW j \in 1..n, NEW k \in 1..n, j < k
      PROVE  ~ LexLess(key[u[k]], key[u[j]])
  <2>1. LexLess(key[u[j]], key[u[k]]) \/ key[u[j]] = key[u[k]]
    BY <1>2, <1>3, <1>4, <1>5, <1>8
  <2>2. key[u[j]] \in Keys /\ key[u[k]] \in Keys
    BY <1>6
  <2>. QED  BY <2>1, <2>2, KeysInOrder
<1>. QED  BY <1>6, <1>7, <1>8 DEF u

\* The elements of X whose keys are below that of y, and not above it.
Smaller(X, key, y) == {x \in X : LexLess(key[x], key[y])}
AtMost(X, key, y) == {x \in X : ~ LexLess(key[y], key[x])}

\* The place of an element in a sorted list lies past the smaller ones and
\* within those that are not larger.
LEMMA PlaceInSort ==
    ASSUME NEW n \in Nat, NEW X, NEW u \in [1..n -> X], NEW key \in [X -> Keys],
           \A j, k \in 1..n : j < k => ~ LexLess(key[u[k]], key[u[j]]),
           NEW k \in 1..n
    PROVE  /\ Cardinality(At(u, 1..n, Smaller(X, key, u[k]))) < k
           /\ k <= Cardinality(At(u, 1..n, AtMost(X, key, u[k])))
<1> DEFINE low == At(u, 1..n, Smaller(X, key, u[k]))
           high == At(u, 1..n, AtMost(X, key, u[k]))
<1>0. IsFiniteSet(1..n) /\ IsFiniteSet(1..k) /\ Cardinality(1..k) = k
      /\ IsFiniteSet(1..k - 1) /\ Cardinality(1..k - 1) = k - 1
  BY FS_Interval
<1>1. low \subseteq 1..k - 1
  <2> SUFFICES ASSUME NEW j \in 1..n, LexLess(key[u[j]], key[u[k]])
               PROVE  j < k
    BY DEF At, Smaller
  <2>1. j # k
    BY KeysInOrder
  <2>. QED  BY <2>1
<1>2. 1..k \subseteq high
  <2> SUFFICES ASSUME NEW j \in 1..k  PROVE ~ LexLess(key[u[k]], key[u[j]])
    BY DEF At, AtMost
  <2>1. j = k \/ j < k
    OBVIOUS
  <2>. QED  BY <2>1, KeysInOrder
<1>3. IsFiniteSet(low) /\ IsFiniteSet(high)
  <2>1. low \subseteq 1..n /\ high \subseteq 1..n
    BY DEF At
  <2>. QED  BY <1>0, <2>1, FS_Subset
<1> HIDE DEF low, high
<1>4. Cardinality(low) <= k - 1 /\ k <= Cardinality(high)
  BY <1>0, <1>1, <1>2, <1>3, FS_Subset
<1>5. Cardinality(low) \in Nat /\ Cardinality(high) \in Nat
  BY <1>3, FS_CardinalityType
<1>. QED  BY <1>4, <1>5 DEF low, high

\* Whatever order a list had, a sort puts the same keys at the same places.
LEMMA SortKeepsTheKeys ==
    ASSUME NEW n \in Nat, NEW X, NEW key \in [X -> Keys],
           NEW s \in [1..n -> X], NEW t \in [1..n -> X],
           Rearranged(t, 1..n, s, 1..n)
    PROVE  \A k \in 1..n : key[SortedOn(t, key)[k]] = key[SortedOn(s, key)[k]]
<1> DEFINE u == SortedOn(s, key)
           v == SortedOn(t, key)
           low(w, y) == Cardinality(At(w, 1..n, Smaller(X, key, y)))
           high(w, y) == Cardinality(At(w, 1..n, AtMost(X, key, y)))
<1>0. IsFiniteSet(1..n)
  BY FS_Interval
<1>1. /\ u \in [1..n -> X] /\ Rearranged(u, 1..n, s, 1..n)
      /\ \A j, k \in 1..n : j < k => ~ LexLess(key[u[k]], key[u[j]])
      /\ v \in [1..n -> X] /\ Rearranged(v, 1..n, t, 1..n)
      /\ \A j, k \in 1..n : j < k => ~ LexLess(key[v[k]], key[v[j]])
  BY SortElements
<1> HIDE DEF u, v
<1>2. Rearranged(v, 1..n, s, 1..n)
  BY <1>1, RearrangedTwice
<1>3. Rearranged(s, 1..n, u, 1..n)
  BY <1>1, RearrangedBack
<1>4. Rearranged(v, 1..n, u, 1..n)
  BY <1>2, <1>3, RearrangedTwice
<1>5. \A y : low(v, y) = low(u, y) /\ high(v, y) = high(u, y)
  BY <1>0, <1>4, SameCounts
<1>6. \A k \in 1..n : /\ low(u, u[k]) < k /\ k <= high(u, u[k])
                      /\ low(v, v[k]) < k /\ k <= high(v, v[k])
  BY <1>1, PlaceInSort
<1>7. ASSUME NEW x \in X, NEW y \in X, LexLess(key[x], key[y])
      PROVE  high(u, x) <= low(u, y)
  <2>1. AtMost(X, key, x) \subseteq Smaller(X, key, y)
    <3> SUFFICES ASSUME NEW z \in X, ~ LexLess(key[x], key[z])
                 PROVE  LexLess(key[z], key[y])
      BY DEF AtMost, Smaller
    <3>. QED  BY <1>7, KeysInOrder
  <2>2. At(u, 1..n, AtMost(X, key, x)) \subseteq At(u, 1..n, Smaller(X, key, y))
    BY <2>1 DEF At
  <2>3. At(u, 1..n, Smaller(X, key, y)) \subseteq 1..n
    BY DEF At
  <2>4. IsFiniteSet(At(u, 1..n, Smaller(X, key, y)))
    BY <1>0, <2>3, FS_Subset
  <2>. QED  BY <2>2, <2>4, FS_Subset
<1>8. \A w, y : low(w, y) \in Nat /\ high(w, y) \in Nat
  <2> SUFFICES ASSUME NEW w, NEW Y  PROVE Cardinality(At(w, 1..n, Y)) \in Nat
    OBVIOUS
  <2>1. At(w, 1..n, Y) \subseteq 1..n
    BY DEF At
  <2>. QED  BY <1>0, <2>1, FS_Subset, FS_CardinalityType
<1>9. ASSUME NEW k \in 1..n  PROVE key[v[k]] = key[u[k]]
  <2>0. u[k] \in X /\ v[k] \in X /\ key[u[k]] \in Keys /\ key[v[k]] \in Keys
    BY <1>1
  <2> HIDE DEF low, high
  <2>1. low(u, u[k]) < k /\ k <= high(u, u[k]) /\ low(u, v[k]) < k /\ k <= high(u, v[k])
    BY <1>5, <1>6
  <2>2. ~ LexLess(key[u[k]], key[v[k]]) /\ ~ LexLess(key[v[k]], key[u[k]])
    BY <1>7, <1>8, <2>0, <2>1
  <2>. QED  BY <2>0, <2>2, KeysInOrder
<1>. QED  BY <1>9 DEF u, v

\* What a sort makes of a list does not depend on the order the list had, if
\* its elements can be told apart by their keys.
LEMMA SortForgetsTheOrder ==
    ASSUME NEW n \in Nat, NEW X, NEW key \in [X -> Keys],
           NEW s \in [1..n -> X], NEW t \in [1..n -> X],
           Rearranged(t, 1..n, s, 1..n),
           \A i, j \in 1..n : key[s[i]] = key[s[j]] => s[i] = s[j]
    PROVE  SortedOn(t, key) = SortedOn(s, key)
<1> DEFINE u == SortedOn(s, key)
           v == SortedOn(t, key)
<1>1. /\ u \in [1..n -> X] /\ Rearranged(u, 1..n, s, 1..n)
      /\ v \in [1..n -> X] /\ Rearranged(v, 1..n, t, 1..n)
  BY SortElements
<1>2. \A k \in 1..n : key[v[k]] = key[u[k]]
  BY SortKeepsTheKeys
<1> HIDE DEF u, v
<1>3. Rearranged(v, 1..n, s, 1..n)
  BY <1>1, RearrangedTwice
<1>4. PICK q \in Bijection(1..n, 1..n) : \A m \in 1..n : u[m] = s[q[m]]
  BY <1>1 DEF Rearranged
<1>5. PICK p \in Bijection(1..n, 1..n) : \A m \in 1..n : v[m] = s[p[m]]
  BY <1>3 DEF Rearranged
<1>6. q \in [1..n -> 1..n] /\ p \in [1..n -> 1..n]
  BY BijectionFacts
<1>7. ASSUME NEW k \in 1..n  PROVE v[k] = u[k]
  <2>1. q[k] \in 1..n /\ p[k] \in 1..n /\ key[s[q[k]]] = key[s[p[k]]]
    BY <1>2, <1>4, <1>5, <1>6
  <2>2. s[q[k]] = s[p[k]]
    BY <2>1
  <2>. QED  BY <1>4, <1>5, <2>2
<1>8. v = u
  BY <1>1, <1>7
<1>. QED  BY <1>8 DEF u, v

-----------------------------------------------------------------------------
(* Lists of what an engine emits.                                          *)

\* The numbers of a segment, and of a turn.
Segments(X) == \A x \in X : x.id \in Int /\ x.start \in Int /\ x.end \in Int
Turns(X) == \A x \in X : x.speaker \in Int /\ x.start \in Int /\ x.end \in Int

\* A comprehension makes a list of the same elements.
LEMMA KeptType ==
    ASSUME NEW n \in Nat, NEW X, NEW s \in [1..n -> X], NEW P \in SUBSET (1..n)
    PROVE  /\ Cardinality(P) \in Nat
           /\ Kept(s, P) \in [1..Cardinality(P) -> X]
           /\ Rearranged(Kept(s, P), 1..Cardinality(P), s, P)
<1> DEFINE m == Cardinality(P)
           v == Kept(s, P)
<1>1. m \in Nat /\ v = [k \in 1..m |-> v[k]] /\ Rearranged(v, 1..m, s, P)
  <2>1. m \in 0..n
    BY Positions
  <2>2. v = [k \in 1..m |-> v[k]] /\ Rearranged(v, 1..m, s, P)
    BY KeptElements
  <2>. QED  BY <2>1, <2>2
<1> HIDE DEF m, v
<1>2. PICK q \in Bijection(1..m, P) : \A k \in 1..m : v[k] = s[q[k]]
  BY <1>1 DEF Rearranged
<1>3. q \in [1..m -> P]
  BY BijectionFacts
<1>4. \A k \in 1..m : v[k] \in X
  BY <1>2, <1>3
<1>5. v \in [1..m -> X]
  BY <1>1, <1>4
<1>. QED  BY <1>1, <1>5 DEF m, v

\* Comprehensions with the same condition make rearranged lists of rearranged
\* ones.
LEMMA KeptOfRearranged ==
    ASSUME NEW n \in Nat, NEW X, NEW s \in [1..n -> X], NEW t \in [1..n -> X],
           Rearranged(t, 1..n, s, 1..n), NEW Y
    PROVE  \E m \in Nat :
             /\ Kept(s, At(s, 1..n, Y)) \in [1..m -> X]
             /\ Kept(t, At(t, 1..n, Y)) \in [1..m -> X]
             /\ Rearranged(Kept(t, At(t, 1..n, Y)), 1..m, Kept(s, At(s, 1..n, Y)), 1..m)
<1> DEFINE P == At(s, 1..n, Y)
           Q == At(t, 1..n, Y)
           m == Cardinality(P)
<1>1. P \in SUBSET (1..n) /\ Q \in SUBSET (1..n)
  BY DEF At
<1>2. Rearranged(t, Q, s, P)
  BY RearrangedParts
<1>3. Cardinality(Q) = m
  BY SameCounts, FS_Interval
<1> HIDE DEF P, Q
<1>4. m \in Nat /\ Kept(s, P) \in [1..m -> X] /\ Rearranged(Kept(s, P), 1..m, s, P)
  BY <1>1, KeptType
<1>5. Kept(t, Q) \in [1..m -> X] /\ Rearranged(Kept(t, Q), 1..m, t, Q)
  BY <1>1, <1>3, KeptType
<1>6. Rearranged(s, P, Kept(s, P), 1..m)
  BY <1>4, RearrangedBack
<1>7. Rearranged(t, Q, Kept(s, P), 1..m)
  BY <1>2, <1>6, RearrangedTwice
<1>8. Rearranged(Kept(t, Q), 1..m, Kept(s, P), 1..m)
  BY <1>5, <1>7, RearrangedTwice
<1>. QED  BY <1>4, <1>5, <1>8 DEF P, Q

\* Whether ids are consistent does not depend on the order of the segments.
LEMMA ConsistentIdsOfRearranged ==
    ASSUME NEW n \in Nat, NEW X, NEW s \in [1..n -> X], NEW t \in [1..n -> X],
           Rearranged(t, 1..n, s, 1..n), ConsistentIds(s)
    PROVE  ConsistentIds(t)
<1>1. PICK q \in Bijection(1..n, 1..n) : \A k \in 1..n : t[k] = s[q[k]]
  BY DEF Rearranged
<1>2. q \in [1..n -> 1..n] /\ \A x, y \in 1..n : q[x] = q[y] => x = y
  BY BijectionFacts
<1>3. DOMAIN s = 1..n /\ DOMAIN t = 1..n
  OBVIOUS
<1>4. \A i \in 1..n : t[i].id >= 0
  BY <1>1, <1>2, <1>3 DEF ConsistentIds
<1>5. ASSUME NEW i \in 1..n, NEW j \in 1..n, i # j  PROVE t[i].id # t[j].id
  <2>1. q[i] # q[j] /\ q[i] \in 1..n /\ q[j] \in 1..n
    BY <1>2, <1>5
  <2>2. s[q[i]].id # s[q[j]].id
    BY <1>3, <2>1 DEF ConsistentIds
  <2>. QED  BY <1>1, <2>2
<1>. QED  BY <1>3, <1>4, <1>5 DEF ConsistentIds

\* The keys, as functions.
IdKey(X) == [x \in X |-> ById(x)]
TimeKey(X) == [x \in X |-> ByTime(x)]
TurnKey(X) == [x \in X |-> ByTurn(x)]

\* The sorts of the adapters are sorts on these keys.
LEMMA SortIsOnAKey ==
    ASSUME NEW n \in Nat, NEW X, NEW s \in [1..n -> X]
    PROVE  /\ SortedBy(s, ById) = SortedOn(s, IdKey(X))
           /\ SortedBy(s, ByTime) = SortedOn(s, TimeKey(X))
           /\ SortedBy(s, ByTurn) = SortedOn(s, TurnKey(X))
<1>0. DOMAIN s = 1..n /\ \A i \in 1..n : s[i] \in X
  OBVIOUS
<1>1. {p \in (DOMAIN s) \X (DOMAIN s) : Precedes(s, ById, p[1], p[2])}
        = KeyOrder(s, IdKey(X))
  BY <1>0 DEF Precedes, KeyOrder, IdKey
<1>2. {p \in (DOMAIN s) \X (DOMAIN s) : Precedes(s, ByTime, p[1], p[2])}
        = KeyOrder(s, TimeKey(X))
  BY <1>0 DEF Precedes, KeyOrder, TimeKey
<1>3. {p \in (DOMAIN s) \X (DOMAIN s) : Precedes(s, ByTurn, p[1], p[2])}
        = KeyOrder(s, TurnKey(X))
  BY <1>0 DEF Precedes, KeyOrder, TurnKey
<1>4. SortedBy(s, ById) = SortedOn(s, IdKey(X))
  BY <1>1 DEF SortedBy, SortedOn
<1>5. SortedBy(s, ByTime) = SortedOn(s, TimeKey(X))
  BY <1>2 DEF SortedBy, SortedOn
<1>6. SortedBy(s, ByTurn) = SortedOn(s, TurnKey(X))
  BY <1>3 DEF SortedBy, SortedOn
<1>. QED  BY <1>4, <1>5, <1>6

\* Keys are triples of numbers.
LEMMA KeyTypes ==
    /\ \A X : Segments(X) => IdKey(X) \in [X -> Keys] /\ TimeKey(X) \in [X -> Keys]
    /\ \A X : Turns(X) => TurnKey(X) \in [X -> Keys]
BY DEF Segments, Turns, IdKey, TimeKey, TurnKey, ById, ByTime, ByTurn, Keys

\* _sort_segments rearranges the segments, and follows the clock unless their
\* ids are consistent.
LEMMA SortedSegments ==
    ASSUME NEW n \in Nat, NEW X, Segments(X), NEW s \in [1..n -> X]
    PROVE  /\ SortSegments(s) \in [1..n -> X]
           /\ Rearranged(SortSegments(s), 1..n, s, 1..n)
           /\ ~ ConsistentIds(SortSegments(s)) =>
                \A j, k \in 1..n :
                    j < k => SortSegments(s)[j].start <= SortSegments(s)[k].start
<1> DEFINE u == SortSegments(s)
<1>0. IdKey(X) \in [X -> Keys] /\ TimeKey(X) \in [X -> Keys]
  BY KeyTypes
<1>1. CASE ConsistentIds(s)
  <2>1. u = SortedOn(s, IdKey(X))
    BY <1>1, SortIsOnAKey DEF SortSegments
  <2> HIDE DEF u
  <2>2. u \in [1..n -> X] /\ Rearranged(u, 1..n, s, 1..n)
    BY <1>0, <2>1, SortElements
  <2>3. ConsistentIds(u)
    BY <1>1, <2>2, ConsistentIdsOfRearranged
  <2>. QED  BY <2>2, <2>3 DEF u
<1>2. CASE ~ ConsistentIds(s)
  <2>1. u = SortedOn(s, TimeKey(X))
    BY <1>2, SortIsOnAKey DEF SortSegments
  <2> HIDE DEF u
  <2>2. /\ u \in [1..n -> X] /\ Rearranged(u, 1..n, s, 1..n)
        /\ \A j, k \in 1..n : j < k => ~ LexLess(TimeKey(X)[u[k]], TimeKey(X)[u[j]])
    BY <1>0, <2>1, SortElements
  <2>3. ASSUME NEW j \in 1..n, NEW k \in 1..n, j < k
        PROVE  u[j].start <= u[k].start
    <3>1. u[j] \in X /\ u[k] \in X
      BY <2>2
    <3>2. u[j].start \in Int /\ u[k].start \in Int
      BY <3>1 DEF Segments
    <3>3. TimeKey(X)[u[j]] \in Keys /\ TimeKey(X)[u[k]] \in Keys
      BY <1>0, <3>1
    <3>4. TimeKey(X)[u[j]][1] = u[j].start /\ TimeKey(X)[u[k]][1] = u[k].start
      BY <3>1 DEF TimeKey, ByTime
    <3>5. ~ TimeKey(X)[u[k]][1] < TimeKey(X)[u[j]][1]
      BY <2>2, <2>3, <3>3, LexLessOnKeys
    <3>. QED  BY <3>2, <3>4, <3>5
  <2>. QED  BY <2>2, <2>3 DEF u
<1>. QED  BY <1>1, <1>2

\* _sort_segments puts the same ids and times at the same places, whatever the
\* order of the segments it is given.
LEMMA SortSegmentsKeepsTheKeys ==
    ASSUME NEW n \in Nat, NEW X, Segments(X),
           NEW s \in [1..n -> X], NEW t \in [1..n -> X],
           Rearranged(t, 1..n, s, 1..n)
    PROVE  \A k \in 1..n : ById(SortSegments(t)[k]) = ById(SortSegments(s)[k])
<1>0. IdKey(X) \in [X -> Keys] /\ TimeKey(X) \in [X -> Keys]
  BY KeyTypes
<1>1. Rearranged(s, 1..n, t, 1..n)
  BY RearrangedBack
<1>2. ConsistentIds(t) <=> ConsistentIds(s)
  BY <1>1, ConsistentIdsOfRearranged
<1>3. SortSegments(s) \in [1..n -> X] /\ SortSegments(t) \in [1..n -> X]
  BY SortedSegments
<1>4. CASE ConsistentIds(s)
  <2>1. SortSegments(s) = SortedOn(s, IdKey(X)) /\ SortSegments(t) = SortedOn(t, IdKey(X))
    BY <1>2, <1>4, SortIsOnAKey DEF SortSegments
  <2>2. \A k \in 1..n : IdKey(X)[SortSegments(t)[k]] = IdKey(X)[SortSegments(s)[k]]
    BY <1>0, <2>1, SortKeepsTheKeys
  <2>. QED  BY <1>3, <2>2 DEF IdKey
<1>5. CASE ~ ConsistentIds(s)
  <2>1. SortSegments(s) = SortedOn(s, TimeKey(X)) /\ SortSegments(t) = SortedOn(t, TimeKey(X))
    BY <1>2, <1>5, SortIsOnAKey DEF SortSegments
  <2>2. \A k \in 1..n : TimeKey(X)[SortSegments(t)[k]] = TimeKey(X)[SortSegments(s)[k]]
    BY <1>0, <2>1, SortKeepsTheKeys
  <2>. QED  BY <1>3, <2>2 DEF TimeKey, ByTime, ById
<1>. QED  BY <1>4, <1>5

\* It gives the same list if the segments can be told apart by ids and times.
LEMMA SortSegmentsForgetsTheOrder ==
    ASSUME NEW n \in Nat, NEW X, Segments(X),
           NEW s \in [1..n -> X], NEW t \in [1..n -> X],
           Rearranged(t, 1..n, s, 1..n),
           \A i, j \in 1..n : ById(s[i]) = ById(s[j]) => s[i] = s[j]
    PROVE  SortSegments(t) = SortSegments(s)
<1>0. IdKey(X) \in [X -> Keys] /\ TimeKey(X) \in [X -> Keys]
  BY KeyTypes
<1>1. Rearranged(s, 1..n, t, 1..n)
  BY RearrangedBack
<1>2. ConsistentIds(t) <=> ConsistentIds(s)
  BY <1>1, ConsistentIdsOfRearranged
<1>3. SortedOn(t, IdKey(X)) = SortedOn(s, IdKey(X))
  <2>1. \A i, j \in 1..n : IdKey(X)[s[i]] = IdKey(X)[s[j]] => s[i] = s[j]
    BY DEF IdKey
  <2>. QED  BY <1>0, <2>1, SortForgetsTheOrder
<1>4. SortedOn(t, TimeKey(X)) = SortedOn(s, TimeKey(X))
  <2>1. \A i, j \in 1..n : TimeKey(X)[s[i]] = TimeKey(X)[s[j]] => s[i] = s[j]
    BY DEF TimeKey, ByTime, ById
  <2>. QED  BY <1>0, <2>1, SortForgetsTheOrder
<1>. QED  BY <1>2, <1>3, <1>4, SortIsOnAKey DEF SortSegments

\* Nor does that of diarization.py.
LEMMA SortTurnsForgetsTheOrder ==
    ASSUME NEW n \in Nat, NEW X, Turns(X),
           NEW s \in [1..n -> X], NEW t \in [1..n -> X],
           Rearranged(t, 1..n, s, 1..n),
           \A i, j \in 1..n : ByTurn(s[i]) = ByTurn(s[j]) => s[i] = s[j]
    PROVE  SortTurns(t) = SortTurns(s)
<1>1. TurnKey(X) \in [X -> Keys]
  BY KeyTypes
<1>2. \A i, j \in 1..n : TurnKey(X)[s[i]] = TurnKey(X)[s[j]] => s[i] = s[j]
  BY DEF TurnKey
<1>3. SortedOn(t, TurnKey(X)) = SortedOn(s, TurnKey(X))
  BY <1>1, <1>2, SortForgetsTheOrder
<1>. QED  BY <1>3, SortIsOnAKey DEF SortTurns

-----------------------------------------------------------------------------
(* What the adapters return.                                               *)

\* Well-formed segments and turns are kept by a condition on elements.
LEMMA WhatIsValid ==
    ASSUME NEW n \in Nat, NEW X, NEW s \in [1..n -> X]
    PROVE  /\ ValidSegments(s) = Kept(s, At(s, 1..n, {x \in X : IsValidSegment(x)}))
           /\ ValidTurns(s) = Kept(s, At(s, 1..n, {x \in X : IsValidTurn(x)}))
<1>0. DOMAIN s = 1..n /\ \A i \in 1..n : s[i] \in X
  OBVIOUS
<1>1. {i \in DOMAIN s : IsValidSegment(s[i])} = At(s, 1..n, {x \in X : IsValidSegment(x)})
  BY <1>0 DEF At
<1>2. {i \in DOMAIN s : IsValidTurn(s[i])} = At(s, 1..n, {x \in X : IsValidTurn(x)})
  BY <1>0 DEF At
<1>. QED  BY <1>1, <1>2 DEF ValidSegments, ValidTurns

\* The transcript is made of the well-formed segments, and follows the clock
\* unless their ids are consistent.
LEMMA TranscriptOfSegments ==
    ASSUME NEW n \in Nat, NEW X, Segments(X), NEW s \in [1..n -> X]
    PROVE  \E m \in Nat :
             /\ SortSegments(ValidSegments(s)) \in [1..m -> X]
             /\ Rearranged(SortSegments(ValidSegments(s)), 1..m,
                           s, At(s, 1..n, {x \in X : IsValidSegment(x)}))
             /\ ~ ConsistentIds(SortSegments(ValidSegments(s))) =>
                  \A j, k \in 1..m : j < k =>
                    SortSegments(ValidSegments(s))[j].start
                      <= SortSegments(ValidSegments(s))[k].start
<1> DEFINE P == At(s, 1..n, {x \in X : IsValidSegment(x)})
           m == Cardinality(P)
           v == ValidSegments(s)
<1>0. v = Kept(s, P)
  BY WhatIsValid
<1>1. P \in SUBSET (1..n) /\ v = Kept(s, P)
  BY <1>0 DEF At
<1> HIDE DEF P, v
<1>2. m \in Nat /\ v \in [1..m -> X] /\ Rearranged(v, 1..m, s, P)
  BY <1>1, KeptType
<1> HIDE DEF m
<1>3. /\ SortSegments(v) \in [1..m -> X]
      /\ Rearranged(SortSegments(v), 1..m, v, 1..m)
      /\ ~ ConsistentIds(SortSegments(v)) =>
           \A j, k \in 1..m : j < k => SortSegments(v)[j].start <= SortSegments(v)[k].start
  BY <1>2, SortedSegments
<1>4. Rearranged(SortSegments(v), 1..m, s, P)
  BY <1>2, <1>3, RearrangedTwice
<1>. QED  BY <1>2, <1>3, <1>4 DEF P, v

\* Rearranged output of the ASR engine gives transcripts that agree in ids and
\* times, place by place.
LEMMA SameKeysInTranscript ==
    ASSUME NEW n \in Nat, NEW X, Segments(X),
           NEW s \in [1..n -> X], NEW t \in [1..n -> X],
           Rearranged(t, 1..n, s, 1..n)
    PROVE  \E m \in Nat :
             /\ SortSegments(ValidSegments(s)) \in [1..m -> X]
             /\ SortSegments(ValidSegments(t)) \in [1..m -> X]
             /\ \A k \in 1..m : ById(SortSegments(ValidSegments(t))[k])
                                  = ById(SortSegments(ValidSegments(s))[k])
<1> DEFINE Y == {x \in X : IsValidSegment(x)}
           v == Kept(s, At(s, 1..n, Y))
           w == Kept(t, At(t, 1..n, Y))
<1>0. ValidSegments(s) = v /\ ValidSegments(t) = w
  BY WhatIsValid
<1> HIDE DEF Y
<1>1. PICK m \in Nat : /\ v \in [1..m -> X] /\ w \in [1..m -> X]
                       /\ Rearranged(w, 1..m, v, 1..m)
  BY KeptOfRearranged
<1> HIDE DEF v, w
<1>2. SortSegments(v) \in [1..m -> X] /\ SortSegments(w) \in [1..m -> X]
  BY <1>1, SortedSegments
<1>3. \A k \in 1..m : ById(SortSegments(w)[k]) = ById(SortSegments(v)[k])
  BY <1>1, SortSegmentsKeepsTheKeys
<1>. QED  BY <1>0, <1>1, <1>2, <1>3

\* Rearranged output of the ASR engine gives the same transcript, if no two
\* of its segments that differ have the same key.
LEMMA SameTranscript ==
    ASSUME NEW n \in Nat, NEW X, Segments(X),
           NEW s \in [1..n -> X], NEW t \in [1..n -> X],
           Rearranged(t, 1..n, s, 1..n),
           \A i, j \in 1..n : ById(s[i]) = ById(s[j]) => s[i] = s[j]
    PROVE  SortSegments(ValidSegments(t)) = SortSegments(ValidSegments(s))
<1> DEFINE Y == {x \in X : IsValidSegment(x)}
           P == At(s, 1..n, Y)
           v == Kept(s, P)
           w == Kept(t, At(t, 1..n, Y))
<1>0. ValidSegments(s) = v /\ ValidSegments(t) = w
  BY WhatIsValid
<1> HIDE DEF Y
<1>1. PICK m \in Nat : /\ v \in [1..m -> X] /\ w \in [1..m -> X]
                       /\ Rearranged(w, 1..m, v, 1..m)
  BY KeptOfRearranged
<1>2. P \in SUBSET (1..n)
  BY DEF At
<1> HIDE DEF P
<1>3. DOMAIN v = 1..Cardinality(P) /\ Rearranged(v, 1..Cardinality(P), s, P)
  BY <1>2, KeptElements
<1> HIDE DEF v, w
<1>4. 1..Cardinality(P) = 1..m
  BY <1>1, <1>3
<1>5. PICK q \in Bijection(1..m, P) : \A k \in 1..m : v[k] = s[q[k]]
  BY <1>3, <1>4 DEF Rearranged
<1>6. q \in [1..m -> P]
  BY BijectionFacts
<1>7. \A i, j \in 1..m : ById(v[i]) = ById(v[j]) => v[i] = v[j]
  <2> SUFFICES ASSUME NEW i \in 1..m, NEW j \in 1..m, ById(v[i]) = ById(v[j])
               PROVE  v[i] = v[j]
    OBVIOUS
  <2>1. q[i] \in 1..n /\ q[j] \in 1..n
    BY <1>2, <1>6
  <2>2. ById(s[q[i]]) = ById(s[q[j]])
    BY <1>5
  <2>3. s[q[i]] = s[q[j]]
    BY <2>1, <2>2
  <2>. QED  BY <1>5, <2>3
<1>8. SortSegments(w) = SortSegments(v)
  BY <1>1, <1>7, SortSegmentsForgetsTheOrder
<1>. QED  BY <1>0, <1>8

\* A turn is its times and its speaker.
TurnsToldApart(X) ==
    \A x, y \in X :
        IsValidTurn(x) /\ IsValidTurn(y) /\ ByTurn(x) = ByTurn(y) => x = y

\* Rearranged output of the diarization pipeline gives the same turns.
LEMMA SameTurns ==
    ASSUME NEW n \in Nat, NEW X, Turns(X),
           NEW s \in [1..n -> X], NEW t \in [1..n -> X],
           Rearranged(t, 1..n, s, 1..n),
           TurnsToldApart(X)
    PROVE  SpeakerTurns(t) = SpeakerTurns(s)
<1> DEFINE Y == {x \in X : IsValidTurn(x)}
           P == At(s, 1..n, Y)
           v == Kept(s, P)
           w == Kept(t, At(t, 1..n, Y))
<1>0. ValidTurns(s) = v /\ ValidTurns(t) = w
  BY WhatIsValid
<1>1. \A x, y \in Y : ByTurn(x) = ByTurn(y) => x = y
  BY DEF TurnsToldApart
<1> HIDE DEF Y
<1>2. PICK m \in Nat : /\ v \in [1..m -> X] /\ w \in [1..m -> X]
                       /\ Rearranged(w, 1..m, v, 1..m)
  BY KeptOfRearranged
<1>3. P \in SUBSET (1..n) /\ \A i \in P : s[i] \in Y
  BY DEF At
<1> HIDE DEF P
<1>4. DOMAIN v = 1..Cardinality(P) /\ Rearranged(v, 1..Cardinality(P), s, P)
  BY <1>3, KeptElements
<1> HIDE DEF v, w
<1>5. 1..Cardinality(P) = 1..m
  BY <1>2, <1>4
<1>6. PICK q \in Bijection(1..m, P) : \A k \in 1..m : v[k] = s[q[k]]
  BY <1>4, <1>5 DEF Rearranged
<1>7. q \in [1..m -> P]
  BY BijectionFacts
<1>8. \A k \in 1..m : v[k] \in Y
  BY <1>3, <1>6, <1>7
<1>9. \A i, j \in 1..m : ByTurn(v[i]) = ByTurn(v[j]) => v[i] = v[j]
  BY <1>1, <1>8
<1>10. SortTurns(w) = SortTurns(v)
  BY <1>2, <1>9, SortTurnsForgetsTheOrder
<1>. QED  BY <1>0, <1>10 DEF SpeakerTurns
=============================================================================
