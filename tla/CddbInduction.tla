---------------------------- MODULE CddbInduction ----------------------------
(***************************************************************************)
(* Induction and recursion over the natural numbers, with sets and         *)
(* functions in the place of predicates and operators: what is needed to   *)
(* prove what the loops of the library compute (chains of tracks, sums of  *)
(* digits, powers of two, the matches of a page) for data of any length.   *)
(***************************************************************************)
EXTENDS Integers, WellFoundedInduction, TLAPS

\* Every set of natural numbers that is not empty has a least element.
LEMMA LeastNatural ==
  ASSUME NEW S \in SUBSET Nat, S # {}
  PROVE  \E n \in S : \A m \in S : n <= m
<1> DEFINE R == {p \in Nat \X Nat : p[1] < p[2]}
<1>1. IsWellFoundedOn(R, Nat)
  <2>1. OpToRel(<, Nat) = R
    BY DEF OpToRel
  <2> QED
    BY <2>1, NatLessThanWellFounded
<1>2. \A m, n \in Nat : m < n => <<m, n>> \in R
  OBVIOUS
<1> HIDE DEF R
<1>3. PICK n \in S : \A m \in S : <<m, n>> \notin R
  <2>1. S \subseteq Nat
    OBVIOUS
  <2> QED
    BY <1>1, <2>1, WFMin
<1>4. ASSUME NEW m \in S PROVE n <= m
  <2>1. m \in Nat /\ n \in Nat /\ ~(m < n)
    BY <1>2, <1>3
  <2> QED
    BY <2>1
<1> QED
  BY <1>4

\* A set that holds 0 and with each number the next one holds all natural numbers.
LEMMA NatSetInduction ==
  ASSUME NEW S, 0 \in S, \A n \in Nat : n \in S => n + 1 \in S
  PROVE  Nat \subseteq S
<1> SUFFICES ASSUME NEW x \in Nat \ S PROVE FALSE
  OBVIOUS
<1>1. PICK n \in Nat \ S : \A m \in Nat \ S : n <= m
  BY LeastNatural, Nat \ S \in SUBSET Nat
<1>2. n # 0 /\ n - 1 \in Nat /\ n - 1 \in S
  BY <1>1
<1>3. (n - 1) + 1 \in S
  BY <1>2
<1> QED
  BY <1>1, <1>3

\* h goes down.
Descends(h) == h \in [Nat \ {0} -> Nat] /\ \A n \in Nat \ {0} : h[n] < n

\* f begins with a, and up to n its value at m > 0 is what G makes of m and of the value
\* at h[m].
Recurs(f, n, a, h, G) == f[0] = a /\ \A m \in 1..n : f[m] = G[<<m, f[h[m]]>>]

\* Two functions that recur in the same way have the same values.
LEMMA RecursionAgrees ==
  ASSUME NEW h, Descends(h),
         NEW a, NEW G, NEW j \in Nat, NEW k \in Nat, NEW f, NEW g,
         Recurs(f, j, a, h, G), Recurs(g, k, a, h, G),
         NEW n \in Nat, n <= j, n <= k
  PROVE  f[n] = g[n]
<1> DEFINE S == {m \in Nat : m <= n /\ f[m] # g[m]}
<1>1. SUFFICES ASSUME S # {} PROVE FALSE
  OBVIOUS
<1>2. PICK m \in S : \A i \in S : m <= i
  BY <1>1, LeastNatural, S \in SUBSET Nat
<1>3. m \in Nat /\ m <= n /\ f[m] # g[m]
  BY <1>2
<1>4. m # 0
  BY <1>3 DEF Recurs
<1>5. h[m] \in Nat /\ h[m] < m /\ m \in 1..j /\ m \in 1..k
  BY <1>3, <1>4 DEF Descends
<1>6. f[h[m]] = g[h[m]]
  BY <1>2, <1>3, <1>5
<1>7. f[m] = G[<<m, f[h[m]]>>] /\ g[m] = G[<<m, g[h[m]]>>]
  BY <1>5 DEF Recurs
<1> QED
  BY <1>3, <1>6, <1>7

\* Up to any number there is such a function.
LEMMA RecursionBounded ==
  ASSUME NEW h, Descends(h),
         NEW A, NEW a \in A, NEW G \in [Nat \X A -> A]
  PROVE  \A n \in Nat : \E f \in [0..n -> A] : Recurs(f, n, a, h, G)
<1> DEFINE S == {n \in Nat : \E f \in [0..n -> A] : Recurs(f, n, a, h, G)}
<1>1. 0 \in S
  <2> DEFINE f == [i \in 0..0 |-> a]
  <2>1. f \in [0..0 -> A] /\ Recurs(f, 0, a, h, G)
    BY DEF Recurs
  <2> QED
    BY <2>1
<1>2. ASSUME NEW n \in Nat, n \in S PROVE n + 1 \in S
  <2>1. PICK f \in [0..n -> A] : Recurs(f, n, a, h, G)
    BY <1>2
  <2>2. h[n + 1] \in 0..n
    <3>1. n + 1 \in Nat \ {0}
      OBVIOUS
    <3>2. h[n + 1] \in Nat /\ h[n + 1] < n + 1
      BY <3>1 DEF Descends
    <3> QED
      BY <3>2
  <2> DEFINE v == G[<<n + 1, f[h[n + 1]]>>]
             g == [i \in 0..(n + 1) |-> IF i = n + 1 THEN v ELSE f[i]]
  <2>3. v \in A
    BY <2>2
  <2> HIDE DEF v
  <2>4. g \in [0..(n + 1) -> A] /\ g[0] = a /\ g[n + 1] = v /\ \A i \in 0..n : g[i] = f[i]
    <3>1. f[0] = a
      BY <2>1 DEF Recurs
    <3>2. n + 1 # 0 /\ 0 \in 0..(n + 1) /\ n + 1 \in 0..(n + 1)
          /\ \A i \in 0..n : i \in 0..(n + 1) /\ i # n + 1
      OBVIOUS
    <3> QED
      BY <2>1, <2>3, <3>1, <3>2
  <2> HIDE DEF g
  <2> USE DEF v
  <2>5. ASSUME NEW m \in 1..(n + 1) PROVE g[m] = G[<<m, g[h[m]]>>]
    <3>1. CASE m = n + 1
      BY <2>2, <2>4, <3>1
    <3>2. CASE m \in 1..n
      <4>1. m \in Nat \ {0} /\ h[m] \in Nat /\ h[m] < m
        BY <3>2 DEF Descends
      <4>2. h[m] \in 0..n /\ m \in 0..n
        BY <3>2, <4>1
      <4> QED
        BY <2>1, <2>4, <3>2, <4>2 DEF Recurs
    <3> QED
      BY <3>1, <3>2
  <2>6. Recurs(g, n + 1, a, h, G)
    BY <2>4, <2>5 DEF Recurs
  <2> QED
    BY <2>4, <2>6
<1> HIDE DEF S
<1>3. Nat \subseteq S
  BY <1>1, <1>2, NatSetInduction
<1> QED
  BY <1>3 DEF S

\* f recurs along h everywhere.
RecursOn(f, a, h, G) == f[0] = a /\ \A n \in Nat \ {0} : f[n] = G[<<n, f[h[n]]>>]

\* A function that is defined by recursion exists.
LEMMA RecursionExists ==
  ASSUME NEW h, Descends(h), NEW A, NEW a \in A, NEW G \in [Nat \X A -> A]
  PROVE  \E f \in [Nat -> A] : RecursOn(f, a, h, G)
<1> DEFINE H == [n \in Nat |-> CHOOSE f \in [0..n -> A] : Recurs(f, n, a, h, G)]
           r == [n \in Nat |-> H[n][n]]
<1>1. \A n \in Nat : H[n] \in [0..n -> A] /\ Recurs(H[n], n, a, h, G)
  BY RecursionBounded
<1> HIDE DEF H
<1>2. r \in [Nat -> A]
  BY <1>1
<1>3. r[0] = a
  BY <1>1 DEF Recurs
<1>4. ASSUME NEW n \in Nat \ {0} PROVE r[n] = G[<<n, r[h[n]]>>]
  <2>1. h[n] \in Nat /\ h[n] < n /\ h[n] <= n /\ n \in 1..n /\ h[n] <= h[n]
    BY DEF Descends
  <2>2. H[n][h[n]] = H[h[n]][h[n]]
    <3> DEFINE k == h[n]
               f == H[n]
               g == H[k]
    <3>1. k \in Nat /\ k <= n /\ k <= k /\ n \in Nat
      BY <2>1
    <3>2. Recurs(f, n, a, h, G) /\ Recurs(g, k, a, h, G)
      BY <1>1, <3>1
    <3> HIDE DEF k, f, g
    <3>3. f[k] = g[k]
      BY <3>1, <3>2, RecursionAgrees
    <3> QED
      BY <3>3 DEF k, f, g
  <2>3. H[n][n] = G[<<n, H[n][h[n]]>>]
    BY <1>1, <2>1 DEF Recurs
  <2> QED
    BY <2>1, <2>2, <2>3
<1> QED
  BY <1>2, <1>3, <1>4 DEF RecursOn

=============================================================================
