--------------------------- MODULE RecursionLemmas ---------------------------
(***************************************************************************)
(* Induction over the naturals, and the existence of functions defined by  *)
(* recursion, in the first-order form that the proofs of this project use: *)
(* sets and functions take the place of the operator parameters.           *)
(***************************************************************************)
EXTENDS Integers, WellFoundedInduction, TLAPS

\* A set of naturals has a least element: the least counterexample of a claim.
LEMMA LeastElement ==
  ASSUME NEW T \in SUBSET Nat, T # {}
  PROVE  \E x \in T : \A y \in T : x <= y
<1> DEFINE R == OpToRel(<, Nat)
<1>1. IsWellFoundedOn(R, Nat)
  BY NatLessThanWellFounded
<1> HIDE DEF R
<1>2. PICK x \in T : \A y \in T : ~(<< y, x >> \in R)
  BY <1>1, WFMin
<1>3. \A y \in T : ~(y < x)
  BY <1>2 DEF R, OpToRel
<1>4. QED
  BY <1>3

(***************************************************************************)
(* F takes a function and an argument to a value in V, and looks the       *)
(* function up only above that argument.                                   *)
(***************************************************************************)
LooksAbove(F, N, V) ==
  /\ \A g \in [0 .. N -> V], n \in 0 .. N : F[g][n] \in V
  /\ \A g, h \in [0 .. N -> V], n \in 0 .. N :
       (\A k \in n + 1 .. N : g[k] = h[k]) => F[g][n] = F[h][n]

Solves(f, F, N, V) == f \in [0 .. N -> V] /\ \A n \in 0 .. N : f[n] = F[f][n]

\* The recursion f[n] = F[f][n] has a solution, found from the top down.
LEMMA RecursionFromAbove ==
  ASSUME NEW N \in Nat, NEW V, V # {}, NEW F, LooksAbove(F, N, V)
  PROVE  \E f : Solves(f, F, N, V)
<1> USE DEF LooksAbove, Solves
<1> DEFINE Upto(m) == \E f \in [0 .. N -> V] :
                        \A n \in 0 .. N : n + m > N => f[n] = F[f][n]
           T == {m \in 0 .. N + 1 : ~Upto(m)}
<1>1. Upto(0)
  <2>1. PICK v \in V : TRUE
    OBVIOUS
  <2>2. [n \in 0 .. N |-> v] \in [0 .. N -> V]
    OBVIOUS
  <2>3. \A n \in 0 .. N : ~(n + 0 > N)
    OBVIOUS
  <2>4. QED
    BY <2>2, <2>3
<1>2. ASSUME NEW m \in 0 .. N, Upto(m) PROVE Upto(m + 1)
  <2>1. PICK f \in [0 .. N -> V] : \A n \in 0 .. N : n + m > N => f[n] = F[f][n]
    BY <1>2
  <2> DEFINE a == N - m
             h == [f EXCEPT ![a] = F[f][a]]
  <2>2. a \in 0 .. N /\ F[f][a] \in V
    OBVIOUS
  <2>3. h \in [0 .. N -> V] /\ h[a] = F[f][a] /\ \A n \in 0 .. N : n # a => h[n] = f[n]
    BY <2>2
  <2> HIDE DEF h
  <2>4. ASSUME NEW n \in 0 .. N, n + (m + 1) > N PROVE h[n] = F[h][n]
    <3>1. \A k \in n + 1 .. N : h[k] = f[k]
      BY <2>3, <2>4
    <3>2. F[h][n] = F[f][n]
      BY <2>3, <3>1
    <3>3. CASE n = a
      BY <2>3, <3>2, <3>3
    <3>4. CASE n # a
      BY <2>1, <2>3, <2>4, <3>2, <3>4
    <3>5. QED
      BY <3>3, <3>4
  <2>5. QED
    BY <2>3, <2>4
<1> HIDE DEF Upto
<1>3. T = {}
  <2> SUFFICES ASSUME T # {} PROVE FALSE
    OBVIOUS
  <2>1. T \in SUBSET Nat
    OBVIOUS
  <2> HIDE DEF T
  <2>2. PICK m \in T : \A k \in T : m <= k
    BY <2>1, LeastElement
  <2> USE DEF T
  <2>3. m # 0 /\ m - 1 \in 0 .. N /\ m - 1 \notin T
    BY <1>1, <2>2
  <2>4. Upto(m - 1)
    BY <2>3
  <2>5. Upto(m)
    BY <1>2, <2>3, <2>4
  <2>6. QED
    BY <2>2, <2>5
<1>4. Upto(N + 1)
  BY <1>3
<1>5. QED
  BY <1>4 DEF Upto

\* What holds of n when it holds of all above n holds of all of 0 .. N.
LEMMA InductionFromAbove ==
  ASSUME NEW N \in Nat, NEW G,
         \A n \in 0 .. N : (\A k \in n + 1 .. N : k \in G) => n \in G
  PROVE  \A n \in 0 .. N : n \in G
<1> DEFINE T == {m \in 0 .. N : N - m \notin G}
<1>1. T = {}
  <2> SUFFICES ASSUME T # {} PROVE FALSE
    OBVIOUS
  <2>1. T \in SUBSET Nat
    OBVIOUS
  <2> HIDE DEF T
  <2>2. PICK m \in T : \A k \in T : m <= k
    BY <2>1, LeastElement
  <2>3. m \in 0 .. N /\ N - m \in 0 .. N /\ N - m \notin G
    BY <2>2 DEF T
  <2>4. \A k \in (N - m) + 1 .. N : k \in G
    <3> SUFFICES ASSUME NEW k \in (N - m) + 1 .. N, k \notin G PROVE FALSE
      OBVIOUS
    <3>1. N - k \in 0 .. N /\ N - (N - k) = k /\ N - k < m
      BY <2>3
    <3>2. N - k \in T
      BY <3>1 DEF T
    <3>3. QED
      BY <2>2, <2>3, <3>1, <3>2
  <2>5. QED
    BY <2>3, <2>4
<1>2. ASSUME NEW n \in 0 .. N PROVE n \in G
  <2>1. N - n \in 0 .. N /\ N - (N - n) = n
    OBVIOUS
  <2>2. QED
    BY <1>1, <2>1
<1>3. QED
  BY <1>2

(***************************************************************************)
(* F looks the function up only below its argument.                        *)
(***************************************************************************)
LooksBelow(F, N, V) ==
  /\ \A g \in [0 .. N -> V], n \in 0 .. N : F[g][n] \in V
  /\ \A g, h \in [0 .. N -> V], n \in 0 .. N :
       (\A k \in 0 .. n - 1 : g[k] = h[k]) => F[g][n] = F[h][n]

\* The recursion f[n] = F[f][n] has a solution, found from the bottom up.
LEMMA RecursionFromBelow ==
  ASSUME NEW N \in Nat, NEW V, V # {}, NEW F, LooksBelow(F, N, V)
  PROVE  \E f : Solves(f, F, N, V)
<1> DEFINE Mirror(g) == [n \in 0 .. N |-> g[N - n]]
           G == [g \in [0 .. N -> V] |-> [n \in 0 .. N |-> F[Mirror(g)][N - n]]]
<1>1. \A n \in 0 .. N : N - n \in 0 .. N /\ N - (N - n) = n
  OBVIOUS
<1>2. \A g \in [0 .. N -> V] : Mirror(g) \in [0 .. N -> V]
  BY <1>1
<1>3. LooksAbove(G, N, V)
  <2>1. \A g \in [0 .. N -> V], n \in 0 .. N : G[g][n] \in V
    BY <1>1, <1>2 DEF LooksBelow
  <2>2. ASSUME NEW g \in [0 .. N -> V], NEW h \in [0 .. N -> V], NEW n \in 0 .. N,
               \A k \in n + 1 .. N : g[k] = h[k]
        PROVE  G[g][n] = G[h][n]
    <3>1. \A k \in 0 .. (N - n) - 1 : Mirror(g)[k] = Mirror(h)[k]
      <4> SUFFICES ASSUME NEW k \in 0 .. (N - n) - 1 PROVE Mirror(g)[k] = Mirror(h)[k]
        OBVIOUS
      <4>1. k \in 0 .. N /\ N - k \in n + 1 .. N
        OBVIOUS
      <4>2. QED
        BY <2>2, <4>1
    <3>2. Mirror(g) \in [0 .. N -> V] /\ Mirror(h) \in [0 .. N -> V] /\ N - n \in 0 .. N
      BY <1>1, <1>2
    <3> HIDE DEF Mirror
    <3>3. F[Mirror(g)][N - n] = F[Mirror(h)][N - n]
      BY <3>1, <3>2 DEF LooksBelow
    <3>4. QED
      BY <3>3
  <2> HIDE DEF G
  <2>3. QED
    BY <2>1, <2>2 DEF LooksAbove
<1> HIDE DEF G
<1>4. PICK f : Solves(f, G, N, V)
  BY <1>3, RecursionFromAbove
<1>5. f \in [0 .. N -> V] /\ \A n \in 0 .. N : f[n] = G[f][n]
  BY <1>4 DEF Solves
<1>6. \A n \in 0 .. N : G[f][N - n] = F[Mirror(f)][n]
  BY <1>1, <1>5 DEF G
<1>7. Solves(Mirror(f), F, N, V)
  <2>1. \A n \in 0 .. N : Mirror(f)[n] = F[Mirror(f)][n]
    <3> SUFFICES ASSUME NEW n \in 0 .. N PROVE Mirror(f)[n] = F[Mirror(f)][n]
      OBVIOUS
    <3>1. Mirror(f)[n] = f[N - n]
      OBVIOUS
    <3> HIDE DEF Mirror
    <3>2. QED
      BY <1>1, <1>5, <1>6, <3>1
  <2>2. Mirror(f) \in [0 .. N -> V]
    BY <1>2, <1>5
  <2> HIDE DEF Mirror
  <2>3. QED
    BY <2>1, <2>2 DEF Solves
<1>8. QED
  BY <1>7

\* What holds of n when it holds of all below n holds of all of a set.
LEMMA InductionFromBelow ==
  ASSUME NEW D \in SUBSET Nat, NEW G,
         \A n \in D : (\A k \in D : k < n => k \in G) => n \in G
  PROVE  \A n \in D : n \in G
<1> DEFINE T == {n \in D : n \notin G}
<1>1. T = {}
  <2> SUFFICES ASSUME T # {} PROVE FALSE
    OBVIOUS
  <2>1. T \in SUBSET Nat
    OBVIOUS
  <2> HIDE DEF T
  <2>2. PICK m \in T : \A k \in T : m <= k
    BY <2>1, LeastElement
  <2>3. m \in D /\ m \notin G /\ m \in Nat
    BY <2>1, <2>2 DEF T
  <2>4. PICK k \in D : k < m /\ k \notin G
    BY <2>3
  <2>5. k \in T /\ k \in Nat
    BY <2>4 DEF T
  <2>6. QED
    BY <2>2, <2>3, <2>4, <2>5
<1>2. QED
  BY <1>1

-----------------------------------------------------------------------------
(* Recursions that go through a sequence.                                  *)

\* A set of numbers up to N has a greatest element.
LEMMA GreatestElement ==
  ASSUME NEW N \in Nat, NEW T \in SUBSET (0 .. N), T # {}
  PROVE  \E k \in T : \A j \in T : k >= j
<1> DEFINE U == { n \in 0 .. N : \A j \in T : n >= j }
<1>1. N \in U /\ U \in SUBSET Nat
  OBVIOUS
<1>2. PICK n \in U : \A m \in U : n <= m
  BY <1>1, LeastElement
<1>3. n \in T
  <2> SUFFICES ASSUME n \notin T PROVE FALSE
    OBVIOUS
  <2>1. \A j \in T : n > j
    OBVIOUS
  <2>2. PICK t \in T : TRUE
    OBVIOUS
  <2>3. n \in 0 .. N /\ t \in 0 .. N /\ n > t
    BY <2>1
  <2>4. n - 1 \in 0 .. N /\ ~(n <= n - 1)
    BY <2>3
  <2>5. ASSUME NEW j \in T PROVE n - 1 >= j
    <3>1. n > j /\ j \in 0 .. N
      BY <2>1
    <3>2. QED
      BY <2>3, <3>1
  <2>6. n - 1 \in U
    BY <2>4, <2>5
  <2>7. QED
    BY <1>2, <2>4, <2>6
<1>4. QED
  BY <1>3

\* What holds at first, and at each position if at the one before, always holds.
LEMMA StaysWithin ==
  ASSUME NEW N \in Nat, NEW V, NEW f, f[0] \in V,
         \A k \in 1 .. N : f[k - 1] \in V => f[k] \in V
  PROVE  \A k \in 0 .. N : f[k] \in V
<1> DEFINE G == { k \in 0 .. N : f[k] \in V }
<1>1. 0 .. N \in SUBSET Nat
  OBVIOUS
<1>2. ASSUME NEW n \in 0 .. N, \A k \in 0 .. N : k < n => k \in G PROVE n \in G
  <2>1. CASE n = 0
    BY <2>1
  <2>2. CASE n # 0
    <3>1. n - 1 \in 0 .. N /\ n - 1 < n /\ n \in 1 .. N
      BY <2>2
    <3>2. f[n - 1] \in V
      BY <1>2, <3>1
    <3>3. QED
      BY <3>1, <3>2
  <2>3. QED
    BY <2>1, <2>2
<1> HIDE DEF G
<1>3. \A n \in 0 .. N : n \in G
  BY <1>1, <1>2, InductionFromBelow
<1>4. QED
  BY <1>3 DEF G

\* Each position is computed from the one before, by S.
Runs(f, N, a, S) == f = [k \in 0 .. N |-> IF k = 0 THEN a ELSE S[k][f[k - 1]]]

\* Such a computation stays in V if every step does.
LEMMA RunExists ==
  ASSUME NEW N \in Nat, NEW V, NEW a \in V, NEW S, \A k \in 1 .. N, v \in V : S[k][v] \in V
  PROVE  \E f \in [0 .. N -> V] : Runs(f, N, a, S)
<1> DEFINE Row(g, k) == IF k = 0 THEN a ELSE S[k][g[k - 1]]
           F == [g \in [0 .. N -> V] |-> [k \in 0 .. N |-> Row(g, k)]]
<1>1. ASSUME NEW g \in [0 .. N -> V], NEW k \in 0 .. N PROVE Row(g, k) \in V
  <2>1. k # 0 => k \in 1 .. N /\ k - 1 \in 0 .. N
    OBVIOUS
  <2>2. QED
    BY <2>1
<1>2. ASSUME NEW g \in [0 .. N -> V], NEW h \in [0 .. N -> V], NEW k \in 0 .. N,
             \A j \in 0 .. k - 1 : g[j] = h[j]
      PROVE  Row(g, k) = Row(h, k)
  <2>1. k # 0 => k - 1 \in 0 .. k - 1
    OBVIOUS
  <2>2. QED
    BY <1>2, <2>1
<1>3. \A g \in [0 .. N -> V], k \in 0 .. N : F[g][k] = Row(g, k)
  OBVIOUS
<1> HIDE DEF F
<1>4. LooksBelow(F, N, V)
  <2> HIDE DEF Row
  <2>1. QED
    BY <1>1, <1>2, <1>3 DEF LooksBelow
<1>5. PICK f : Solves(f, F, N, V)
  BY <1>4, RecursionFromBelow
<1>6. f \in [0 .. N -> V] /\ \A k \in 0 .. N : f[k] = Row(f, k)
  BY <1>3, <1>5 DEF Solves
<1>7. QED
  BY <1>6 DEF Runs

\* The same from the first position on.
RunsFromOne(h, N, a, S) == h = [k \in 1 .. N |-> IF k = 1 THEN a ELSE S[k][h[k - 1]]]

LEMMA RunFromOne ==
  ASSUME NEW N \in Nat \ {0}, NEW V, NEW a \in V, NEW S,
         \A k \in 2 .. N, v \in V : S[k][v] \in V
  PROVE  \E h \in [1 .. N -> V] : RunsFromOne(h, N, a, S)
<1> DEFINE T == [k \in 1 .. N |-> [v \in V |-> IF k = 1 THEN a ELSE S[k][v]]]
<1>1. \A k \in 1 .. N, v \in V : T[k][v] = (IF k = 1 THEN a ELSE S[k][v]) /\ T[k][v] \in V
  OBVIOUS
<1> HIDE DEF T
<1>2. PICK f \in [0 .. N -> V] : Runs(f, N, a, T)
  BY <1>1, RunExists
<1> DEFINE h == [k \in 1 .. N |-> f[k]]
<1>3. h \in [1 .. N -> V]
  OBVIOUS
<1>4. ASSUME NEW k \in 1 .. N PROVE h[k] = IF k = 1 THEN a ELSE S[k][h[k - 1]]
  <2>1. k \in 0 .. N /\ k # 0 /\ k - 1 \in 0 .. N /\ (k # 1 => k - 1 \in 1 .. N)
    OBVIOUS
  <2>2. f[k] = T[k][f[k - 1]] /\ f[k - 1] \in V
    BY <1>2, <2>1 DEF Runs
  <2>3. QED
    BY <1>1, <2>1, <2>2
<1> HIDE DEF h
<1>5. h = [k \in 1 .. N |-> IF k = 1 THEN a ELSE S[k][h[k - 1]]]
  BY <1>3, <1>4
<1>6. QED
  BY <1>3, <1>5 DEF RunsFromOne
=============================================================================
