---------------------------- MODULE TreeDiff_proofs ----------------------------
(***************************************************************************)
(* Proofs about TreeDiff, for any trees, names and limits, and for paths   *)
(* of any length.                                                          *)
(***************************************************************************)
EXTENDS TreeDiff, RecursionLemmas, SequenceTheorems, FiniteSetTheorems, TLAPS

-----------------------------------------------------------------------------
(* git's order of entries.                                                 *)

SameKey(a, b) == a.name = b.name /\ IsTree(a) = IsTree(b)

\* A name ends with a character that none contains.
LEMMA CharFacts ==
  ASSUME NEW a \in Entry
  PROVE  /\ Len(a.name) \in Nat /\ IsTree(a) \in BOOLEAN
         /\ \A k \in 1 .. Len(a.name) :
              Char(a, k) = a.name[k] /\ Char(a, k) \in Nat \ {0, Slash}
         /\ Char(a, Len(a.name) + 1) = IF IsTree(a) THEN Slash ELSE 0
         /\ Slash \in Nat \ {0}
<1>1. a.name \in Seq(Nat \ {0, Slash}) /\ Slash \in Nat \ {0}
  BY OIDAssumption DEF Entry, Name
<1>2. Len(a.name) \in Nat /\ \A k \in 1 .. Len(a.name) : a.name[k] \in Nat \ {0, Slash}
  BY <1>1, LenProperties, ElementOfSeq
<1>3. QED
  BY <1>1, <1>2 DEF Char, IsTree

\* A character is a number.
LEMMA CharIsNat ==
  ASSUME NEW a \in Entry, NEW k \in 1 .. Len(a.name) + 1
  PROVE  Char(a, k) \in Nat
BY CharFacts

\* Different entries are ordered, unless name and kind are the same.
LEMMA PrecedesTotal ==
  ASSUME NEW a \in Entry, NEW b \in Entry
  PROVE  Precedes(a, b) \/ Precedes(b, a) \/ SameKey(a, b)
<1> DEFINE la == Len(a.name)  lb == Len(b.name)
           D == { k \in 1 .. la + 1 : k <= lb + 1 /\ Char(a, k) # Char(b, k) }
<1>1. la \in Nat /\ lb \in Nat
  BY CharFacts
<1>2. CASE D # {}
  <2>0. D \in SUBSET Nat
    BY <1>1
  <2>1. PICK k \in D : \A m \in D : k <= m
    <3> HIDE DEF D
    <3>1. QED
      BY <1>2, <2>0, LeastElement
  <2>2. /\ k \in 1 .. la + 1 /\ k \in 1 .. lb + 1 /\ Char(a, k) # Char(b, k)
        /\ \A j \in 1 .. k - 1 : Char(a, j) = Char(b, j)
    BY <1>1, <2>1
  <2>3. Char(a, k) \in Nat /\ Char(b, k) \in Nat
    BY <2>2, CharIsNat
  <2>4. Char(a, k) < Char(b, k) \/ Char(b, k) < Char(a, k)
    BY <2>2, <2>3
  <2>5. QED
    BY <2>2, <2>4, <1>1 DEF Precedes
<1>3. CASE D = {}
  <2>1. \A k \in 1 .. la + 1 : k <= lb + 1 => Char(a, k) = Char(b, k)
    BY <1>3
  <2>2. la = lb
    <3>1. ASSUME la < lb PROVE FALSE
      <4>1. Char(a, la + 1) = Char(b, la + 1) /\ la + 1 \in 1 .. lb
        BY <1>1, <2>1, <3>1
      <4>2. QED
        BY <4>1, CharFacts
    <3>2. ASSUME lb < la PROVE FALSE
      <4>1. Char(a, lb + 1) = Char(b, lb + 1) /\ lb + 1 \in 1 .. la
        BY <1>1, <2>1, <3>2
      <4>2. QED
        BY <4>1, CharFacts
    <3>3. QED
      BY <1>1, <3>1, <3>2
  <2>3. \A k \in 1 .. la : a.name[k] = b.name[k]
    BY <1>1, <2>1, <2>2, CharFacts
  <2>4. a.name = b.name
    <3>1. a.name \in Seq(Nat) /\ b.name \in Seq(Nat)
      BY SeqMonotonic DEF Entry, Name
    <3>2. QED
      BY <2>2, <2>3, <3>1, SeqEqual
  <2>5. Char(a, la + 1) = Char(b, lb + 1)
    BY <1>1, <2>1, <2>2
  <2>6. IsTree(a) = IsTree(b)
    BY <2>5, CharFacts
  <2>7. QED
    BY <2>4, <2>6 DEF SameKey
<1>4. QED
  BY <1>2, <1>3

\* The order is transitive.
LEMMA PrecedesTransitive ==
  ASSUME NEW a \in Entry, NEW b \in Entry, NEW c \in Entry, Precedes(a, b), Precedes(b, c)
  PROVE  Precedes(a, c)
<1>1. Len(a.name) \in Nat /\ Len(b.name) \in Nat /\ Len(c.name) \in Nat
  BY CharFacts
<1>2. PICK k \in 1 .. Len(a.name) + 1 :
        /\ k <= Len(b.name) + 1 /\ Char(a, k) < Char(b, k)
        /\ \A j \in 1 .. k - 1 : Char(a, j) = Char(b, j)
  BY DEF Precedes
<1>3. PICK m \in 1 .. Len(b.name) + 1 :
        /\ m <= Len(c.name) + 1 /\ Char(b, m) < Char(c, m)
        /\ \A j \in 1 .. m - 1 : Char(b, j) = Char(c, j)
  BY DEF Precedes
<1>4. /\ Char(a, k) \in Nat /\ Char(b, k) \in Nat /\ Char(b, m) \in Nat /\ Char(c, m) \in Nat
  BY <1>1, <1>2, <1>3, CharIsNat
<1>5. CASE k < m
  <2>1. Char(a, k) < Char(c, k) /\ k <= Len(c.name) + 1
    BY <1>1, <1>2, <1>3, <1>5
  <2>2. \A j \in 1 .. k - 1 : Char(a, j) = Char(c, j)
    BY <1>1, <1>2, <1>3, <1>5
  <2>3. QED
    BY <2>1, <2>2 DEF Precedes
<1>6. CASE m < k
  <2>1. Char(a, m) < Char(c, m) /\ m \in 1 .. Len(a.name) + 1
    BY <1>1, <1>2, <1>3, <1>6
  <2>2. \A j \in 1 .. m - 1 : Char(a, j) = Char(c, j)
    BY <1>1, <1>2, <1>3, <1>6
  <2>3. QED
    BY <1>3, <2>1, <2>2 DEF Precedes
<1>7. CASE k = m
  <2>1. Char(a, k) < Char(c, k)
    BY <1>2, <1>3, <1>4, <1>7
  <2>2. QED
    BY <1>2, <1>3, <1>7, <2>1 DEF Precedes
<1>8. QED
  BY <1>2, <1>3, <1>5, <1>6, <1>7

\* No entry comes before itself.
LEMMA PrecedesIrreflexive ==
  ASSUME NEW a \in Entry
  PROVE  ~Precedes(a, a)
BY CharIsNat DEF Precedes

\* Entries of one name and kind are compared by the same characters.
LEMMA SameCharacters ==
  ASSUME NEW a \in Entry, NEW b \in Entry, SameKey(a, b)
  PROVE  Len(a.name) = Len(b.name) /\ \A k : Char(a, k) = Char(b, k)
BY DEF SameKey, Char

\* Entries of one name and kind are neighbours of the same ones.
LEMMA PrecedesSameKey ==
  ASSUME NEW a \in Entry, NEW b \in Entry, SameKey(a, b)
  PROVE  /\ ~Precedes(a, b) /\ ~Precedes(b, a)
         /\ \A c \in Entry : /\ Precedes(a, c) <=> Precedes(b, c)
                             /\ Precedes(c, a) <=> Precedes(c, b)
<1>1. Len(a.name) = Len(b.name) /\ \A k : Char(a, k) = Char(b, k)
  BY SameCharacters
<1>2. \A c : (Precedes(a, c) <=> Precedes(b, c)) /\ (Precedes(c, a) <=> Precedes(c, b))
  BY <1>1 DEF Precedes
<1>3. QED
  BY <1>2, PrecedesIrreflexive

-----------------------------------------------------------------------------
(* Sorting.                                                                *)

Distinct(s)  == \A i, k \in DOMAIN s : s[i].name = s[k].name => i = k
Increasing(t) == \A i, k \in DOMAIN t : i < k => Precedes(t[i], t[k])

\* An entry that is not among those of an increasing sequence can be put among them.
LEMMA Insertion ==
  ASSUME NEW n \in Nat, NEW t \in [1 .. n -> Entry], Increasing(t),
         NEW e \in Entry, \A i \in 1 .. n : ~SameKey(t[i], e)
  PROVE  \E u \in [1 .. n + 1 -> Entry] :
           Increasing(u) /\ Elements(u) = Elements(t) \cup {e}
<1> DEFINE A == { i \in 1 .. n + 1 : i = n + 1 \/ Precedes(e, t[i]) }
<1>1. PICK a \in A : \A i \in A : a <= i
  <2>1. A \in SUBSET Nat /\ n + 1 \in A
    OBVIOUS
  <2>2. QED
    BY <2>1, LeastElement
<1>2. a \in 1 .. n + 1 /\ DOMAIN t = 1 .. n /\ \A i \in 1 .. n : t[i] \in Entry
  OBVIOUS
<1>3. \A i \in 1 .. n : i < a => Precedes(t[i], e)
  <2>1. \A i \in 1 .. n : i < a => ~Precedes(e, t[i])
    BY <1>1, <1>2
  <2>2. QED
    BY <1>2, <2>1, PrecedesTotal
<1>4. \A i \in 1 .. n : a <= i => Precedes(e, t[i])
  <2> SUFFICES ASSUME NEW i \in 1 .. n, a <= i PROVE Precedes(e, t[i])
    OBVIOUS
  <2>1. Precedes(e, t[a]) /\ a \in 1 .. n
    BY <1>1, <1>2
  <2>2. a = i \/ Precedes(t[a], t[i])
    BY <1>2, <2>1 DEF Increasing
  <2>3. QED
    BY <1>2, <2>1, <2>2, PrecedesTransitive
<1> DEFINE u == [i \in 1 .. n + 1 |-> IF i < a THEN t[i] ELSE IF i = a THEN e ELSE t[i - 1]]
<1>5. /\ DOMAIN u = 1 .. n + 1
      /\ \A i \in 1 .. n + 1 : /\ i < a => u[i] = t[i] /\ i \in 1 .. n
                               /\ i = a => u[i] = e
                               /\ i > a => u[i] = t[i - 1] /\ i - 1 \in 1 .. n
  BY <1>2
<1> HIDE DEF A, u
<1>6. \A i \in 1 .. n + 1 : u[i] \in Entry
  BY <1>2, <1>5
<1>7. u \in [1 .. n + 1 -> Entry]
  BY <1>6, <1>5 DEF u
<1>8. ASSUME NEW i \in 1 .. n + 1, NEW k \in 1 .. n + 1, i < k PROVE Precedes(u[i], u[k])
  <2>1. CASE k < a
    BY <1>2, <1>5, <1>8, <2>1 DEF Increasing
  <2>2. CASE k = a
    BY <1>2, <1>3, <1>5, <1>8, <2>2
  <2>3. CASE i < a /\ a < k
    BY <1>2, <1>5, <1>8, <2>3 DEF Increasing
  <2>4. CASE i = a
    BY <1>2, <1>4, <1>5, <1>8, <2>4
  <2>5. CASE a < i
    BY <1>2, <1>5, <1>8, <2>5 DEF Increasing
  <2>6. QED
    BY <1>2, <2>1, <2>2, <2>3, <2>4, <2>5
<1>9. Elements(u) = Elements(t) \cup {e}
  <2>1. ASSUME NEW i \in 1 .. n PROVE t[i] \in Elements(u)
    <3>1. CASE i < a
      BY <1>2, <1>5, <3>1 DEF Elements
    <3>2. CASE a <= i
      <4>1. i + 1 \in 1 .. n + 1 /\ u[i + 1] = t[i]
        BY <1>2, <1>5, <3>2
      <4>2. QED
        BY <1>5, <4>1 DEF Elements
    <3>3. QED
      BY <1>2, <3>1, <3>2
  <2>2. e \in Elements(u)
    BY <1>2, <1>5 DEF Elements
  <2>3. \A i \in 1 .. n + 1 : u[i] \in Elements(t) \cup {e}
    BY <1>2, <1>5 DEF Elements
  <2>4. QED
    BY <1>2, <1>5, <2>1, <2>2, <2>3 DEF Elements
<1>10. Increasing(u)
  BY <1>5, <1>8 DEF Increasing
<1>11. QED
  BY <1>7, <1>9, <1>10

\* Entries of different names can be put in order.
LEMMA CanBeSorted ==
  ASSUME NEW s \in Seq(Entry), Distinct(s)
  PROVE  \E t \in [DOMAIN s -> Entry] : Increasing(t) /\ Elements(t) = Elements(s)
<1> DEFINE Upto(n) == { s[i] : i \in 1 .. n }
           G == { n \in 0 .. Len(s) : \E t \in [1 .. n -> Entry] :
                    Increasing(t) /\ Elements(t) = Upto(n) }
<1>1. /\ Len(s) \in Nat /\ DOMAIN s = 1 .. Len(s) /\ \A i \in 1 .. Len(s) : s[i] \in Entry
  BY LenProperties, ElementOfSeq
<1>2. ASSUME NEW n \in 0 .. Len(s), \A k \in 0 .. Len(s) : k < n => k \in G PROVE n \in G
  <2>1. CASE n = 0
    <3> DEFINE t == [i \in 1 .. 0 |-> s[i]]
    <3>1. t \in [1 .. 0 -> Entry] /\ Increasing(t) /\ Elements(t) = Upto(0)
      BY DEF Increasing, Elements
    <3>2. QED
      BY <1>1, <2>1, <3>1
  <2>2. CASE n > 0
    <3>0. n - 1 \in 0 .. Len(s) /\ n - 1 < n /\ n - 1 \in Nat /\ n \in 1 .. Len(s)
          /\ (n - 1) + 1 = n
      BY <1>1, <2>2
    <3>1. n - 1 \in G /\ n - 1 \in Nat /\ n \in 1 .. Len(s) /\ (n - 1) + 1 = n
      <4> HIDE DEF G
      <4>1. QED
        BY <1>2, <3>0
    <3>2. PICK t \in [1 .. n - 1 -> Entry] : Increasing(t) /\ Elements(t) = Upto(n - 1)
      BY <3>1
    <3>3. \A i \in 1 .. n - 1 : ~SameKey(t[i], s[n])
      <4> SUFFICES ASSUME NEW i \in 1 .. n - 1, t[i].name = s[n].name PROVE FALSE
        BY DEF SameKey
      <4>1. t[i] \in Upto(n - 1)
        BY <3>2 DEF Elements
      <4>2. PICK k \in 1 .. n - 1 : t[i] = s[k]
        BY <4>1
      <4>3. k \in DOMAIN s /\ n \in DOMAIN s /\ s[k].name = s[n].name
        BY <1>1, <3>1, <4>2
      <4>4. k = n
        BY <4>3 DEF Distinct
      <4>5. QED
        BY <3>1, <4>4
    <3>4. PICK u \in [1 .. (n - 1) + 1 -> Entry] :
            Increasing(u) /\ Elements(u) = Elements(t) \cup {s[n]}
      <4>1. s[n] \in Entry
        BY <1>1, <3>1
      <4> HIDE DEF Upto, G
      <4>2. QED
        BY <3>1, <3>2, <3>3, <4>1, Insertion
    <3>5. Upto(n) = Upto(n - 1) \cup {s[n]}
      <4>1. 1 .. n = (1 .. n - 1) \cup {n}
        BY <3>0
      <4>2. QED
        BY <4>1
    <3>6. u \in [1 .. n -> Entry] /\ Elements(u) = Upto(n)
      BY <3>1, <3>2, <3>4, <3>5
    <3>7. QED
      BY <3>4, <3>6
  <2>3. QED
    BY <1>1, <2>1, <2>2
<1>3. \A n \in 0 .. Len(s) : n \in G
  <2> HIDE DEF G
  <2>1. 0 .. Len(s) \in SUBSET Nat
    BY <1>1
  <2>2. QED
    BY <1>2, <2>1, InductionFromBelow
<1>4. Len(s) \in G
  <2>1. Len(s) \in 0 .. Len(s)
    BY <1>1
  <2> HIDE DEF G
  <2>2. QED
    BY <1>3, <2>1
<1>5. QED
  BY <1>1, <1>4 DEF Elements

\* How often an entry occurs in a sequence without repetition.
LEMMA CountsOne ==
  ASSUME NEW D, NEW t, \A i, k \in D : t[i] = t[k] => i = k, NEW j \in D
  PROVE  Cardinality({ i \in D : t[i] = t[j] }) = 1
<1>1. { i \in D : t[i] = t[j] } = {j}
  OBVIOUS
<1>2. QED
  BY <1>1, FS_Singleton

\* What sorting yields.
LEMMA SortedFacts ==
  ASSUME NEW s \in Seq(Entry), Distinct(s)
  PROVE  /\ Sorted(s) \in Seq(Entry) /\ Len(Sorted(s)) = Len(s)
         /\ Elements(Sorted(s)) = Elements(s)
         /\ Increasing(Sorted(s)) /\ Distinct(Sorted(s))
<1> DEFINE D == DOMAIN s
           Same(t) == \A e \in Elements(s) : Cardinality({ i \in D : t[i] = e })
                                             = Cardinality({ i \in D : s[i] = e })
           InOrder(t) == \A i, k \in D : i < k => ~Precedes(t[k], t[i])
<1>1. /\ Len(s) \in Nat /\ DOMAIN s = 1 .. Len(s) /\ \A i \in D : s[i] \in Entry
      /\ \A i, k \in D : s[i] = s[k] => i = k
  BY LenProperties, ElementOfSeq DEF Distinct
<1>2. \A e \in Elements(s) : Cardinality({ i \in D : s[i] = e }) = 1
  <2> SUFFICES ASSUME NEW j \in D PROVE Cardinality({ i \in D : s[i] = s[j] }) = 1
    BY DEF Elements
  <2>1. { i \in D : s[i] = s[j] } = {j}
    BY <1>1
  <2>2. QED
    BY <2>1, FS_Singleton
<1>3. \E t \in [D -> Elements(s)] : InOrder(t) /\ Same(t)
  <2>1. PICK t \in [D -> Entry] : Increasing(t) /\ Elements(t) = Elements(s)
    BY CanBeSorted
  <2>2. t \in [D -> Elements(s)]
    BY <2>1 DEF Elements
  <2>3. InOrder(t)
    <3> SUFFICES ASSUME NEW i \in D, NEW k \in D, i < k, Precedes(t[k], t[i]) PROVE FALSE
      OBVIOUS
    <3>1. Precedes(t[i], t[k])
      BY <2>1 DEF Increasing
    <3>2. QED
      BY <2>1, <3>1, PrecedesTransitive, PrecedesIrreflexive
  <2>4. \A i, k \in D : t[i] = t[k] => i = k
    <3> SUFFICES ASSUME NEW i \in D, NEW k \in D, t[i] = t[k], i # k PROVE FALSE
      OBVIOUS
    <3>1. Precedes(t[i], t[k]) \/ Precedes(t[k], t[i])
      BY <1>1, <2>1 DEF Increasing
    <3>2. QED
      BY <2>1, <3>1, PrecedesIrreflexive
  <2>5. Same(t)
    <3> SUFFICES ASSUME NEW e \in Elements(s) PROVE Cardinality({ i \in D : t[i] = e }) = 1
      BY <1>2
    <3>1. PICK j \in D : e = t[j]
      BY <2>1 DEF Elements
    <3>2. QED
      BY <2>4, <3>1, CountsOne
  <2>6. QED
    BY <2>2, <2>3, <2>5
<1> DEFINE t == Sorted(s)
<1>4. t \in [D -> Elements(s)] /\ InOrder(t) /\ Same(t)
  <2>1. t = CHOOSE u \in [D -> Elements(s)] : InOrder(u) /\ Same(u)
    BY DEF Sorted
  <2> HIDE DEF t, Same, InOrder
  <2>2. QED
    BY <1>3, <2>1
<1> HIDE DEF t
<1>5. \A e \in Elements(s) : Cardinality({ i \in D : t[i] = e }) = 1
  BY <1>2, <1>4
<1>6. \A e \in Elements(s) : \E i \in D : t[i] = e
  <2> SUFFICES ASSUME NEW e \in Elements(s), \A i \in D : t[i] # e PROVE FALSE
    OBVIOUS
  <2>1. { i \in D : t[i] = e } = {}
    OBVIOUS
  <2>2. QED
    BY <1>5, <2>1, FS_EmptySet
<1>7. \A i, k \in D : t[i] = t[k] => i = k
  <2> SUFFICES ASSUME NEW i \in D, NEW k \in D, t[i] = t[k], i # k PROVE FALSE
    OBVIOUS
  <2> DEFINE S == { j \in D : t[j] = t[i] }
  <2>1. t[i] \in Elements(s) /\ i \in S /\ k \in S
    BY <1>4
  <2>2. Cardinality(S) = 1 /\ IsFiniteSet(D)
    <3>1. IsFiniteSet(1 .. Len(s))
      BY <1>1, FS_Interval
    <3>2. QED
      BY <1>1, <1>5, <2>1, <3>1
  <2>3. IsFiniteSet(S)
    BY <2>2, FS_Subset
  <2>4. \E x : S = {x}
    BY <2>2, <2>3, FS_Singleton
  <2>5. QED
    BY <2>1, <2>4
<1>8. Elements(t) = Elements(s) /\ DOMAIN t = D /\ \A i \in D : t[i] \in Entry
  <2>1. DOMAIN t = D /\ \A i \in D : t[i] \in Elements(s)
    BY <1>4
  <2>2. \A e \in Elements(s) : e \in Entry
    BY <1>1 DEF Elements
  <2>3. Elements(t) = Elements(s)
    BY <1>6, <2>1 DEF Elements
  <2>4. QED
    BY <2>1, <2>2, <2>3
<1>9. t \in Seq(Entry) /\ Len(t) = Len(s)
  <2>1. t \in [1 .. Len(s) -> Entry]
    BY <1>1, <1>4, <1>8
  <2>2. QED
    BY <1>1, <2>1, IsASeq
<1>10. Distinct(t)
  <2> SUFFICES ASSUME NEW i \in D, NEW k \in D, t[i].name = t[k].name PROVE i = k
    BY <1>8 DEF Distinct
  <2>1. PICK a \in D, b \in D : t[i] = s[a] /\ t[k] = s[b]
    BY <1>4 DEF Elements
  <2>2. a = b
    BY <2>1 DEF Distinct
  <2>3. QED
    BY <1>7, <2>1, <2>2
<1>11. Increasing(t)
  <2> SUFFICES ASSUME NEW i \in D, NEW k \in D, i < k PROVE Precedes(t[i], t[k])
    BY <1>8 DEF Increasing
  <2>1. ~Precedes(t[k], t[i])
    BY <1>4
  <2>2. ~SameKey(t[i], t[k])
    BY <1>1, <1>8, <1>10 DEF SameKey, Distinct
  <2>3. QED
    BY <1>8, <2>1, <2>2, PrecedesTotal
<1>12. QED
  BY <1>8, <1>9, <1>10, <1>11 DEF t

-----------------------------------------------------------------------------
(* Paths.                                                                  *)

\* q goes through p, or ends there.
Starts(q, p) == Len(p) <= Len(q) /\ \A m \in 1 .. Len(p) : q[m] = p[m]

\* A name as a path.
LEMMA NameFacts ==
  ASSUME NEW n \in Name
  PROVE  << n >> \in Path /\ Len(<< n >>) = 1 /\ << n >>[1] = n /\ << n >> # << >>
BY DEF Path

\* A path goes on by a name.
LEMMA PathFacts ==
  ASSUME NEW p \in Path, NEW n \in Name
  PROVE  /\ Len(p) \in Nat /\ << n >> \in Path /\ Len(<< n >>) = 1 /\ << n >>[1] = n
         /\ Append(p, n) \in Path /\ Len(Append(p, n)) = Len(p) + 1
         /\ Append(p, n)[Len(p) + 1] = n /\ \A m \in 1 .. Len(p) : Append(p, n)[m] = p[m]
         /\ Append(p, n) # << >> /\ << n >> # << >>
         /\ Append(p, n) = p \o << n >>
         /\ p = << >> <=> Len(p) = 0
BY AppendProperties, AppendIsConcat, LenProperties, EmptySeq DEF Path

\* A path goes on by another.
LEMMA PathConcat ==
  ASSUME NEW p \in Path, NEW q \in Path
  PROVE  /\ p \o q \in Path /\ Len(p \o q) = Len(p) + Len(q)
         /\ \A m \in 1 .. Len(p) : (p \o q)[m] = p[m]
         /\ Starts(p \o q, p)
         /\ << >> \o q = q /\ p \o << >> = p
         /\ p \o q = p => q = << >>
<1>1. Len(p) \in Nat /\ Len(q) \in Nat
  BY LenProperties DEF Path
<1>2. /\ p \o q \in Path /\ Len(p \o q) = Len(p) + Len(q)
      /\ \A m \in 1 .. Len(p) : (p \o q)[m] = p[m]
  BY <1>1, ConcatProperties DEF Path
<1>3. << >> \o q = q /\ p \o << >> = p
  BY ConcatEmptySeq DEF Path
<1>4. p \o q = p => q = << >>
  BY ConcatSimplifications DEF Path
<1>6. Starts(p \o q, p)
  BY <1>1, <1>2 DEF Starts
<1>7. QED
  BY <1>2, <1>3, <1>4, <1>6

\* A name more, and then a path, is a path that begins with the name.
LEMMA PathAssoc ==
  ASSUME NEW p \in Path, NEW q \in Path, NEW n \in Name
  PROVE  Append(p, n) \o q = p \o (<< n >> \o q)
<1>1. Append(p, n) = p \o << n >> /\ << n >> \in Path
  BY PathFacts
<1>2. (p \o << n >>) \o q = p \o (<< n >> \o q)
  BY <1>1, ConcatAssociative DEF Path
<1>3. QED
  BY <1>1, <1>2

\* A path that goes through another is it, or goes on with some name.
LEMMA StartsSplit ==
  ASSUME NEW p \in Path, NEW q \in Path, Starts(q, p), q # p
  PROVE  \E r \in Path : r # << >> /\ q = p \o r
<1>1. Len(p) \in Nat /\ Len(q) \in Nat /\ Len(p) <= Len(q)
  BY LenProperties DEF Path, Starts
<1> DEFINE r == SubSeq(q, Len(p) + 1, Len(q))
<1>2. /\ r \in Path /\ Len(r) = Len(q) - Len(p)
      /\ \A i \in 1 .. Len(q) - Len(p) : r[i] = q[Len(p) + i]
  <2>1. DOMAIN q = 1 .. Len(q) /\ \A i \in 1 .. Len(q) : q[i] \in Name
    BY LenProperties, ElementOfSeq DEF Path
  <2>2. \A i \in Len(p) + 1 .. Len(q) : q[i] \in Name
    BY <1>1, <2>1
  <2>3. QED
    BY <1>1, <2>2, SubSeqProperties DEF Path
<1> HIDE DEF r
<1>3. /\ p \o r \in Path /\ Len(p \o r) = Len(q)
      /\ \A i \in 1 .. Len(q) : (p \o r)[i] = IF i <= Len(p) THEN p[i] ELSE r[i - Len(p)]
  BY <1>1, <1>2, ConcatProperties DEF Path
<1>4. \A i \in 1 .. Len(q) : (p \o r)[i] = q[i]
  <2> SUFFICES ASSUME NEW i \in 1 .. Len(q) PROVE (p \o r)[i] = q[i]
    OBVIOUS
  <2>1. CASE i <= Len(p)
    BY <1>1, <1>3, <2>1 DEF Starts
  <2>2. CASE i > Len(p)
    <3>1. i - Len(p) \in 1 .. Len(q) - Len(p) /\ Len(p) + (i - Len(p)) = i
      BY <1>1, <2>2
    <3>2. QED
      BY <1>1, <1>2, <1>3, <2>2, <3>1
  <2>3. i <= Len(p) \/ i > Len(p)
    BY <1>1
  <2>4. QED
    BY <2>1, <2>2, <2>3, Zenon
<1>5. p \o r = q
  BY <1>3, <1>4, SeqEqual DEF Path
<1>6. r # << >>
  BY <1>5, PathConcat
<1>7. QED
  BY <1>2, <1>5, <1>6

\* Paths that begin alike go on alike.
LEMMA CancelName ==
  ASSUME NEW n \in Name, NEW q \in Path, NEW r \in Path, << n >> \o q = << n >> \o r
  PROVE  q = r
<1>1. << n >> \in Path
  BY NameFacts
<1>2. QED
  BY <1>1, ConcatSimplifications DEF Path

\* A path has a first name.
LEMMA NonEmptyPath ==
  ASSUME NEW r \in Path, r # << >>
  PROVE  \E n \in Name, s \in Path : r = << n >> \o s /\ r[1] = n
<1>1. Len(r) \in Nat /\ Len(r) # 0 /\ \A i \in 1 .. Len(r) : r[i] \in Name
  BY LenProperties, ElementOfSeq, EmptySeq DEF Path
<1> DEFINE n == r[1]  p == << n >>
<1>2. n \in Name
  BY <1>1
<1>3. p \in Path /\ Len(p) = 1 /\ p[1] = n
  BY <1>2, PathFacts
<1> HIDE DEF p
<1>4. Starts(r, p)
  BY <1>1, <1>3 DEF Starts
<1>5. CASE r = p
  <2>1. r = p \o << >> /\ << >> \in Path
    BY <1>3, <1>5, PathConcat, EmptySeq DEF Path
  <2>2. QED
    BY <1>2, <2>1 DEF p
<1>6. CASE r # p
  <2>1. PICK s \in Path : r = p \o s
    BY <1>3, <1>4, <1>6, StartsSplit
  <2>2. QED
    BY <1>2, <2>1 DEF p
<1>7. QED
  BY <1>5, <1>6

-----------------------------------------------------------------------------
(* What is below a tree.                                                   *)

\* What a name of tree o stands for, above what g has one level down.
UnderEntry(g, e) ==
  { << << e.name >>, e >> } \cup
  (IF IsTree(e) THEN { << << e.name >> \o x[1], x[2] >> : x \in g[e.oid] } ELSE {})

\* The contents of the trees, to any depth up to the horizon.
Levels(trees) ==
  CHOOSE C : C = [d \in 0 .. Horizon |->
    [o \in OID |->
       IF d = 0 \/ o \notin DOMAIN trees THEN {}
       ELSE UNION { { << << e.name >>, e >> } \cup
                    (IF IsTree(e)
                     THEN { << << e.name >> \o x[1], x[2] >> : x \in C[d - 1][e.oid] } ELSE {})
                    : e \in Elements(trees[o]) }]]

\* The properties look as deep as the horizon.
LEMMA ContentIsTopLevel ==
  ASSUME NEW trees
  PROVE  Content(trees) = Levels(trees)[Horizon]
BY Zenon DEF Content, Levels

\* The types of a call.
LEMMA InputFacts ==
  ASSUME NEW c \in Input
  PROVE  /\ IsInput(c) /\ Horizon \in Nat
         /\ \A o \in DOMAIN c.trees :
              /\ o \in OID /\ c.trees[o] \in Seq(Entry)
              /\ Elements(c.trees[o]) \subseteq Entry
              /\ \A e \in Elements(c.trees[o]) : e.name \in Name /\ e.oid \in OID
<1>1. IsInput(c) /\ Horizon \in Nat
  BY InputAssumption, HorizonAssumption
<1>2. \A o \in DOMAIN c.trees : o \in OID /\ c.trees[o] \in Seq(Entry)
  BY <1>1 DEF IsInput
<1>3. ASSUME NEW o \in DOMAIN c.trees PROVE Elements(c.trees[o]) \subseteq Entry
  <2> DEFINE s == c.trees[o]
  <2>1. DOMAIN s = 1 .. Len(s) /\ \A i \in 1 .. Len(s) : s[i] \in Entry
    BY <1>2, LenProperties, ElementOfSeq
  <2> HIDE DEF s
  <2>2. Elements(s) \subseteq Entry
    BY <2>1 DEF Elements
  <2>3. QED
    BY <2>2 DEF s
<1>4. \A e \in Entry : e.name \in Name /\ e.oid \in OID
  BY DEF Entry
<1>5. QED
  BY <1>1, <1>2, <1>3, <1>4

\* The recursion that defines them has a solution.
LEMMA LevelsFacts ==
  ASSUME NEW c \in Input
  PROVE  /\ Levels(c.trees) \in [0 .. Horizon -> [OID -> SUBSET (Path \X Entry)]]
         /\ \A d \in 0 .. Horizon, o \in OID :
              Levels(c.trees)[d][o] =
                IF d = 0 \/ o \notin DOMAIN c.trees THEN {}
                ELSE UNION { UnderEntry(Levels(c.trees)[d - 1], e) : e \in Elements(c.trees[o]) }
<1> DEFINE V == [OID -> SUBSET (Path \X Entry)]
           trees == c.trees
           Row(g, d) == [o \in OID |->
             IF d = 0 \/ o \notin DOMAIN trees THEN {}
             ELSE UNION { UnderEntry(g[d - 1], e) : e \in Elements(trees[o]) }]
           Def(g) == [d \in 0 .. Horizon |-> Row(g, d)]
           F == [g \in [0 .. Horizon -> V] |-> Def(g)]
           f == CHOOSE g : g = Def(g)
<1>1. Horizon \in Nat /\ \A o \in DOMAIN trees : \A e \in Elements(trees[o]) :
                           e \in Entry /\ e.name \in Name /\ e.oid \in OID
  BY InputFacts
<1> HIDE DEF trees
<1>2. ASSUME NEW r \in V, NEW e \in Entry, e.name \in Name, e.oid \in OID
      PROVE  UnderEntry(r, e) \subseteq Path \X Entry
  <2>1. << e.name >> \in Path
    BY <1>2, NameFacts
  <2>2. ASSUME NEW x \in r[e.oid] PROVE << << e.name >> \o x[1], x[2] >> \in Path \X Entry
    <3>1. x \in Path \X Entry
      BY <1>2
    <3>2. x[1] \in Path /\ x[2] \in Entry
      BY <3>1
    <3>3. << e.name >> \o x[1] \in Path
      BY <2>1, <3>2, PathConcat
    <3>4. QED
      BY <3>2, <3>3
  <2>3. << << e.name >>, e >> \in Path \X Entry
    BY <2>1
  <2> DEFINE Deeper == { << << e.name >> \o x[1], x[2] >> : x \in r[e.oid] }
  <2>4. Deeper \subseteq Path \X Entry
    BY <2>2
  <2>5. UnderEntry(r, e) \subseteq { << << e.name >>, e >> } \cup Deeper
    BY DEF UnderEntry
  <2> HIDE DEF Deeper
  <2>6. QED
    BY <2>3, <2>4, <2>5
<1>3. ASSUME NEW g \in [0 .. Horizon -> V], NEW d \in 0 .. Horizon PROVE Row(g, d) \in V
  <2> SUFFICES ASSUME NEW o \in OID, d # 0, o \in DOMAIN trees, NEW e \in Elements(trees[o])
               PROVE  UnderEntry(g[d - 1], e) \subseteq Path \X Entry
    OBVIOUS
  <2>1. g[d - 1] \in V
    BY <1>1
  <2> HIDE DEF V
  <2>2. QED
    BY <1>1, <1>2, <2>1
<1>4. ASSUME NEW g \in [0 .. Horizon -> V], NEW h \in [0 .. Horizon -> V], NEW d \in 0 .. Horizon,
             \A k \in 0 .. d - 1 : g[k] = h[k]
      PROVE  Row(g, d) = Row(h, d)
  <2>1. d # 0 => g[d - 1] = h[d - 1]
    BY <1>1, <1>4
  <2>2. QED
    BY <2>1
<1>5. LooksBelow(F, Horizon, V)
  <2> HIDE DEF Row, V
  <2>1. \A g \in [0 .. Horizon -> V], d \in 0 .. Horizon : F[g][d] = Row(g, d)
    OBVIOUS
  <2> HIDE DEF F
  <2>2. QED
    BY <1>3, <1>4, <2>1 DEF LooksBelow
<1>6. f = Def(f) /\ f \in [0 .. Horizon -> V]
  <2>1. V # {}
    <3>1. [o \in OID |-> {}] \in V
      OBVIOUS
    <3>2. QED
      BY <3>1
  <2>2. PICK g : Solves(g, F, Horizon, V)
    <3> HIDE DEF F, V
    <3>1. QED
      BY <1>1, <1>5, <2>1, RecursionFromBelow
  <2>3. g \in [0 .. Horizon -> V] /\ \A d \in 0 .. Horizon : g[d] = F[g][d]
    BY <2>2 DEF Solves
  <2>4. g = Def(g)
    <3> HIDE DEF Row, V
    <3>1. QED
      BY <2>3
  <2> HIDE DEF Row, V
  <2>5. f = Def(f)
    <3> HIDE DEF Def
    <3>1. QED
      BY <2>4, Zenon
  <2> HIDE DEF f
  <2>6. f \in [0 .. Horizon -> V]
    <3> DEFINE G == { d \in 0 .. Horizon : f[d] = g[d] }
    <3>1. ASSUME NEW d \in 0 .. Horizon, \A k \in 0 .. Horizon : k < d => k \in G PROVE d \in G
      <4>1. d # 0 => f[d - 1] = g[d - 1]
        BY <1>1, <3>1
      <4>2. Row(f, d) = Row(g, d)
        BY <4>1 DEF Row
      <4>3. f[d] = Row(f, d) /\ g[d] = Row(g, d)
        BY <2>4, <2>5
      <4>4. QED
        BY <4>2, <4>3
    <3>2. \A d \in 0 .. Horizon : d \in G
      <4> HIDE DEF G
      <4>1. 0 .. Horizon \in SUBSET Nat
        BY <1>1
      <4>2. QED
        BY <3>1, <4>1, InductionFromBelow
    <3>3. DOMAIN f = 0 .. Horizon /\ f = [d \in 0 .. Horizon |-> f[d]]
      BY <2>5
    <3>4. \A d \in 0 .. Horizon : f[d] \in V
      BY <2>3, <3>2
    <3>5. QED
      BY <3>3, <3>4
  <2>7. QED
    BY <2>5, <2>6
<1>7. Levels(trees) = f
  BY Zenon DEF Levels, UnderEntry
<1> HIDE DEF f, V
<1>8. \A d \in 0 .. Horizon : f[d] = Row(f, d)
  <2> HIDE DEF Row
  <2>1. QED
    BY <1>6
<1> DEFINE Unfolds(g) ==
             \A d \in 0 .. Horizon, o \in OID :
               g[d][o] = IF d = 0 \/ o \notin DOMAIN trees THEN {}
                         ELSE UNION { UnderEntry(g[d - 1], e) : e \in Elements(trees[o]) }
<1>9. Unfolds(f)
  BY <1>8
<1>10. Levels(trees) \in [0 .. Horizon -> V]
  BY <1>6, <1>7
<1>11. Unfolds(Levels(trees))
  <2> HIDE DEF Unfolds
  <2>1. QED
    BY <1>7, <1>9, Zenon
<1>12. QED
  BY <1>10, <1>11, Zenon DEF trees, V

\* What tree o holds down to depth d; nothing, if o is no object.
Deep(c, o, d) == IF o \in OID /\ d \in 1 .. Horizon THEN Levels(c.trees)[d][o] ELSE {}

Readable(c, o) == o \in DOMAIN c.trees
NoTwins(c)     == \A o \in DOMAIN c.trees : Distinct(c.trees[o])

\* An entry of the tree, or what is below one.
Split(c, o, d, q, e) ==
  /\ d >= 1 /\ Readable(c, o)
  /\ \E a \in Elements(c.trees[o]) :
       \/ q = << a.name >> /\ e = a
       \/ IsTree(a) /\ \E r : << r, e >> \in Deep(c, a.oid, d - 1) /\ q = << a.name >> \o r

\* What a tree holds, in terms of what its entries hold.
LEMMA DeepUnfolds ==
  ASSUME NEW c \in Input, NEW o, NEW d \in Int, d <= Horizon, NEW q, NEW e
  PROVE  << q, e >> \in Deep(c, o, d) <=> Split(c, o, d, q, e)
<1> USE DEF Split
<1> DEFINE C == Levels(c.trees)
           Meant(a) == \/ q = << a.name >> /\ e = a
                       \/ IsTree(a) /\ \E r : << r, e >> \in Deep(c, a.oid, d - 1)
                                              /\ q = << a.name >> \o r
<1>1. /\ Horizon \in Nat /\ C \in [0 .. Horizon -> [OID -> SUBSET (Path \X Entry)]]
      /\ \A m \in 0 .. Horizon, b \in OID :
              C[m][b] = IF m = 0 \/ b \notin DOMAIN c.trees THEN {}
                        ELSE UNION { UnderEntry(C[m - 1], a) : a \in Elements(c.trees[b]) }
  BY InputFacts, LevelsFacts
<1> HIDE DEF C
<1>2. CASE ~(d >= 1 /\ Readable(c, o))
  <2>1. << q, e >> \notin Deep(c, o, d)
    <3>1. CASE ~Readable(c, o) /\ d \in 1 .. Horizon /\ o \in OID
      <4>1. d \in 0 .. Horizon
        BY <3>1
      <4>2. C[d][o] = {}
        BY <1>1, <3>1, <4>1 DEF Readable
      <4>3. QED
        BY <3>1, <4>2 DEF Deep, C
    <3>2. CASE d \notin 1 .. Horizon \/ o \notin OID
      BY <3>2 DEF Deep
    <3>3. QED
      BY <1>1, <1>2, <3>1, <3>2
  <2>2. QED
    BY <1>2, <2>1
<1>3. CASE d >= 1 /\ Readable(c, o)
  <2>1. o \in OID /\ d \in 1 .. Horizon /\ d \in 0 .. Horizon /\ d # 0
    BY <1>1, <1>3, InputFacts DEF Readable
  <2>2. Deep(c, o, d) = UNION { UnderEntry(C[d - 1], a) : a \in Elements(c.trees[o]) }
    BY <1>1, <1>3, <2>1 DEF Deep, C, Readable
  <2>3. << q, e >> \in Deep(c, o, d)
          <=> \E a \in Elements(c.trees[o]) : << q, e >> \in UnderEntry(C[d - 1], a)
    BY <2>2
  <2>4. ASSUME NEW a \in Elements(c.trees[o])
        PROVE  << q, e >> \in UnderEntry(C[d - 1], a) <=> Meant(a)
    <3>1. a.oid \in OID
      BY <1>3, InputFacts DEF Readable
    <3>2. C[d - 1][a.oid] = Deep(c, a.oid, d - 1) /\ C[d - 1][a.oid] \subseteq Path \X Entry
      <4>1. d - 1 \in 0 .. Horizon
        BY <1>1, <2>1
      <4>2. CASE d = 1
        <5>1. d - 1 = 0 /\ 0 \in 0 .. Horizon
          BY <1>1, <4>2
        <5>2. C[0][a.oid] = {}
          BY <1>1, <3>1, <5>1
        <5>3. Deep(c, a.oid, d - 1) = {}
          BY <1>1, <5>1 DEF Deep
        <5>4. QED
          BY <5>1, <5>2, <5>3
      <4>3. CASE d # 1
        <5>1. d - 1 \in 1 .. Horizon
          BY <1>1, <2>1, <4>3
        <5>2. QED
          BY <1>1, <3>1, <4>1, <5>1 DEF Deep, C
      <4>4. QED
        BY <4>2, <4>3
    <3> DEFINE S == Deep(c, a.oid, d - 1)
               Deeper == { << << a.name >> \o x[1], x[2] >> : x \in S }
    <3>3. UnderEntry(C[d - 1], a)
            = { << << a.name >>, a >> } \cup (IF IsTree(a) THEN Deeper ELSE {})
      BY <3>2 DEF UnderEntry
    <3>4. << q, e >> \in Deeper <=> \E r : << r, e >> \in S /\ q = << a.name >> \o r
      <4>1. \A x \in S : x = << x[1], x[2] >>
        BY <3>2
      <4> HIDE DEF S
      <4>2. ASSUME << q, e >> \in Deeper
            PROVE  \E r : << r, e >> \in S /\ q = << a.name >> \o r
        <5>1. PICK x \in S : << q, e >> = << << a.name >> \o x[1], x[2] >>
          BY <4>2
        <5>2. q = << a.name >> \o x[1] /\ e = x[2]
          BY <5>1
        <5>3. << x[1], e >> \in S
          BY <4>1, <5>2
        <5>4. QED
          BY <5>2, <5>3
      <4>3. ASSUME NEW r, << r, e >> \in S, q = << a.name >> \o r
            PROVE  << q, e >> \in Deeper
        <5> DEFINE x == << r, e >>
        <5>1. x \in S /\ << q, e >> = << << a.name >> \o x[1], x[2] >>
          BY <4>3
        <5>2. QED
          BY <5>1
      <4>4. QED
        BY <4>2, <4>3
    <3>5. QED
      BY <3>3, <3>4
  <2>5. QED
    BY <1>3, <2>3, <2>4
<1>4. QED
  BY <1>2, <1>3

\* Paths below a tree are never empty, and no longer than one looks deep.
LEMMA DeepPaths ==
  ASSUME NEW c \in Input, NEW o, NEW d \in Int, d <= Horizon, NEW q, NEW e,
         << q, e >> \in Deep(c, o, d)
  PROVE  q \in Path /\ q # << >> /\ e \in Entry /\ Len(q) <= d
<1>1. Horizon \in Nat /\ d \in 1 .. Horizon
  BY InputFacts DEF Deep
<1> DEFINE G == { n \in 0 .. Horizon :
                    \A b, r, x : << r, x >> \in Deep(c, b, n)
                       => r \in Path /\ r # << >> /\ x \in Entry /\ Len(r) <= n }
<1>2. ASSUME NEW n \in 0 .. Horizon, \A k \in 0 .. Horizon : k < n => k \in G PROVE n \in G
  <2> SUFFICES ASSUME NEW b, NEW r, NEW x, << r, x >> \in Deep(c, b, n)
               PROVE  r \in Path /\ r # << >> /\ x \in Entry /\ Len(r) <= n
    OBVIOUS
  <2>1. n \in Int /\ n <= Horizon /\ n >= 1 /\ Readable(c, b)
    BY <1>1, DeepUnfolds DEF Split
  <2>2. PICK a \in Elements(c.trees[b]) :
             \/ r = << a.name >> /\ x = a
             \/ IsTree(a) /\ \E s : << s, x >> \in Deep(c, a.oid, n - 1)
                                    /\ r = << a.name >> \o s
    <3>1. Split(c, b, n, r, x)
      BY <2>1, DeepUnfolds
    <3>2. QED
      BY <3>1 DEF Split
  <2>3. a \in Entry /\ a.name \in Name
    BY <2>1, InputFacts DEF Readable
  <2>4. << a.name >> \in Path /\ << a.name >> # << >> /\ Len(<< a.name >>) = 1
    BY <2>3, NameFacts
  <2>5. CASE r = << a.name >> /\ x = a
    BY <2>1, <2>3, <2>4, <2>5
  <2>6. CASE \E s : << s, x >> \in Deep(c, a.oid, n - 1) /\ r = << a.name >> \o s
    <3>1. PICK s : << s, x >> \in Deep(c, a.oid, n - 1) /\ r = << a.name >> \o s
      BY <2>6
    <3>2. n - 1 \in G
      <4>1. n - 1 \in 0 .. Horizon /\ n - 1 < n
        BY <1>1, <2>1
      <4> HIDE DEF G
      <4>2. QED
        BY <1>2, <4>1
    <3>3. s \in Path /\ x \in Entry /\ Len(s) <= n - 1
      BY <3>1, <3>2
    <3>4. r \in Path /\ Len(r) = 1 + Len(s) /\ Len(s) \in Nat
      BY <2>4, <3>1, <3>3, PathConcat, LenProperties DEF Path
    <3>5. r # << >>
      BY <3>4, EmptySeq
    <3>6. QED
      BY <2>1, <3>3, <3>4, <3>5
  <2>7. QED
    BY <2>2, <2>5, <2>6
<1>3. \A n \in 0 .. Horizon : n \in G
  <2> HIDE DEF G
  <2>1. 0 .. Horizon \in SUBSET Nat
    BY <1>1
  <2>2. QED
    BY <1>2, <2>1, InductionFromBelow
<1>4. d \in G
  <2> HIDE DEF G
  <2>1. QED
    BY <1>1, <1>3
<1>5. QED
  BY <1>4

\* What is at one name of a tree, and what is below it.
IsAt(c, o, d, n, e) ==
  d >= 1 /\ Readable(c, o) /\ e \in Elements(c.trees[o]) /\ e.name = n
IsUnder(c, o, d, n, q, e) ==
  /\ d >= 1 /\ Readable(c, o)
  /\ \E a \in Elements(c.trees[o]) :
       a.name = n /\ IsTree(a) /\ << q, e >> \in Deep(c, a.oid, d - 1)

\* At a name of a tree is its entry; below it, what is in the subtree.
LEMMA DeepAt ==
  ASSUME NEW c \in Input, NEW o, NEW d \in Int, d <= Horizon, NEW n \in Name, NEW e
  PROVE  /\ << << n >>, e >> \in Deep(c, o, d) <=> IsAt(c, o, d, n, e)
         /\ \A q \in Path : q # << >> =>
              (<< << n >> \o q, e >> \in Deep(c, o, d) <=> IsUnder(c, o, d, n, q, e))
<1> USE DEF IsAt, IsUnder
<1>1. << n >> \in Path /\ Len(<< n >>) = 1 /\ << n >>[1] = n
  BY NameFacts
<1>2. ASSUME Readable(c, o), d >= 1, NEW a \in Elements(c.trees[o]), NEW r,
             << r, e >> \in Deep(c, a.oid, d - 1)
      PROVE  /\ r \in Path /\ r # << >> /\ Len(r) > 0
             /\ << a.name >> \in Path /\ Len(<< a.name >>) = 1 /\ << a.name >>[1] = a.name
             /\ Len(<< a.name >> \o r) = 1 + Len(r)
             /\ (<< a.name >> \o r)[1] = a.name
  <2>1. r \in Path /\ r # << >> /\ Len(r) > 0
    <3>0. d - 1 \in Int /\ d - 1 <= Horizon
      BY HorizonAssumption
    <3>1. r \in Path /\ r # << >>
      BY <1>2, <3>0, DeepPaths
    <3>2. QED
      BY <3>1, EmptySeq, LenProperties DEF Path
  <2>2. a.name \in Name
    BY <1>2, InputFacts DEF Readable
  <2>3. << a.name >> \in Path /\ Len(<< a.name >>) = 1 /\ << a.name >>[1] = a.name
    BY <2>2, NameFacts
  <2>4. QED
    BY <2>1, <2>3, PathConcat
<1>3. << << n >>, e >> \in Deep(c, o, d) <=>
        d >= 1 /\ Readable(c, o) /\ e \in Elements(c.trees[o]) /\ e.name = n
  <2>1. ASSUME << << n >>, e >> \in Deep(c, o, d)
        PROVE  d >= 1 /\ Readable(c, o) /\ e \in Elements(c.trees[o]) /\ e.name = n
    <3>1. /\ d >= 1 /\ Readable(c, o)
          /\ \E a \in Elements(c.trees[o]) :
               \/ << n >> = << a.name >> /\ e = a
               \/ IsTree(a) /\ \E r : << r, e >> \in Deep(c, a.oid, d - 1)
                                      /\ << n >> = << a.name >> \o r
      <4>1. Split(c, o, d, << n >>, e)
        BY <2>1, DeepUnfolds
      <4>2. QED
        BY <4>1 DEF Split
    <3>2. PICK a \in Elements(c.trees[o]) :
               \/ << n >> = << a.name >> /\ e = a
               \/ \E r : << r, e >> \in Deep(c, a.oid, d - 1) /\ << n >> = << a.name >> \o r
      BY <3>1
    <3>3. ASSUME NEW r, << r, e >> \in Deep(c, a.oid, d - 1), << n >> = << a.name >> \o r
          PROVE  FALSE
      BY <1>1, <1>2, <3>1, <3>3
    <3>4. << n >> = << a.name >> /\ e = a
      BY <3>2, <3>3
    <3>5. n = a.name
      BY <3>4
    <3>6. QED
      BY <3>1, <3>4, <3>5
  <2>2. ASSUME d >= 1, Readable(c, o), e \in Elements(c.trees[o]), e.name = n
        PROVE  << << n >>, e >> \in Deep(c, o, d)
    BY <2>2, DeepUnfolds DEF Split
  <2>3. QED
    BY <2>1, <2>2
<1>4. ASSUME NEW q \in Path, q # << >>
      PROVE  << << n >> \o q, e >> \in Deep(c, o, d) <=>
               /\ d >= 1 /\ Readable(c, o)
               /\ \E a \in Elements(c.trees[o]) :
                    a.name = n /\ IsTree(a) /\ << q, e >> \in Deep(c, a.oid, d - 1)
  <2>0. Len(q) > 0 /\ Len(<< n >> \o q) = 1 + Len(q) /\ (<< n >> \o q)[1] = n
    BY <1>1, <1>4, PathConcat, EmptySeq, LenProperties DEF Path
  <2>1. ASSUME << << n >> \o q, e >> \in Deep(c, o, d)
        PROVE  /\ d >= 1 /\ Readable(c, o)
               /\ \E a \in Elements(c.trees[o]) :
                    a.name = n /\ IsTree(a) /\ << q, e >> \in Deep(c, a.oid, d - 1)
    <3>1. /\ d >= 1 /\ Readable(c, o)
          /\ \E a \in Elements(c.trees[o]) :
               \/ << n >> \o q = << a.name >> /\ e = a
               \/ IsTree(a) /\ \E r : << r, e >> \in Deep(c, a.oid, d - 1)
                                      /\ << n >> \o q = << a.name >> \o r
      <4>1. Split(c, o, d, << n >> \o q, e)
        BY <2>1, DeepUnfolds
      <4>2. QED
        BY <4>1 DEF Split
    <3>2. PICK a \in Elements(c.trees[o]) :
               \/ << n >> \o q = << a.name >> /\ e = a
               \/ IsTree(a) /\ \E r : << r, e >> \in Deep(c, a.oid, d - 1)
                                      /\ << n >> \o q = << a.name >> \o r
      BY <3>1
    <3>3. << n >> \o q # << a.name >>
      <4>1. a.name \in Name
        BY <3>1, InputFacts DEF Readable
      <4>2. Len(<< a.name >>) = 1
        BY <4>1, NameFacts
      <4>3. Len(<< n >> \o q) # 1
        BY <2>0, LenProperties, <1>4 DEF Path
      <4> DEFINE l == << n >> \o q
      <4> HIDE DEF l
      <4>4. QED
        BY <4>2, <4>3, Zenon DEF l
    <3>4. PICK r : IsTree(a) /\ << r, e >> \in Deep(c, a.oid, d - 1)
                   /\ << n >> \o q = << a.name >> \o r
      BY <3>2, <3>3
    <3>5. r \in Path /\ (<< a.name >> \o r)[1] = a.name
      BY <1>2, <3>1, <3>4
    <3>6. a.name = n
      BY <2>0, <3>4, <3>5
    <3>7. q = r
      <4>1. << n >> \o q = << n >> \o r
        BY <3>4, <3>6
      <4>2. QED
        BY <3>5, <4>1, CancelName
    <3>8. QED
      BY <3>1, <3>4, <3>6, <3>7
  <2>2. ASSUME d >= 1, Readable(c, o), NEW a \in Elements(c.trees[o]),
               a.name = n, IsTree(a), << q, e >> \in Deep(c, a.oid, d - 1)
        PROVE  << << n >> \o q, e >> \in Deep(c, o, d)
    BY <2>2, DeepUnfolds DEF Split
  <2>3. QED
    BY <2>1, <2>2
<1>5. QED
  BY <1>3, <1>4

-----------------------------------------------------------------------------
(* Where a tree sits.                                                      *)

\* Below path p, and as far as the horizon, T is what tree o holds.
Sits(c, T, p, o) ==
  \A q \in Path : \A e : q # << >> =>
    (<< p \o q, e >> \in T <=> << q, e >> \in Deep(c, o, Horizon - Len(p)))

\* One name more, one level less.
LEMMA SitsDepth ==
  ASSUME NEW p \in Path
  PROVE  /\ Horizon - Len(p) \in Int /\ Horizon - Len(p) <= Horizon
         /\ \A n \in Name : Horizon - Len(Append(p, n)) = (Horizon - Len(p)) - 1
<1>1. Len(p) \in Nat /\ \A n \in Name : Len(Append(p, n)) = Len(p) + 1
  BY PathFacts, LenProperties DEF Path
<1>2. QED
  BY <1>1, HorizonAssumption

\* What is at a name of it.
LEMMA SitsAt ==
  ASSUME NEW c \in Input, NEW T, NEW p \in Path, NEW o, Sits(c, T, p, o), NEW n \in Name, NEW e
  PROVE  << Append(p, n), e >> \in T <=>
           Len(p) < Horizon /\ Readable(c, o) /\ e \in Elements(c.trees[o]) /\ e.name = n
<1>1. << n >> \in Path /\ << n >> # << >> /\ Append(p, n) = p \o << n >>
  BY PathFacts
<1>2. << Append(p, n), e >> \in T <=> << << n >>, e >> \in Deep(c, o, Horizon - Len(p))
  BY <1>1 DEF Sits
<1>3. Len(p) < Horizon <=> Horizon - Len(p) >= 1
  BY HorizonAssumption, PathFacts
<1>4. << << n >>, e >> \in Deep(c, o, Horizon - Len(p)) <=> IsAt(c, o, Horizon - Len(p), n, e)
  BY DeepAt, SitsDepth
<1>5. QED
  BY <1>2, <1>3, <1>4 DEF IsAt

\* What is further below a name of it.
Under(c, p, o, n, q, e) ==
  /\ Len(p) < Horizon /\ Readable(c, o)
  /\ \E a \in Elements(c.trees[o]) :
       /\ a.name = n /\ IsTree(a)
       /\ << q, e >> \in Deep(c, a.oid, Horizon - Len(Append(p, n)))

\* The walk's own steps: what lies further below a name of a tree on its spine is
\* what lies below the subtree that name points at.
LEMMA SitsUnder ==
  ASSUME NEW c \in Input, NEW T, NEW p \in Path, NEW o, Sits(c, T, p, o), NEW n \in Name,
         NEW q \in Path, q # << >>, NEW e
  PROVE  << Append(p, n) \o q, e >> \in T <=> Under(c, p, o, n, q, e)
<1> DEFINE r == << n >> \o q
<1>1. << n >> \in Path /\ Append(p, n) \o q = p \o r
  <2>1. << n >> \in Path
    BY NameFacts
  <2>2. Append(p, n) \o q = p \o (<< n >> \o q)
    BY PathAssoc
  <2>3. QED
    BY <2>1, <2>2, Zenon DEF r
<1>2. r \in Path /\ r # << >>
  <2>1. r \in Path /\ Len(r) = Len(<< n >>) + Len(q) /\ Len(<< n >>) = 1 /\ Len(q) \in Nat
    BY <1>1, PathFacts, PathConcat
  <2> HIDE DEF r
  <2>2. QED
    BY <2>1, PathFacts
<1>3. << r, e >> \in Deep(c, o, Horizon - Len(p)) <=>
           /\ Horizon - Len(p) >= 1 /\ Readable(c, o)
           /\ \E a \in Elements(c.trees[o]) :
                a.name = n /\ IsTree(a) /\ << q, e >> \in Deep(c, a.oid, (Horizon - Len(p)) - 1)
  <2> DEFINE d == Horizon - Len(p)
  <2>1. d \in Int /\ d <= Horizon
    BY SitsDepth
  <2> HIDE DEF d
  <2>2. << << n >> \o q, e >> \in Deep(c, o, d) <=> IsUnder(c, o, d, n, q, e)
    BY <2>1, DeepAt
  <2>3. QED
    BY <2>2, Zenon DEF d, r, IsUnder
<1> HIDE DEF r
<1>4. << Append(p, n) \o q, e >> \in T <=> << r, e >> \in Deep(c, o, Horizon - Len(p))
  BY <1>1, <1>2 DEF Sits
<1>5. Len(p) < Horizon <=> Horizon - Len(p) >= 1
  BY HorizonAssumption, PathFacts
<1>6. QED
  <2>1. Horizon - Len(Append(p, n)) = (Horizon - Len(p)) - 1
    BY SitsDepth
  <2>2. QED
    BY <1>3, <1>4, <1>5, <2>1 DEF Under

\* A subtree sits one name further.
LEMMA SitsBelow ==
  ASSUME NEW c \in Input, NoTwins(c), NEW T, NEW p \in Path, NEW o, Sits(c, T, p, o),
         Readable(c, o), NEW a \in Elements(c.trees[o]), IsTree(a)
  PROVE  Sits(c, T, Append(p, a.name), a.oid)
<1>1. a.name \in Name /\ a.oid \in OID
  BY InputFacts DEF Readable
<1>2. Append(p, a.name) \in Path
  BY <1>1, PathFacts
<1>3. \A b \in Elements(c.trees[o]) : b.name = a.name => b = a
  BY DEF NoTwins, Distinct, Elements, Readable
<1> SUFFICES ASSUME NEW q \in Path, NEW e, q # << >>
             PROVE  << Append(p, a.name) \o q, e >> \in T <=>
                      << q, e >> \in Deep(c, a.oid, Horizon - Len(Append(p, a.name)))
  BY DEF Sits
<1>4. << Append(p, a.name) \o q, e >> \in T <=> Under(c, p, o, a.name, q, e)
  BY <1>1, SitsUnder
<1>5. Len(p) >= Horizon => << q, e >> \notin Deep(c, a.oid, Horizon - Len(Append(p, a.name)))
  <2>1. Len(p) \in Nat /\ Len(Append(p, a.name)) = Len(p) + 1 /\ Horizon \in Nat
    BY <1>1, PathFacts, HorizonAssumption
  <2>2. Len(p) >= Horizon => Horizon - Len(Append(p, a.name)) \notin 1 .. Horizon
    BY <2>1
  <2>3. QED
    BY <2>2 DEF Deep
<1>6. Len(p) < Horizon \/ Len(p) >= Horizon
  BY PathFacts, HorizonAssumption
<1>7. QED
  BY <1>3, <1>4, <1>5, <1>6 DEF Under

\* Nothing sits where there is no subtree.
LEMMA SitsNowhere ==
  ASSUME NEW c \in Input, NEW T, NEW p \in Path, NEW o, Sits(c, T, p, o), NEW n \in Name,
         Readable(c, o) => \A a \in Elements(c.trees[o]) : ~(a.name = n /\ IsTree(a))
  PROVE  Sits(c, T, Append(p, n), NoTree)
<1>1. NoTree \notin OID
  BY OIDAssumption
<1>2. ASSUME NEW q \in Path, NEW e, q # << >>
      PROVE  /\ << Append(p, n) \o q, e >> \notin T
             /\ << q, e >> \notin Deep(c, NoTree, Horizon - Len(Append(p, n)))
  <2>1. << Append(p, n) \o q, e >> \in T <=> Under(c, p, o, n, q, e)
    BY <1>2, SitsUnder
  <2>2. QED
    BY <1>1, <2>1 DEF Deep, Under
<1>3. QED
  BY <1>2 DEF Sits

\* The contents that the properties speak of, from the root on.
HasNow(c) == Content(c.trees)[c.new]
HadThen(c) == IF c.old = NoTree THEN {} ELSE Content(c.trees)[c.old]

\* The root trees sit at the empty path.
LEMMA RootSits ==
  ASSUME NEW c \in Input
  PROVE  /\ Sits(c, HasNow(c), << >>, c.new) /\ Sits(c, HadThen(c), << >>, c.old)
         /\ \A q, e : << q, e >> \in HasNow(c) \cup HadThen(c) =>
                        q \in Path /\ q # << >> /\ e \in Entry /\ Len(q) <= Horizon
         /\ HasNow(c) \subseteq Path \X Entry /\ HadThen(c) \subseteq Path \X Entry
<1>1. Horizon \in Nat /\ c.new \in OID /\ c.old \in OID \cup {NoTree}
  BY InputFacts DEF IsInput
<1>2. \A o \in OID : Content(c.trees)[o] = Deep(c, o, Horizon)
  <2> SUFFICES ASSUME NEW o \in OID PROVE Levels(c.trees)[Horizon][o] = Deep(c, o, Horizon)
    BY ContentIsTopLevel
  <2>1. CASE Horizon = 0
    <3>0. 0 \in 0 .. Horizon
      BY <1>1
    <3>1. Levels(c.trees)[0][o] = {}
      BY <3>0, LevelsFacts
    <3>2. QED
      BY <2>1, <3>1 DEF Deep
  <2>2. CASE Horizon # 0
    BY <1>1, <2>2 DEF Deep
  <2>3. QED
    BY <2>1, <2>2
<1>3. HasNow(c) = Deep(c, c.new, Horizon) /\ HadThen(c) = Deep(c, c.old, Horizon)
  <2>1. NoTree \notin OID
    BY OIDAssumption
  <2>2. QED
    BY <1>1, <1>2, <2>1 DEF HasNow, HadThen, Deep
<1>4. Horizon - Len(<< >>) = Horizon
  BY <1>1
<1>5. \A q \in Path : << >> \o q = q
  BY ConcatEmptySeq DEF Path
<1>6. Sits(c, HasNow(c), << >>, c.new) /\ Sits(c, HadThen(c), << >>, c.old)
  BY <1>3, <1>4, <1>5 DEF Sits
<1>7. \A q, e : << q, e >> \in HasNow(c) \cup HadThen(c) =>
                        q \in Path /\ q # << >> /\ e \in Entry /\ Len(q) <= Horizon
  BY <1>1, <1>3, DeepPaths
<1>8. \A o : Deep(c, o, Horizon) \subseteq Path \X Entry
  BY <1>1, LevelsFacts DEF Deep
<1>9. QED
  BY <1>3, <1>6, <1>7, <1>8

-----------------------------------------------------------------------------
(* What a recursive call is about.                                         *)

\* The trees of a call are those at its path, in the new and in the old root.
Focus(c, a) ==
  /\ a.path \in Path
  /\ Sits(c, HasNow(c), a.path, a.new)
  /\ c.job = "diff" => Sits(c, HadThen(c), a.path, a.old)
  /\ a.path = << >> => a.new = c.new
  /\ a.path # << >> =>
       /\ Len(a.path) <= Horizon => \E e : << a.path, e >> \in HasNow(c)
       /\ \A e : << a.path, e >> \in HasNow(c) => IsTree(e) /\ e.oid = a.new
       /\ c.job = "diff" =>
            \A e : << a.path, e >> \in HadThen(c) /\ IsTree(e) => e.oid = a.old

\* The first call is about the roots.
LEMMA RootFocus ==
  ASSUME NEW c \in Input
  PROVE  Focus(c, [old |-> c.old, new |-> c.new, path |-> << >>])
<1>1. << >> \in Path
  BY EmptySeq DEF Path
<1>2. QED
  BY <1>1, RootSits DEF Focus

\* The old tree that a subtree is compared with: the one of its name, or none.
Counterpart(c, o, n, b) ==
  \/ Readable(c, o) /\ \E x \in Elements(c.trees[o]) : x.name = n /\ IsTree(x) /\ b = x.oid
  \/ b = NoTree /\ (Readable(c, o) => \A x \in Elements(c.trees[o]) : ~(x.name = n /\ IsTree(x)))

\* A call for a subtree is about the trees one name further.
LEMMA CallFocus ==
  ASSUME NEW c \in Input, NoTwins(c), NEW a, Focus(c, a), Readable(c, a.new),
         NEW e \in Elements(c.trees[a.new]), IsTree(e),
         NEW b, b.new = e.oid, b.path = Append(a.path, e.name),
         c.job = "diff" => Counterpart(c, a.old, e.name, b.old)
  PROVE  Focus(c, b)
<1>1. e.name \in Name /\ e.oid \in OID
  BY InputFacts DEF Readable
<1>2. a.path \in Path /\ b.path \in Path /\ b.path # << >> /\ Len(b.path) = Len(a.path) + 1
      /\ Len(a.path) \in Nat
  <2>1. a.path \in Path
    BY DEF Focus
  <2> DEFINE r == Append(a.path, e.name)
  <2>2. r \in Path /\ r # << >> /\ Len(r) = Len(a.path) + 1 /\ Len(a.path) \in Nat
    BY <1>1, <2>1, PathFacts
  <2>3. b.path = r
    OBVIOUS
  <2> HIDE DEF r
  <2>4. QED
    BY <2>1, <2>2, <2>3
<1>3. Sits(c, HasNow(c), b.path, b.new)
  BY <1>2, SitsBelow DEF Focus
<1>4. ASSUME c.job = "diff" PROVE Sits(c, HadThen(c), b.path, b.old)
  <2>1. Sits(c, HadThen(c), a.path, a.old)
    BY <1>4 DEF Focus
  <2>2. CASE Readable(c, a.old)
             /\ \E x \in Elements(c.trees[a.old]) : x.name = e.name /\ IsTree(x) /\ b.old = x.oid
    BY <1>2, <2>1, <2>2, SitsBelow
  <2>3. CASE b.old = NoTree /\ (Readable(c, a.old) =>
                \A x \in Elements(c.trees[a.old]) : ~(x.name = e.name /\ IsTree(x)))
    BY <1>1, <1>2, <2>1, <2>3, SitsNowhere
  <2>4. QED
    BY <1>4, <2>2, <2>3 DEF Counterpart
<1>5. ASSUME NEW x
      PROVE  << b.path, x >> \in HasNow(c) <=>
               Len(a.path) < Horizon /\ x \in Elements(c.trees[a.new]) /\ x.name = e.name
  <2>1. Sits(c, HasNow(c), a.path, a.new)
    BY DEF Focus
  <2>2. QED
    BY <1>1, <1>2, <2>1, SitsAt
<1>6. \A x \in Elements(c.trees[a.new]) : x.name = e.name => x = e
  BY DEF NoTwins, Distinct, Elements, Readable
<1>7. Len(b.path) <= Horizon => << b.path, e >> \in HasNow(c)
  BY <1>2, <1>5, HorizonAssumption
<1>8. \A x : << b.path, x >> \in HasNow(c) => IsTree(x) /\ x.oid = b.new
  BY <1>5, <1>6
<1>9. ASSUME c.job = "diff", NEW x, << b.path, x >> \in HadThen(c), IsTree(x)
      PROVE  x.oid = b.old
  <2>1. Readable(c, a.old) /\ x \in Elements(c.trees[a.old]) /\ x.name = e.name
    BY <1>1, <1>2, <1>9, SitsAt DEF Focus
  <2>2. \A y \in Elements(c.trees[a.old]) : y.name = e.name => y = x
    BY <2>1 DEF NoTwins, Distinct, Elements, Readable
  <2>3. QED
    BY <1>9, <2>1, <2>2 DEF Counterpart
<1>10. QED
  BY <1>2, <1>3, <1>4, <1>7, <1>8, <1>9 DEF Focus

-----------------------------------------------------------------------------
(* What a walk has behind it.                                              *)

Args      == [old : OID \cup {NoTree}, new : OID, path : Path]
DiffFrame == [of : Args, old : Seq(Entry), i : Nat, new : Seq(Entry), k : Nat]
WalkFrame == [of : Args, new : Seq(Entry), k : Nat]
Frame     == DiffFrame \cup WalkFrame

\* Old entries that the merge has passed come before the new ones ahead.
Merging(c, f) ==
  /\ f \in DiffFrame
  /\ Increasing(f.old) /\ Increasing(f.new) /\ f.i \in 1 .. Len(f.old) + 1
  /\ Elements(f.old) = IF Readable(c, f.of.old) THEN Elements(c.trees[f.of.old]) ELSE {}
  /\ \A a \in 1 .. f.i - 1, b \in f.k .. Len(f.new) : Precedes(f.old[a], f.new[b])

FrameGood(c, f) ==
  /\ f \in Frame /\ Focus(c, f.of) /\ Readable(c, f.of.new)
  /\ Distinct(f.new) /\ Elements(f.new) = Elements(c.trees[f.of.new])
  /\ f.k \in 1 .. Len(f.new) + 1
  /\ IF c.job = "diff" THEN Merging(c, f) ELSE f \in WalkFrame

\* The path of an entry of a frame; the call that the frame is waiting for.
At(f, i)        == Append(f.of.path, f.new[i].name)
Called(f, p)    == f.k > 1 /\ p = At(f, f.k - 1)
Follows(p, s, m) ==
  Len(p) = m /\ \A a \in 1 .. m : s[a].k > 1 /\ p[a] = s[a].new[s[a].k - 1].name
Spine(s) ==
  \A j \in 1 .. Len(s) : /\ Follows(s[j].of.path, s, j - 1)
                         /\ j > 1 => Called(s[j - 1], s[j].of.path)

\* What has been dealt with: with a call pending, its entry has not.
Bound(s, pending, j)  == IF j = Len(s) /\ ~pending THEN s[j].k ELSE s[j].k - 1
Behind(s, pending, q) ==
  \E j \in 1 .. Len(s) : \E i \in 1 .. Len(s[j].new) :
    i < Bound(s, pending, j) /\ Starts(q, At(s[j], i))

\* A file that a walk is to report, and one that it must refuse.
Wanted(c, q, o) ==
  /\ q \notin c.unwanted
  /\ \E e : << q, e >> \in HasNow(c) /\ IsBlob(e) /\ e.oid = o
  /\ c.job = "diff" => \A x : ~(<< q, x >> \in HadThen(c) /\ x.oid = o /\ ~IsTree(x))
RefusedAt(c, q, e) ==
  /\ IsTree(e)
  /\ \/ ~Readable(c, e.oid) \/ Len(q) > MaxTreeDepth \/ e.oid = c.new
     \/ \E r \in Path : \E x : /\ << r, x >> \in HasNow(c) /\ IsTree(x) /\ x.oid = e.oid
                         /\ Len(r) < Len(q) /\ Starts(q, r)

\* It has reported, once each, the wanted files that are behind it.
Exact(c, em, s, pending) ==
  /\ em \in Seq(Path \X OID)
  /\ IsFiniteSet(Elements(em)) /\ Cardinality(Elements(em)) = Len(em)
  /\ \A x \in Elements(em) : Behind(s, pending, x[1])
  /\ \A q \in Path : \A o : Len(q) <= Horizon =>
       (<< q, o >> \in Elements(em) <=> Wanted(c, q, o) /\ Behind(s, pending, q))

\* Nothing that it should have refused is behind it, or being walked.
Careful(c, s, pending) ==
  c.job = "traverse" =>
    \A q \in Path : \A e : << q, e >> \in HasNow(c)
      /\ (Behind(s, pending, q) \/ \E j \in 2 .. Len(s) : q = s[j].of.path)
      => ~RefusedAt(c, q, e)

Pending(c, s, a) ==
  /\ a \in Args /\ Focus(c, a)
  /\ IF s = << >> THEN a.path = << >> ELSE Called(s[Len(s)], a.path)

Walk(c, em, s, a, pending) ==
  /\ s \in Seq(Frame) /\ \A j \in 1 .. Len(s) : FrameGood(c, s[j])
  /\ Spine(s) /\ Exact(c, em, s, pending) /\ Careful(c, s, pending)
  /\ IF pending THEN Pending(c, s, a) ELSE s # << >>

\* The types of a frame.
LEMMA FrameFacts ==
  ASSUME NEW c \in Input, NEW f, FrameGood(c, f)
  PROVE  /\ f.of \in Args /\ f.of.path \in Path /\ f.of.new \in OID
         /\ f.new \in Seq(Entry) /\ Len(f.new) \in Nat /\ DOMAIN f.new = 1 .. Len(f.new)
         /\ f.k \in Nat /\ f.k > 0 /\ f.k <= Len(f.new) + 1
         /\ \A i \in 1 .. Len(f.new) :
              /\ f.new[i] \in Entry /\ f.new[i] \in Elements(c.trees[f.of.new])
              /\ f.new[i].name \in Name /\ f.new[i].oid \in OID
              /\ At(f, i) \in Path /\ Len(At(f, i)) = Len(f.of.path) + 1
              /\ At(f, i)[Len(f.of.path) + 1] = f.new[i].name
              /\ \A m \in 1 .. Len(f.of.path) : At(f, i)[m] = f.of.path[m]
<1>1. f \in DiffFrame \/ f \in WalkFrame
  BY DEF FrameGood, Frame
<1>2. f.of \in Args /\ f.new \in Seq(Entry) /\ f.k \in Nat
  BY <1>1 DEF DiffFrame, WalkFrame
<1>3. f.of.path \in Path /\ f.of.new \in OID
  BY <1>2 DEF Args
<1>4. Len(f.new) \in Nat /\ DOMAIN f.new = 1 .. Len(f.new) /\ \A i \in 1 .. Len(f.new) : f.new[i] \in Entry
  BY <1>2, LenProperties, ElementOfSeq
<1>5. f.k > 0 /\ f.k <= Len(f.new) + 1
  BY <1>2, <1>4 DEF FrameGood
<1>6. ASSUME NEW i \in 1 .. Len(f.new)
      PROVE  /\ f.new[i] \in Elements(c.trees[f.of.new])
             /\ f.new[i].name \in Name /\ f.new[i].oid \in OID
             /\ At(f, i) \in Path /\ Len(At(f, i)) = Len(f.of.path) + 1
             /\ At(f, i)[Len(f.of.path) + 1] = f.new[i].name
             /\ \A m \in 1 .. Len(f.of.path) : At(f, i)[m] = f.of.path[m]
  <2>1. f.new[i] \in Elements(f.new) /\ Elements(f.new) = Elements(c.trees[f.of.new])
    BY <1>4 DEF Elements, FrameGood
  <2>2. f.new[i].name \in Name /\ f.new[i].oid \in OID
    BY <1>4 DEF Entry
  <2>3. QED
    BY <1>3, <2>1, <2>2, PathFacts DEF At
<1>7. QED
  BY <1>2, <1>3, <1>4, <1>5, <1>6

\* A path goes through itself.
LEMMA StartsItself ==
  ASSUME NEW p \in Path
  PROVE  Starts(p, p)
<1>1. Len(p) \in Nat
  BY LenProperties DEF Path
<1>2. QED
  BY <1>1 DEF Starts

\* A path that goes through another's extension goes through that one.
LEMMA StartsFurther ==
  ASSUME NEW p \in Path, NEW n \in Name, NEW q \in Path, Starts(q, Append(p, n))
  PROVE  Starts(q, p) /\ Len(p) < Len(q) /\ q[Len(p) + 1] = n
<1>1. /\ Len(p) \in Nat /\ Len(q) \in Nat /\ Len(Append(p, n)) = Len(p) + 1
      /\ Append(p, n)[Len(p) + 1] = n
      /\ \A m \in 1 .. Len(p) : Append(p, n)[m] = p[m]
  BY PathFacts
<1>2. QED
  BY <1>1 DEF Starts

\* A path that is longer than one it goes through has the next name, too.
LEMMA StartsLess ==
  ASSUME NEW p \in Path, NEW n \in Name, NEW q \in Path, Starts(q, p), Len(p) < Len(q),
         q[Len(p) + 1] = n
  PROVE  Starts(q, Append(p, n))
<1>1. /\ Len(p) \in Nat /\ Len(q) \in Nat /\ Len(Append(p, n)) = Len(p) + 1
      /\ Append(p, n)[Len(p) + 1] = n
      /\ \A m \in 1 .. Len(p) : Append(p, n)[m] = p[m]
  BY PathFacts
<1>2. QED
  BY <1>1 DEF Starts

\* Whatever is below the tree of a frame is at or below one of its entries.
LEMMA AllBelow ==
  ASSUME NEW c \in Input, NEW f, FrameGood(c, f), NEW q \in Path, NEW e,
         << q, e >> \in HasNow(c), Starts(q, f.of.path), q # f.of.path
  PROVE  \E i \in 1 .. Len(f.new) : Starts(q, At(f, i))
<1> DEFINE p == f.of.path
<1>1. p \in Path /\ Sits(c, HasNow(c), p, f.of.new)
  BY DEF FrameGood, Focus
<1>2. PICK r \in Path : r # << >> /\ q = p \o r
  BY <1>1, StartsSplit
<1>3. PICK n \in Name, s \in Path : r = << n >> \o s
  BY <1>2, NonEmptyPath
<1>4. q = Append(p, n) \o s
  BY <1>1, <1>2, <1>3, PathAssoc
<1>5. Append(p, n) \in Path
  BY <1>1, PathFacts
<1>6. Starts(q, Append(p, n))
  BY <1>4, <1>5, PathConcat
<1>7. \E a \in Elements(c.trees[f.of.new]) : a.name = n
  <2>1. CASE s = << >>
    <3>1. q = Append(p, n)
      BY <1>4, <1>5, <2>1, PathConcat
    <3>2. << Append(p, n), e >> \in HasNow(c)
      BY <3>1
    <3>3. e \in Elements(c.trees[f.of.new]) /\ e.name = n
      BY <1>1, <3>2, SitsAt
    <3>4. QED
      BY <3>3
  <2>2. CASE s # << >>
    <3>1. << Append(p, n) \o s, e >> \in HasNow(c)
      BY <1>4
    <3>2. Under(c, p, f.of.new, n, s, e)
      BY <1>1, <2>2, <3>1, SitsUnder
    <3>3. QED
      BY <3>2 DEF Under
  <2>3. QED
    BY <2>1, <2>2
<1>8. PICK a \in Elements(f.new) : a.name = n
  BY <1>7 DEF FrameGood
<1>9. PICK i \in 1 .. Len(f.new) : f.new[i] = a
  BY FrameFacts DEF Elements
<1>10. At(f, i) = Append(p, n)
  BY <1>8, <1>9 DEF At
<1>11. QED
  BY <1>6, <1>10

\* The types of a stack.
LEMMA StackFacts ==
  ASSUME NEW s \in Seq(Frame)
  PROVE  Len(s) \in Nat /\ DOMAIN s = 1 .. Len(s) /\ \A j \in 1 .. Len(s) : s[j] \in Frame
BY LenProperties, ElementOfSeq

\* The entry that a walk comes to is not behind it.
LEMMA Fresh ==
  ASSUME NEW c \in Input, NEW s \in Seq(Frame), \A j \in 1 .. Len(s) : FrameGood(c, s[j]),
         Spine(s), s # << >>, s[Len(s)].k <= Len(s[Len(s)].new)
  PROVE  ~Behind(s, FALSE, At(s[Len(s)], s[Len(s)].k))
<1> DEFINE n == Len(s)  f == s[n]  r == At(f, f.k)
<1>1. n \in Nat /\ n > 0
  BY StackFacts, EmptySeq
<1>2. /\ FrameGood(c, f) /\ f.k \in 1 .. Len(f.new) /\ Len(f.of.path) = n - 1
      /\ r \in Path /\ r[n] = f.new[f.k].name /\ \A m \in 1 .. n - 1 : r[m] = f.of.path[m]
  <2>1. FrameGood(c, f)
    BY <1>1
  <2>2. Len(f.of.path) = n - 1 /\ (n - 1) + 1 = n
    BY <1>1 DEF Spine, Follows
  <2> HIDE DEF n, f
  <2>3. f.k \in 1 .. Len(f.new)
    BY <2>1, FrameFacts DEF n, f
  <2>4. QED
    BY <2>1, <2>2, <2>3, FrameFacts
<1> SUFFICES ASSUME NEW j \in 1 .. n, NEW i \in 1 .. Len(s[j].new), i < Bound(s, FALSE, j),
                    Starts(r, At(s[j], i))
             PROVE  FALSE
  BY DEF Behind
<1>3. FrameGood(c, s[j]) /\ Len(s[j].of.path) = j - 1
  BY DEF Spine, Follows
<1>4. r[j] = s[j].new[i].name
  <2>1. At(s[j], i) \in Path /\ Len(At(s[j], i)) = j /\ At(s[j], i)[j] = s[j].new[i].name
    BY <1>1, <1>3, FrameFacts
  <2>2. QED
    BY <1>1, <2>1 DEF Starts
<1>5. CASE j = n
  <2>1. i \in DOMAIN f.new /\ f.k \in DOMAIN f.new /\ i < f.k
    BY <1>2, <1>5, FrameFacts DEF Bound
  <2>2. f.new[i].name = f.new[f.k].name
    BY <1>2, <1>4, <1>5
  <2>3. i = f.k
    BY <1>2, <2>1, <2>2 DEF FrameGood, Distinct
  <2>4. QED
    BY <1>2, <2>1, <2>3
<1>6. CASE j # n
  <2>1. j \in 1 .. n - 1 /\ n \in 1 .. Len(s)
    BY <1>1, <1>6
  <2>2. s[j].k > 1 /\ f.of.path[j] = s[j].new[s[j].k - 1].name
    BY <2>1 DEF Spine, Follows
  <2>3. r[j] = f.of.path[j]
    BY <1>2, <2>1
  <2>4. i \in DOMAIN s[j].new /\ s[j].k - 1 \in DOMAIN s[j].new /\ i < s[j].k - 1
    <3>1. s[j].k \in Nat /\ s[j].k <= Len(s[j].new) + 1 /\ DOMAIN s[j].new = 1 .. Len(s[j].new)
          /\ Len(s[j].new) \in Nat
      BY <1>3, FrameFacts
    <3>2. i < s[j].k - 1
      BY <1>6 DEF Bound
    <3>3. QED
      BY <2>2, <3>1, <3>2
  <2>5. i = s[j].k - 1
    BY <1>3, <1>4, <2>2, <2>3, <2>4 DEF FrameGood, Distinct
  <2>6. QED
    BY <2>4, <2>5
<1>7. QED
  BY <1>5, <1>6

-----------------------------------------------------------------------------
(* The steps of a walk.                                                    *)

\* The top frame goes on by one entry.
Moved(s, t) ==
  /\ t \in Seq(Frame) /\ Len(t) = Len(s)
  /\ \A j \in 1 .. Len(s) - 1 : t[j] = s[j]
  /\ t[Len(s)].of = s[Len(s)].of /\ t[Len(s)].new = s[Len(s)].new
  /\ t[Len(s)].k = s[Len(s)].k + 1

\* What is said of the frames does not depend on how far the top one is.
LEMMA MovedSpine ==
  ASSUME NEW s \in Seq(Frame), Spine(s), s # << >>, NEW t, Moved(s, t)
  PROVE  /\ Spine(t) /\ t # << >>
         /\ \A j \in 1 .. Len(s) : t[j].of = s[j].of /\ t[j].new = s[j].new
         /\ \A i : At(t[Len(s)], i) = At(s[Len(s)], i)
<1>1. Len(s) \in Nat /\ Len(s) > 0 /\ Len(t) = Len(s)
  BY StackFacts, EmptySeq DEF Moved
<1>2. \A j \in 1 .. Len(s) : t[j].of = s[j].of /\ t[j].new = s[j].new
  BY <1>1 DEF Moved
<1>3. \A i : At(t[Len(s)], i) = At(s[Len(s)], i)
  BY <1>1, <1>2 DEF At
<1>4. ASSUME NEW j \in 1 .. Len(t)
      PROVE  /\ Follows(t[j].of.path, t, j - 1)
             /\ j > 1 => Called(t[j - 1], t[j].of.path)
  <2>1. j \in 1 .. Len(s) /\ t[j].of = s[j].of
    BY <1>1, <1>2
  <2>2. \A a \in 1 .. j - 1 : t[a] = s[a]
    BY <1>1, <2>1 DEF Moved
  <2>3. Follows(s[j].of.path, s, j - 1) /\ (j > 1 => Called(s[j - 1], s[j].of.path))
    BY <2>1 DEF Spine
  <2>4. Follows(t[j].of.path, t, j - 1)
    BY <2>1, <2>2, <2>3 DEF Follows
  <2>5. j > 1 => Called(t[j - 1], t[j].of.path)
    <3>1. j > 1 => j - 1 \in 1 .. j - 1
      BY <1>1
    <3>2. QED
      BY <2>1, <2>2, <2>3, <3>1
  <2>6. QED
    BY <2>4, <2>5
<1>5. Spine(t)
  BY <1>4 DEF Spine
<1>6. t # << >>
  BY <1>1, EmptySeq
<1>7. QED
  BY <1>2, <1>3, <1>5, <1>6

\* What is behind the frames below the top one, which all wait for a call.
BelowTop(s, q) ==
  \E j \in 1 .. Len(s) - 1 : \E i \in 1 .. Len(s[j].new) :
    i < s[j].k - 1 /\ Starts(q, At(s[j], i))
AtTop(s, b, q) ==
  \E i \in 1 .. Len(s[Len(s)].new) : i < b /\ Starts(q, At(s[Len(s)], i))

\* What is behind a walk is so at its top frame, or at one below.
LEMMA BehindSplit ==
  ASSUME NEW s, Len(s) \in Nat, Len(s) > 0, NEW pending, NEW q
  PROVE  Behind(s, pending, q) <=>
           BelowTop(s, q) \/ AtTop(s, IF pending THEN s[Len(s)].k - 1 ELSE s[Len(s)].k, q)
<1> DEFINE n == Len(s)
           Level(j) == \E i \in 1 .. Len(s[j].new) :
                         i < Bound(s, pending, j) /\ Starts(q, At(s[j], i))
<1>1. Behind(s, pending, q) <=> \E j \in 1 .. n : Level(j)
  BY DEF Behind
<1>2. (\E j \in 1 .. n : Level(j)) <=> (\E j \in 1 .. n - 1 : Level(j)) \/ Level(n)
  <2> HIDE DEF Level
  <2>1. \A j \in 1 .. n : j = n \/ j \in 1 .. n - 1
    OBVIOUS
  <2>2. n \in 1 .. n /\ \A j \in 1 .. n - 1 : j \in 1 .. n
    OBVIOUS
  <2>3. QED
    BY <2>1, <2>2
<1>3. \A j \in 1 .. n - 1 : Bound(s, pending, j) = s[j].k - 1
  BY DEF Bound
<1>4. (\E j \in 1 .. n - 1 : Level(j)) <=> BelowTop(s, q)
  BY <1>3 DEF BelowTop
<1>5. Level(n) <=> AtTop(s, IF pending THEN s[n].k - 1 ELSE s[n].k, q)
  BY DEF AtTop, Bound
<1>6. QED
  BY <1>1, <1>2, <1>4, <1>5

\* The types of the top frame.
LEMMA TopFacts ==
  ASSUME NEW c \in Input, NEW s \in Seq(Frame), \A j \in 1 .. Len(s) : FrameGood(c, s[j]), s # << >>
  PROVE  /\ Len(s) \in Nat /\ Len(s) > 0 /\ Len(s) \in 1 .. Len(s)
         /\ FrameGood(c, s[Len(s)])
         /\ s[Len(s)].k \in Nat /\ s[Len(s)].k > 0 /\ s[Len(s)].k <= Len(s[Len(s)].new) + 1
         /\ Len(s[Len(s)].new) \in Nat
<1>1. Len(s) \in Nat /\ Len(s) > 0 /\ Len(s) \in 1 .. Len(s)
  BY StackFacts, EmptySeq
<1>2. FrameGood(c, s[Len(s)])
  BY <1>1
<1>3. QED
  BY <1>1, <1>2, FrameFacts

\* A call that has been dealt with.
LEMMA SettledBehind ==
  ASSUME NEW c \in Input, NEW s \in Seq(Frame), \A j \in 1 .. Len(s) : FrameGood(c, s[j]),
         s # << >>, s[Len(s)].k > 1, NEW q
  PROVE  Behind(s, FALSE, q) <=>
           Behind(s, TRUE, q) \/ Starts(q, At(s[Len(s)], s[Len(s)].k - 1))
<1> DEFINE f == s[Len(s)]
<1>1. /\ Len(s) \in Nat /\ Len(s) > 0
      /\ f.k \in Nat /\ f.k > 1 /\ f.k <= Len(f.new) + 1 /\ Len(f.new) \in Nat
  BY TopFacts
<1>2. /\ Behind(s, FALSE, q) <=> BelowTop(s, q) \/ AtTop(s, f.k, q)
      /\ Behind(s, TRUE, q) <=> BelowTop(s, q) \/ AtTop(s, f.k - 1, q)
  BY <1>1, BehindSplit
<1> HIDE DEF f
<1>3. \A i \in 1 .. Len(f.new) : i < f.k <=> i < f.k - 1 \/ i = f.k - 1
  BY <1>1
<1>4. f.k - 1 \in 1 .. Len(f.new)
  BY <1>1
<1>5. AtTop(s, f.k, q) <=> AtTop(s, f.k - 1, q) \/ Starts(q, At(f, f.k - 1))
  BY <1>3, <1>4 DEF AtTop, f
<1>6. QED
  BY <1>2, <1>5 DEF f

\* The entry has been dealt with, or is left to a call.
LEMMA MovedBehind ==
  ASSUME NEW c \in Input, NEW s \in Seq(Frame), \A j \in 1 .. Len(s) : FrameGood(c, s[j]),
         Spine(s), s # << >>, s[Len(s)].k <= Len(s[Len(s)].new), NEW t, Moved(s, t), NEW q
  PROVE  /\ Behind(t, FALSE, q) <=>
              Behind(s, FALSE, q) \/ Starts(q, At(s[Len(s)], s[Len(s)].k))
         /\ Behind(t, TRUE, q) <=> Behind(s, FALSE, q)
<1> DEFINE n == Len(s)  f == s[n]
<1>1. n \in Nat /\ n > 0 /\ Len(t) = n /\ n \in 1 .. n
  BY TopFacts DEF Moved
<1>2. /\ t[n].new = f.new /\ t[n].k = f.k + 1 /\ f.k \in Nat
      /\ f.k \in 1 .. Len(f.new) /\ Len(f.new) \in Nat
  BY TopFacts DEF Moved
<1>3. BelowTop(t, q) <=> BelowTop(s, q)
  BY <1>1 DEF Moved, BelowTop
<1>4. \A b : AtTop(t, b, q) <=> AtTop(s, b, q)
  <2>1. \A i : At(t[n], i) = At(s[n], i)
    BY MovedSpine
  <2>2. QED
    BY <1>1, <1>2, <2>1 DEF AtTop
<1>5. /\ Behind(s, FALSE, q) <=> BelowTop(s, q) \/ AtTop(s, f.k, q)
      /\ Behind(t, FALSE, q) <=> BelowTop(t, q) \/ AtTop(t, t[n].k, q)
      /\ Behind(t, TRUE, q) <=> BelowTop(t, q) \/ AtTop(t, t[n].k - 1, q)
  BY <1>1, BehindSplit
<1>6. AtTop(s, f.k + 1, q) <=> AtTop(s, f.k, q) \/ Starts(q, At(f, f.k))
  BY <1>2 DEF AtTop
<1>7. t[n].k - 1 = f.k
  BY <1>2
<1>8. QED
  BY <1>2, <1>3, <1>4, <1>5, <1>6, <1>7

\* Below an entry's path nothing is wanted, or the entry, which is reported.
Reports(c, em, em2, r, o) ==
  \/ /\ em2 = em
     /\ \A q \in Path : \A b : Starts(q, r) => ~Wanted(c, q, b)
  \/ /\ em2 = Append(em, << r, o >>)
     /\ \A q \in Path : \A b : Starts(q, r) /\ Len(q) <= Horizon =>
          (Wanted(c, q, b) <=> q = r /\ b = o)

\* What it has reported stays exact when it goes on by one entry.
LEMMA ExactMoves ==
  ASSUME NEW c \in Input, NEW em, NEW s, Exact(c, em, s, FALSE), NEW t, NEW r \in Path, NEW o \in OID,
         ~Behind(s, FALSE, r), NEW em2,
         \A q \in Path : Behind(t, FALSE, q) <=> Behind(s, FALSE, q) \/ Starts(q, r),
         Reports(c, em, em2, r, o)
  PROVE  Exact(c, em2, t, FALSE)
<1>1. /\ em \in Seq(Path \X OID) /\ Cardinality(Elements(em)) = Len(em)
      /\ \A x \in Elements(em) : Behind(s, FALSE, x[1])
      /\ \A q \in Path : \A b : Len(q) <= Horizon =>
           (<< q, b >> \in Elements(em) <=> Wanted(c, q, b) /\ Behind(s, FALSE, q))
  BY DEF Exact
<1>2. DOMAIN em = 1 .. Len(em) /\ Len(em) \in Nat /\ \A i \in 1 .. Len(em) : em[i] \in Path \X OID
  BY <1>1, LenProperties, ElementOfSeq
<1>3. Elements(em) \subseteq Path \X OID /\ IsFiniteSet(Elements(em))
  BY <1>2 DEF Elements, Exact
<1>4. CASE em2 = em /\ \A q \in Path : \A b : Starts(q, r) => ~Wanted(c, q, b)
  BY <1>1, <1>3, <1>4 DEF Exact
<1>5. CASE /\ em2 = Append(em, << r, o >>)
           /\ \A q \in Path : \A b : Starts(q, r) /\ Len(q) <= Horizon =>
                (Wanted(c, q, b) <=> q = r /\ b = o)
  <2> DEFINE x == << r, o >>
  <2>1. /\ em2 \in Seq(Path \X OID) /\ Len(em2) = Len(em) + 1
        /\ em2[Len(em) + 1] = x /\ \A i \in 1 .. Len(em) : em2[i] = em[i]
    BY <1>1, <1>5, AppendProperties
  <2>2. DOMAIN em2 = 1 .. Len(em) + 1
    BY <2>1, LenProperties
  <2>3. Elements(em2) = Elements(em) \cup {x}
    <3>1. \A i \in 1 .. Len(em) + 1 : i \in 1 .. Len(em) \/ i = Len(em) + 1
      BY <1>2
    <3>2. Len(em) + 1 \in 1 .. Len(em) + 1 /\ \A i \in 1 .. Len(em) : i \in 1 .. Len(em) + 1
      BY <1>2
    <3> HIDE DEF x
    <3>3. QED
      BY <1>2, <2>1, <2>2, <3>1, <3>2 DEF Elements
  <2>4. x \notin Elements(em)
    BY <1>1
  <2>5. IsFiniteSet(Elements(em2)) /\ Cardinality(Elements(em2)) = Len(em2)
    <3> HIDE DEF x
    <3>1. /\ IsFiniteSet(Elements(em) \cup {x})
          /\ Cardinality(Elements(em) \cup {x}) = Cardinality(Elements(em)) + 1
      BY <1>3, <2>4, FS_AddElement, Zenon
    <3>2. QED
      BY <1>1, <2>1, <2>3, <3>1, Zenon
  <2>6. Starts(r, r)
    BY StartsItself
  <2>7. \A y \in Elements(em2) : Behind(t, FALSE, y[1])
    <3>1. ASSUME NEW y \in Elements(em) PROVE Behind(t, FALSE, y[1])
      <4>1. y[1] \in Path /\ Behind(s, FALSE, y[1])
        BY <1>1, <1>3
      <4>2. QED
        BY <4>1
    <3>2. x[1] = r /\ Behind(t, FALSE, r)
      BY <2>6
    <3> HIDE DEF x
    <3>3. QED
      BY <2>3, <3>1, <3>2
  <2>8. ASSUME NEW q \in Path, NEW b, Len(q) <= Horizon
        PROVE  << q, b >> \in Elements(em2) <=> Wanted(c, q, b) /\ Behind(t, FALSE, q)
    <3>1. << q, b >> \in Elements(em2) <=> << q, b >> \in Elements(em) \/ (q = r /\ b = o)
      BY <2>3
    <3>2. << q, b >> \in Elements(em) <=> Wanted(c, q, b) /\ Behind(s, FALSE, q)
      BY <1>1, <2>8
    <3>3. Behind(t, FALSE, q) <=> Behind(s, FALSE, q) \/ Starts(q, r)
      OBVIOUS
    <3>4. Starts(q, r) => (Wanted(c, q, b) <=> q = r /\ b = o)
      BY <1>5, <2>8
    <3>5. q = r => Starts(q, r)
      BY <2>6
    <3>6. QED
      BY <3>1, <3>2, <3>3, <3>4, <3>5, Zenon
  <2>9. QED
    BY <2>1, <2>5, <2>7, <2>8 DEF Exact
<1>6. QED
  BY <1>4, <1>5 DEF Reports

\* An entry that is not entered.
LEMMA WalkEntry ==
  ASSUME NEW c \in Input, NEW em, NEW s, NEW a, Walk(c, em, s, a, FALSE),
         s[Len(s)].k <= Len(s[Len(s)].new), NEW t, Moved(s, t), FrameGood(c, t[Len(s)]),
         NEW r, r = At(s[Len(s)], s[Len(s)].k), NEW o \in OID, NEW em2,
         Reports(c, em, em2, r, o),
         c.job = "traverse" => \A q \in Path : \A x :
           << q, x >> \in HasNow(c) /\ Starts(q, r) => ~RefusedAt(c, q, x)
  PROVE  Walk(c, em2, t, a, FALSE)
<1>1. /\ s \in Seq(Frame) /\ \A j \in 1 .. Len(s) : FrameGood(c, s[j])
      /\ Spine(s) /\ Exact(c, em, s, FALSE) /\ Careful(c, s, FALSE) /\ s # << >>
  BY DEF Walk
<1>2. /\ Len(s) \in Nat /\ Len(s) > 0 /\ t \in Seq(Frame) /\ Len(t) = Len(s) /\ Spine(t) /\ t # << >>
      /\ \A j \in 1 .. Len(s) : t[j].of = s[j].of
  BY <1>1, TopFacts, MovedSpine DEF Moved
<1>3. \A j \in 1 .. Len(t) : FrameGood(c, t[j])
  BY <1>1, <1>2 DEF Moved
<1>4. r \in Path /\ ~Behind(s, FALSE, r)
  <2>1. ~Behind(s, FALSE, r)
    BY <1>1, Fresh
  <2>2. FrameGood(c, s[Len(s)]) /\ s[Len(s)].k \in 1 .. Len(s[Len(s)].new)
    BY <1>1, TopFacts
  <2>3. r \in Path
    BY <2>2, FrameFacts
  <2>4. QED
    BY <2>1, <2>3
<1>5. \A q : Behind(t, FALSE, q) <=> Behind(s, FALSE, q) \/ Starts(q, r)
  BY <1>1, MovedBehind
<1>6. Exact(c, em2, t, FALSE)
  <2>1. \A q \in Path : Behind(t, FALSE, q) <=> Behind(s, FALSE, q) \/ Starts(q, r)
    BY <1>5
  <2>2. Exact(c, em, s, FALSE) /\ r \in Path /\ ~Behind(s, FALSE, r)
    BY <1>1, <1>4
  <2>3. QED
    BY <2>1, <2>2, ExactMoves, Zenon
<1>7. Careful(c, t, FALSE)
  <2> SUFFICES ASSUME c.job = "traverse", NEW q \in Path, NEW e, << q, e >> \in HasNow(c),
                      Behind(t, FALSE, q) \/ \E j \in 2 .. Len(t) : q = t[j].of.path
               PROVE  ~RefusedAt(c, q, e)
    BY DEF Careful
  <2>1. CASE Starts(q, r)
    BY <2>1
  <2>2. CASE Behind(s, FALSE, q)
    BY <1>1, <2>2 DEF Careful
  <2>3. CASE \E j \in 2 .. Len(t) : q = t[j].of.path
    <3>1. \E j \in 2 .. Len(s) : q = s[j].of.path
      BY <1>2, <2>3
    <3>2. QED
      BY <1>1, <3>1 DEF Careful
  <2>4. QED
    BY <1>5, <2>1, <2>2, <2>3
<1>8. QED
  BY <1>2, <1>3, <1>6, <1>7 DEF Walk

\* What is behind may be said in other words.
LEMMA SameBehind ==
  ASSUME NEW c, NEW em, NEW s, NEW u, NEW t, NEW v, Exact(c, em, s, u),
         \A q : Behind(t, v, q) <=> Behind(s, u, q)
  PROVE  Exact(c, em, t, v)
BY DEF Exact

\* An entry whose tree is to be entered.
LEMMA WalkCall ==
  ASSUME NEW c \in Input, NEW em, NEW s, NEW a, Walk(c, em, s, a, FALSE),
         s[Len(s)].k <= Len(s[Len(s)].new), NEW t, Moved(s, t), FrameGood(c, t[Len(s)]),
         NEW b \in Args, b.path = At(s[Len(s)], s[Len(s)].k), Focus(c, b)
  PROVE  Walk(c, em, t, b, TRUE)
<1>1. /\ s \in Seq(Frame) /\ \A j \in 1 .. Len(s) : FrameGood(c, s[j])
      /\ Spine(s) /\ Exact(c, em, s, FALSE) /\ Careful(c, s, FALSE) /\ s # << >>
  BY DEF Walk
<1>2. /\ Len(s) \in Nat /\ Len(s) > 0 /\ t \in Seq(Frame) /\ Len(t) = Len(s) /\ Spine(t) /\ t # << >>
      /\ \A j \in 1 .. Len(s) : t[j].of = s[j].of
      /\ \A i : At(t[Len(s)], i) = At(s[Len(s)], i)
  <2>1. Len(s) \in Nat /\ Len(s) > 0
    BY <1>1, TopFacts
  <2>2. /\ Spine(t) /\ t # << >>
        /\ \A j \in 1 .. Len(s) : t[j].of = s[j].of
        /\ \A i : At(t[Len(s)], i) = At(s[Len(s)], i)
    BY <1>1, MovedSpine
  <2>3. QED
    BY <2>1, <2>2 DEF Moved
<1>3. \A j \in 1 .. Len(t) : FrameGood(c, t[j])
  BY <1>1, <1>2 DEF Moved
<1>4. \A q : Behind(t, TRUE, q) <=> Behind(s, FALSE, q)
  BY <1>1, MovedBehind
<1>5. Exact(c, em, t, TRUE)
  BY <1>1, <1>4, SameBehind
<1>6. Careful(c, t, TRUE)
  <2>1. \A q : (\E j \in 2 .. Len(t) : q = t[j].of.path) <=> (\E j \in 2 .. Len(s) : q = s[j].of.path)
    BY <1>2
  <2>2. QED
    BY <1>1, <1>4, <2>1 DEF Careful
<1>7. Pending(c, t, b)
  <2>1. s[Len(s)].k \in Nat /\ s[Len(s)].k > 0
    BY <1>1, TopFacts
  <2>2. t[Len(t)].k > 1 /\ t[Len(t)].k - 1 = s[Len(s)].k
    BY <1>2, <2>1 DEF Moved
  <2>3. Called(t[Len(t)], b.path)
    BY <1>2, <2>2 DEF Called
  <2>4. QED
    BY <1>2, <2>3 DEF Pending
<1>8. QED
  BY <1>2, <1>3, <1>5, <1>6, <1>7 DEF Walk

\* A step that moves no frame's entries.
LEMMA WalkAlike ==
  ASSUME NEW c \in Input, NEW em, NEW s, NEW a, Walk(c, em, s, a, FALSE),
         NEW t \in Seq(Frame), Len(t) = Len(s), \A j \in 1 .. Len(t) : FrameGood(c, t[j]),
         \A j \in 1 .. Len(s) : t[j].of = s[j].of /\ t[j].new = s[j].new /\ t[j].k = s[j].k
  PROVE  Walk(c, em, t, a, FALSE)
<1>1. /\ s \in Seq(Frame) /\ Spine(s) /\ Exact(c, em, s, FALSE) /\ Careful(c, s, FALSE) /\ s # << >>
  BY DEF Walk
<1>2. Len(s) \in Nat /\ Len(s) > 0 /\ t # << >>
  BY <1>1, StackFacts, EmptySeq
<1>3. \A j \in 1 .. Len(s) : \A i : At(t[j], i) = At(s[j], i)
  BY DEF At
<1>4. Spine(t)
  <2> SUFFICES ASSUME NEW j \in 1 .. Len(t)
               PROVE  /\ Follows(t[j].of.path, t, j - 1)
                      /\ j > 1 => Called(t[j - 1], t[j].of.path)
    BY DEF Spine
  <2>1. Follows(s[j].of.path, s, j - 1) /\ (j > 1 => Called(s[j - 1], s[j].of.path))
    BY <1>1 DEF Spine
  <2>2. \A m \in 1 .. j - 1 : m \in 1 .. Len(s)
    BY <1>2
  <2>3. Follows(t[j].of.path, t, j - 1)
    BY <2>1, <2>2 DEF Follows
  <2>4. j > 1 => Called(t[j - 1], t[j].of.path)
    <3>1. j > 1 => j - 1 \in 1 .. Len(s)
      BY <1>2
    <3>2. QED
      BY <1>3, <2>1, <3>1 DEF Called
  <2>5. QED
    BY <2>3, <2>4
<1>5. \A j \in 1 .. Len(s) : Bound(t, FALSE, j) = Bound(s, FALSE, j)
  BY DEF Bound
<1>6. \A q : Behind(t, FALSE, q) <=> Behind(s, FALSE, q)
  BY <1>3, <1>5 DEF Behind
<1>7. Exact(c, em, t, FALSE)
  BY <1>1, <1>6, SameBehind
<1>8. Careful(c, t, FALSE)
  <2>1. \A q : (\E j \in 2 .. Len(t) : q = t[j].of.path) <=> (\E j \in 2 .. Len(s) : q = s[j].of.path)
    BY <1>2
  <2>2. QED
    BY <1>1, <1>6, <2>1 DEF Careful
<1>9. QED
  BY <1>2, <1>4, <1>7, <1>8 DEF Walk

\* The path of a pending call goes through those of the frames, one name for each.
LEMMA CallFollows ==
  ASSUME NEW c \in Input, NEW em, NEW s, NEW a, Walk(c, em, s, a, TRUE), s # << >>
  PROVE  /\ Follows(a.path, s, Len(s)) /\ Called(s[Len(s)], a.path)
         /\ \A j \in 1 .. Len(s) : Starts(a.path, s[j].of.path) /\ Len(s[j].of.path) = j - 1
         /\ Len(s) \in Nat /\ Len(s) > 0
<1> DEFINE n == Len(s)
<1>1. /\ s \in Seq(Frame) /\ \A j \in 1 .. n : FrameGood(c, s[j])
      /\ Spine(s) /\ Pending(c, s, a)
  BY DEF Walk
<1>2. n \in Nat /\ n > 0 /\ n \in 1 .. n
  BY <1>1, TopFacts
<1>3. Called(s[n], a.path)
  BY <1>1 DEF Pending
<1>4. /\ s[n].k - 1 \in 1 .. Len(s[n].new) /\ FrameGood(c, s[n]) /\ s[n].k > 1
  <2>1. s[n].k > 1
    BY <1>3 DEF Called
  <2>2. QED
    BY <1>1, <2>1, TopFacts
<1>5. /\ Len(a.path) = Len(s[n].of.path) + 1
      /\ a.path[Len(s[n].of.path) + 1] = s[n].new[s[n].k - 1].name
      /\ \A m \in 1 .. Len(s[n].of.path) : a.path[m] = s[n].of.path[m]
  <2> DEFINE g == s[n]  i == g.k - 1
  <2>1. FrameGood(c, g) /\ i \in 1 .. Len(g.new) /\ a.path = At(g, i)
    BY <1>3, <1>4 DEF Called
  <2>2. /\ Len(At(g, i)) = Len(g.of.path) + 1
        /\ At(g, i)[Len(g.of.path) + 1] = g.new[i].name
        /\ \A m \in 1 .. Len(g.of.path) : At(g, i)[m] = g.of.path[m]
    <3> HIDE DEF g, i
    <3>1. QED
      BY <2>1, FrameFacts
  <2>3. QED
    BY <2>1, <2>2
<1>6. \A j \in 1 .. n : Follows(s[j].of.path, s, j - 1)
  BY <1>1 DEF Spine
<1>7. Len(s[n].of.path) = n - 1 /\ (n - 1) + 1 = n
  BY <1>2, <1>6 DEF Follows
<1>8. ASSUME NEW m \in 1 .. n PROVE s[m].k > 1 /\ a.path[m] = s[m].new[s[m].k - 1].name
  <2>1. CASE m = n
    BY <1>4, <1>5, <1>7, <2>1
  <2>2. CASE m # n
    <3>1. m \in 1 .. n - 1
      BY <1>2, <2>2
    <3>2. QED
      BY <1>2, <1>5, <1>6, <1>7, <3>1 DEF Follows
  <2>3. QED
    BY <2>1, <2>2
<1>9. Follows(a.path, s, n)
  BY <1>5, <1>7, <1>8 DEF Follows
<1>10. ASSUME NEW j \in 1 .. n PROVE Starts(a.path, s[j].of.path) /\ Len(s[j].of.path) = j - 1
  <2>1. Follows(s[j].of.path, s, j - 1)
    BY <1>6
  <2>2. \A m \in 1 .. j - 1 : m \in 1 .. n
    BY <1>2
  <2>3. Len(s[j].of.path) = j - 1
    BY <2>1 DEF Follows
  <2>4. \A m \in 1 .. j - 1 : a.path[m] = s[j].of.path[m]
    BY <1>8, <2>1, <2>2 DEF Follows
  <2>5. Len(a.path) = n
    BY <1>9 DEF Follows
  <2>6. QED
    BY <1>2, <2>3, <2>4, <2>5 DEF Starts
<1>11. QED
  BY <1>2, <1>3, <1>9, <1>10

\* The call enters its tree.
LEMMA WalkEnter ==
  ASSUME NEW c \in Input, NEW em, NEW s, NEW a, Walk(c, em, s, a, TRUE),
         NEW f, FrameGood(c, f), f.of = a, f.k = 1,
         c.job = "traverse" /\ s # << >> =>
           \A x : << a.path, x >> \in HasNow(c) => ~RefusedAt(c, a.path, x)
  PROVE  Walk(c, em, Append(s, f), a, FALSE)
<1> DEFINE t == Append(s, f)  n == Len(s)
<1>1. /\ s \in Seq(Frame) /\ \A j \in 1 .. Len(s) : FrameGood(c, s[j])
      /\ Spine(s) /\ Exact(c, em, s, TRUE) /\ Careful(c, s, TRUE) /\ Pending(c, s, a)
  BY DEF Walk
<1>2. f \in Frame
  BY DEF FrameGood
<1>3. /\ t \in Seq(Frame) /\ Len(t) = n + 1 /\ t[n + 1] = f /\ \A j \in 1 .. n : t[j] = s[j]
      /\ n \in Nat
  BY <1>1, <1>2, AppendProperties, StackFacts
<1>4. t # << >>
  BY <1>3, EmptySeq
<1> HIDE DEF t
<1>5. \A j \in 1 .. n + 1 : j \in 1 .. n \/ j = n + 1
  BY <1>3
<1>6. \A j \in 1 .. Len(t) : FrameGood(c, t[j])
  BY <1>1, <1>3, <1>5
<1>7. n # 0 => Called(s[n], a.path) /\ Follows(a.path, s, n)
  <2>1. n # 0 => s # << >>
    BY <1>3, EmptySeq
  <2>2. QED
    BY <2>1, CallFollows
<1>8. n = 0 => Len(a.path) = 0
  BY <1>1, EmptySeq DEF Pending
<1>9. Spine(t)
  <2> SUFFICES ASSUME NEW j \in 1 .. n + 1
               PROVE  /\ Follows(t[j].of.path, t, j - 1)
                      /\ j > 1 => Called(t[j - 1], t[j].of.path)
    BY <1>3 DEF Spine
  <2>1. CASE j \in 1 .. n
    <3>1. Follows(s[j].of.path, s, j - 1) /\ (j > 1 => Called(s[j - 1], s[j].of.path))
      BY <1>1, <2>1 DEF Spine
    <3>2. \A m \in 1 .. j - 1 : m \in 1 .. n
      BY <1>3, <2>1
    <3>3. Follows(t[j].of.path, t, j - 1)
      BY <1>3, <2>1, <3>1, <3>2 DEF Follows
    <3>4. j > 1 => j - 1 \in 1 .. n
      BY <1>3, <2>1
    <3>5. QED
      BY <1>3, <2>1, <3>1, <3>3, <3>4
  <2>2. CASE j = n + 1
    <3>1. t[j].of.path = a.path /\ j - 1 = n
      BY <1>3, <2>2
    <3>2. Follows(a.path, t, n)
      BY <1>3, <1>7, <1>8 DEF Follows
    <3>3. j > 1 => n # 0 /\ t[n] = s[n]
      BY <1>3, <2>2
    <3>4. QED
      BY <1>7, <3>1, <3>2, <3>3
  <2>3. QED
    BY <1>5, <2>1, <2>2
<1>10. \A q : Behind(t, FALSE, q) <=> Behind(s, TRUE, q)
  <2> SUFFICES ASSUME NEW q PROVE Behind(t, FALSE, q) <=> Behind(s, TRUE, q)
    OBVIOUS
  <2>1. Behind(t, FALSE, q) <=> BelowTop(t, q) \/ AtTop(t, t[Len(t)].k, q)
    <3>1. Len(t) \in Nat /\ Len(t) > 0
      BY <1>3
    <3>2. QED
      BY <3>1, BehindSplit
  <2>2. ~AtTop(t, t[Len(t)].k, q)
    BY <1>3 DEF AtTop
  <2>3. \A j \in 1 .. n : Bound(s, TRUE, j) = s[j].k - 1
    BY DEF Bound
  <2>4. BelowTop(t, q) <=> Behind(s, TRUE, q)
    <3>1. Len(t) - 1 = n
      BY <1>3
    <3>2. QED
      BY <1>3, <2>3, <3>1 DEF BelowTop, Behind
  <2>5. QED
    BY <2>1, <2>2, <2>4
<1>11. Exact(c, em, t, FALSE)
  BY <1>1, <1>10, SameBehind
<1>12. Careful(c, t, FALSE)
  <2> SUFFICES ASSUME c.job = "traverse", NEW q \in Path, NEW e, << q, e >> \in HasNow(c),
                      Behind(t, FALSE, q) \/ \E j \in 2 .. Len(t) : q = t[j].of.path
               PROVE  ~RefusedAt(c, q, e)
    BY DEF Careful
  <2>1. CASE Behind(t, FALSE, q)
    BY <1>1, <1>10, <2>1 DEF Careful
  <2>2. ASSUME NEW j \in 2 .. Len(t), q = t[j].of.path PROVE ~RefusedAt(c, q, e)
    <3>1. CASE j = n + 1
      <4>1. q = a.path /\ s # << >>
        BY <1>3, <2>2, <3>1, EmptySeq
      <4>2. QED
        BY <4>1
    <3>2. CASE j # n + 1
      <4>1. j \in 2 .. Len(s) /\ q = s[j].of.path
        BY <1>3, <2>2, <3>2
      <4>2. QED
        BY <1>1, <4>1 DEF Careful
    <3>3. QED
      BY <3>1, <3>2
  <2>3. QED
    BY <2>1, <2>2
<1>13. QED
  BY <1>3, <1>4, <1>6, <1>9, <1>11, <1>12 DEF Walk, t

\* A call on equal trees, in which there is nothing to report.
LEMMA WalkPrune ==
  ASSUME NEW c \in Input, NEW em, NEW s, NEW a, Walk(c, em, s, a, TRUE), s # << >>,
         c.job = "diff", \A q \in Path : \A b : Starts(q, a.path) => ~Wanted(c, q, b)
  PROVE  Walk(c, em, s, a, FALSE)
<1>1. /\ s \in Seq(Frame) /\ \A j \in 1 .. Len(s) : FrameGood(c, s[j])
      /\ Spine(s) /\ Exact(c, em, s, TRUE) /\ Pending(c, s, a)
  BY DEF Walk
<1>2. s[Len(s)].k > 1 /\ a.path = At(s[Len(s)], s[Len(s)].k - 1)
  BY <1>1 DEF Pending, Called
<1>3. \A q : Behind(s, FALSE, q) <=> Behind(s, TRUE, q) \/ Starts(q, a.path)
  BY <1>1, <1>2, SettledBehind
<1>4. Exact(c, em, s, FALSE)
  BY <1>1, <1>3 DEF Exact
<1>5. QED
  BY <1>1, <1>4 DEF Walk, Careful

\* What is wanted is a file of the new tree.
LEMMA WantedIsThere ==
  ASSUME NEW c, NEW q, NEW o, Wanted(c, q, o)
  PROVE  \E e : << q, e >> \in HasNow(c) /\ ~IsTree(e)
BY DEF Wanted, IsBlob, IsTree

\* Below the path of a frame that is through, everything is behind it.
LEMMA ThroughBehind ==
  ASSUME NEW c \in Input, NEW s \in Seq(Frame), \A j \in 1 .. Len(s) : FrameGood(c, s[j]),
         s # << >>, s[Len(s)].k > Len(s[Len(s)].new), NEW q \in Path, NEW e,
         << q, e >> \in HasNow(c), Starts(q, s[Len(s)].of.path), q # s[Len(s)].of.path
  PROVE  Behind(s, FALSE, q)
<1> DEFINE f == s[Len(s)]
<1>1. /\ Len(s) \in Nat /\ Len(s) > 0 /\ FrameGood(c, f)
      /\ f.k \in Nat /\ f.k > Len(f.new) /\ Len(f.new) \in Nat
  BY TopFacts
<1>2. PICK i \in 1 .. Len(f.new) : Starts(q, At(f, i))
  BY <1>1, AllBelow
<1>3. AtTop(s, f.k, q)
  BY <1>1, <1>2 DEF AtTop
<1>4. Behind(s, FALSE, q) <=> BelowTop(s, q) \/ AtTop(s, f.k, q)
  BY <1>1, BehindSplit
<1>5. QED
  BY <1>3, <1>4

\* A call returns to the frame below.
LEMMA WalkReturn ==
  ASSUME NEW c \in Input, NEW em, NEW s, NEW a, Walk(c, em, s, a, FALSE),
         s[Len(s)].k > Len(s[Len(s)].new), Len(s) # 1
  PROVE  Walk(c, em, SubSeq(s, 1, Len(s) - 1), a, FALSE)
<1> DEFINE n == Len(s)  t == SubSeq(s, 1, n - 1)  p == s[n].of.path
<1>1. /\ s \in Seq(Frame) /\ \A j \in 1 .. n : FrameGood(c, s[j])
      /\ Spine(s) /\ Exact(c, em, s, FALSE) /\ Careful(c, s, FALSE) /\ s # << >>
  BY DEF Walk
<1>2. n \in Nat /\ n > 1
  <2>1. n \in Nat /\ n > 0
    BY <1>1, TopFacts
  <2>2. n # 1
    OBVIOUS
  <2> HIDE DEF n
  <2>3. QED
    BY <2>1, <2>2
<1>3. t \in Seq(Frame) /\ Len(t) = n - 1 /\ \A j \in 1 .. n - 1 : t[j] = s[j]
  <2>1. \A j \in 1 .. n - 1 : s[j] \in Frame
    BY <1>1, <1>2, StackFacts
  <2>2. /\ t \in Seq(Frame) /\ Len(t) = n - 1
        /\ \A j \in 1 .. (n - 1) - 1 + 1 : t[j] = s[1 + j - 1]
    BY <1>2, <2>1, SubSeqProperties
  <2> HIDE DEF t
  <2>3. QED
    BY <1>2, <2>2
<1> HIDE DEF t
<1>4. t # << >>
  <2>1. Len(t) # 0
    BY <1>2, <1>3
  <2> HIDE DEF n
  <2>2. QED
    BY <2>1, EmptySeq
<1>5. \A j \in 1 .. n - 1 : j \in 1 .. n
  BY <1>2
<1>6. \A j \in 1 .. Len(t) : FrameGood(c, t[j])
  BY <1>1, <1>3, <1>5
<1>7. Spine(t)
  <2> SUFFICES ASSUME NEW j \in 1 .. n - 1
               PROVE  /\ Follows(t[j].of.path, t, j - 1)
                      /\ j > 1 => Called(t[j - 1], t[j].of.path)
    BY <1>3 DEF Spine
  <2>1. Follows(s[j].of.path, s, j - 1) /\ (j > 1 => Called(s[j - 1], s[j].of.path))
    BY <1>1, <1>5 DEF Spine
  <2>2. \A m \in 1 .. j - 1 : m \in 1 .. n - 1
    BY <1>2
  <2>3. Follows(t[j].of.path, t, j - 1)
    BY <1>3, <2>1, <2>2 DEF Follows
  <2>4. j > 1 => j - 1 \in 1 .. n - 1
    BY <1>2
  <2>5. QED
    BY <1>3, <2>1, <2>3, <2>4
<1>8. t[n - 1].k > 1 /\ p = At(t[n - 1], t[n - 1].k - 1) /\ p \in Path /\ p # << >>
  <2>1. n \in 1 .. n /\ n - 1 \in 1 .. n - 1 /\ n > 1
    BY <1>2
  <2>2. Called(s[n - 1], p) /\ Len(p) = n - 1
    BY <1>1, <2>1 DEF Spine, Follows
  <2>3. p \in Path
    BY <1>1, <2>1, FrameFacts
  <2>4. p # << >>
    BY <1>2, <2>2, EmptySeq
  <2>5. QED
    BY <1>3, <2>1, <2>2, <2>3, <2>4 DEF Called
<1>9. \A q : Behind(t, FALSE, q) <=> Behind(t, TRUE, q) \/ Starts(q, p)
  <2>1. t[Len(t)].k > 1 /\ p = At(t[Len(t)], t[Len(t)].k - 1)
    BY <1>3, <1>8
  <2>2. \A q : Behind(t, FALSE, q) <=>
               Behind(t, TRUE, q) \/ Starts(q, At(t[Len(t)], t[Len(t)].k - 1))
    BY <1>3, <1>4, <1>6, <2>1, SettledBehind
  <2>3. QED
    BY <2>1, <2>2
<1>10. \A q : Behind(t, TRUE, q) <=> BelowTop(s, q)
  <2>1. \A j \in 1 .. n - 1 : Bound(t, TRUE, j) = s[j].k - 1
    BY <1>3 DEF Bound
  <2>2. QED
    BY <1>3, <2>1 DEF BelowTop, Behind
<1>11. \A q : Behind(s, FALSE, q) <=> BelowTop(s, q) \/ AtTop(s, s[n].k, q)
  <2>1. Len(s) \in Nat /\ Len(s) > 0
    BY <1>2
  <2>2. QED
    BY <2>1, BehindSplit
<1>12. ASSUME NEW q \in Path PROVE AtTop(s, s[n].k, q) => Starts(q, p)
  <2> SUFFICES ASSUME NEW i \in 1 .. Len(s[n].new), Starts(q, At(s[n], i)) PROVE Starts(q, p)
    BY DEF AtTop
  <2>1. FrameGood(c, s[n])
    BY <1>1, <1>2
  <2>2. p \in Path /\ s[n].new[i].name \in Name
    BY <2>1, FrameFacts
  <2>3. QED
    BY <2>2, StartsFurther DEF At
<1>13. \A q \in Path : Behind(s, FALSE, q) => Behind(t, FALSE, q)
  BY <1>9, <1>10, <1>11, <1>12
<1>14. ASSUME NEW q \in Path, NEW e, << q, e >> \in HasNow(c), Behind(t, FALSE, q)
       PROVE  Behind(s, FALSE, q) \/ q = p
  <2>1. CASE BelowTop(s, q)
    BY <1>11, <2>1
  <2>2. CASE Starts(q, p) /\ q # p
    BY <1>1, <1>14, <2>2, ThroughBehind
  <2>3. QED
    BY <1>9, <1>10, <1>14, <2>1, <2>2
<1>15. \A e : << p, e >> \in HasNow(c) => IsTree(e)
  <2>1. FrameGood(c, s[n])
    BY <1>1, <1>2
  <2>2. QED
    BY <1>8, <2>1 DEF FrameGood, Focus
<1>16. Exact(c, em, t, FALSE)
  <2>1. ASSUME NEW q \in Path, NEW o, Wanted(c, q, o)
        PROVE  Behind(t, FALSE, q) <=> Behind(s, FALSE, q)
    <3>1. PICK e : << q, e >> \in HasNow(c) /\ ~IsTree(e)
      BY <2>1, WantedIsThere
    <3>2. q # p
      BY <1>15, <3>1
    <3>3. QED
      BY <1>13, <1>14, <3>1, <3>2
  <2>2. \A x \in Elements(em) : x[1] \in Path
    <3>1. em \in Seq(Path \X OID)
      BY <1>1 DEF Exact
    <3>2. \A i \in DOMAIN em : em[i] \in Path \X OID
      BY <3>1, LenProperties, ElementOfSeq
    <3>3. QED
      BY <3>2 DEF Elements
  <2>3. \A x \in Elements(em) : Behind(t, FALSE, x[1])
    BY <1>1, <1>13, <2>2 DEF Exact
  <2>4. \A q \in Path : \A o : Len(q) <= Horizon =>
          (<< q, o >> \in Elements(em) <=> Wanted(c, q, o) /\ Behind(t, FALSE, q))
    BY <1>1, <2>1 DEF Exact
  <2>5. QED
    BY <1>1, <2>3, <2>4 DEF Exact
<1>17. Careful(c, t, FALSE)
  <2> SUFFICES ASSUME c.job = "traverse", NEW q \in Path, NEW e, << q, e >> \in HasNow(c),
                      Behind(t, FALSE, q) \/ \E j \in 2 .. Len(t) : q = t[j].of.path
               PROVE  ~RefusedAt(c, q, e)
    BY DEF Careful
  <2>1. CASE Behind(s, FALSE, q)
    BY <1>1, <2>1 DEF Careful
  <2>2. CASE \E j \in 2 .. n : q = s[j].of.path
    BY <1>1, <2>2 DEF Careful
  <2>3. (\E j \in 2 .. Len(t) : q = t[j].of.path) => \E j \in 2 .. n : q = s[j].of.path
    <3>1. \A j \in 2 .. n - 1 : j \in 2 .. n /\ t[j] = s[j]
      BY <1>2, <1>3
    <3>2. QED
      BY <1>3, <3>1
  <2>4. q = p => \E j \in 2 .. n : q = s[j].of.path
    <3>1. n \in 2 .. n
      BY <1>2
    <3>2. QED
      BY <3>1
  <2>5. QED
    BY <1>14, <2>1, <2>2, <2>3, <2>4
<1>18. QED
  BY <1>3, <1>4, <1>6, <1>7, <1>16, <1>17 DEF Walk, t

\* What a walk has done when it is over.
Complete(c, em) ==
  /\ em \in Seq(Path \X OID) /\ Cardinality(Elements(em)) = Len(em)
  /\ \A q \in Path : \A o : Len(q) <= Horizon => (<< q, o >> \in Elements(em) <=> Wanted(c, q, o))
  /\ c.job = "traverse" => \A q \in Path : \A e : << q, e >> \in HasNow(c) => ~RefusedAt(c, q, e)

\* A walk is over when the first call is.
LEMMA WalkDone ==
  ASSUME NEW c \in Input, NEW em, NEW s, NEW a, Walk(c, em, s, a, FALSE),
         s[Len(s)].k > Len(s[Len(s)].new), Len(s) = 1
  PROVE  Complete(c, em)
<1>1. /\ s \in Seq(Frame) /\ \A j \in 1 .. Len(s) : FrameGood(c, s[j])
      /\ Spine(s) /\ Exact(c, em, s, FALSE) /\ Careful(c, s, FALSE) /\ s # << >>
  BY DEF Walk
<1>2. s[Len(s)].of.path = << >>
  <2>1. 1 \in 1 .. Len(s) /\ FrameGood(c, s[1])
    BY <1>1
  <2>2. Len(s[1].of.path) = 0 /\ s[1].of.path \in Path
    BY <1>1, <2>1, FrameFacts DEF Spine, Follows
  <2>3. s[1].of.path = << >>
    BY <2>2, EmptySeq DEF Path
  <2>4. QED
    BY <2>3
<1>3. ASSUME NEW q \in Path, NEW e, << q, e >> \in HasNow(c) PROVE Behind(s, FALSE, q)
  <2>1. q # << >>
    BY <1>3, RootSits
  <2>2. Starts(q, << >>)
    BY LenProperties DEF Starts, Path
  <2>3. QED
    BY <1>1, <1>2, <1>3, <2>1, <2>2, ThroughBehind
<1>4. \A q \in Path : \A o : Wanted(c, q, o) => Behind(s, FALSE, q)
  BY <1>3, WantedIsThere
<1>5. QED
  BY <1>1, <1>3, <1>4 DEF Complete, Exact, Careful

-----------------------------------------------------------------------------
(* What is wanted below an entry.                                          *)

\* Nothing, where the old tree is the new one.
LEMMA EqualTrees ==
  ASSUME NEW c \in Input, NEW a, Focus(c, a), c.job = "diff", a.old = a.new,
         NEW q \in Path, Starts(q, a.path), NEW o
  PROVE  ~Wanted(c, q, o)
<1> SUFFICES ASSUME NEW e, << q, e >> \in HasNow(c), IsBlob(e), e.oid = o,
                    \A x : ~(<< q, x >> \in HadThen(c) /\ x.oid = o /\ ~IsTree(x))
             PROVE  FALSE
  BY DEF Wanted
<1>1. a.path \in Path /\ ~IsTree(e) /\ q # << >>
  BY RootSits DEF Focus, IsBlob, IsTree
<1>2. CASE q = a.path
  BY <1>1, <1>2 DEF Focus
<1>3. CASE q # a.path
  <2>1. PICK r \in Path : r # << >> /\ q = a.path \o r
    BY <1>1, <1>3, StartsSplit
  <2>2. << q, e >> \in HadThen(c)
    BY <2>1 DEF Focus, Sits
  <2>3. QED
    BY <1>1, <2>2
<1>4. QED
  BY <1>2, <1>3

\* At the path of an entry there is the entry, and below a file nothing.
LEMMA EntryPaths ==
  ASSUME NEW c \in Input, NoTwins(c), NEW f, FrameGood(c, f), NEW i \in 1 .. Len(f.new)
  PROVE  /\ \A x : << At(f, i), x >> \in HasNow(c) <=> Len(f.of.path) < Horizon /\ x = f.new[i]
         /\ ~IsTree(f.new[i]) => \A q \in Path : \A x :
              << q, x >> \in HasNow(c) /\ Starts(q, At(f, i)) => q = At(f, i) /\ x = f.new[i]
<1> DEFINE p == f.of.path  e == f.new[i]  n == e.name
<1>1. /\ p \in Path /\ n \in Name /\ Sits(c, HasNow(c), p, f.of.new) /\ Readable(c, f.of.new)
      /\ e \in Elements(c.trees[f.of.new]) /\ At(f, i) \in Path /\ At(f, i) = Append(p, n)
  BY FrameFacts DEF FrameGood, Focus, At
<1>2. \A x \in Elements(c.trees[f.of.new]) : x.name = n => x = e
  BY <1>1 DEF NoTwins, Distinct, Elements, Readable
<1> HIDE DEF e
<1>3. \A x : << Append(p, n), x >> \in HasNow(c) <=>
               /\ Len(p) < Horizon /\ Readable(c, f.of.new)
               /\ x \in Elements(c.trees[f.of.new]) /\ x.name = n
  BY <1>1, SitsAt
<1>4. \A x : << At(f, i), x >> \in HasNow(c) <=> Len(p) < Horizon /\ x = e
  BY <1>1, <1>2, <1>3 DEF e
<1>5. ASSUME ~IsTree(e), NEW q \in Path, NEW x, << q, x >> \in HasNow(c), Starts(q, At(f, i))
      PROVE  q = At(f, i) /\ x = e
  <2>1. q = At(f, i)
    <3> SUFFICES ASSUME q # At(f, i) PROVE FALSE
      OBVIOUS
    <3>1. PICK r \in Path : r # << >> /\ q = At(f, i) \o r
      BY <1>1, <1>5, StartsSplit
    <3>2. << Append(p, n) \o r, x >> \in HasNow(c)
      BY <1>1, <1>5, <3>1
    <3>3. Under(c, p, f.of.new, n, r, x)
      BY <1>1, <3>1, <3>2, SitsUnder
    <3>4. QED
      BY <1>2, <1>5, <3>3 DEF Under
  <2>2. QED
    BY <1>4, <1>5, <2>1
<1>6. QED
  BY <1>4, <1>5 DEF e

\* The old tree has the same object at the entry's name.
Unchanged(c, f, e) ==
  /\ c.job = "diff" /\ Readable(c, f.of.old)
  /\ \E x \in Elements(c.trees[f.of.old]) :
       x.name = e.name /\ x.oid = e.oid /\ IsTree(x) = IsTree(e)

\* Of what is not a tree, the files that are not unchanged are wanted.
LEMMA FileWanted ==
  ASSUME NEW c \in Input, NoTwins(c), NEW f, FrameGood(c, f), NEW i \in 1 .. Len(f.new),
         ~IsTree(f.new[i]), NEW q \in Path, Starts(q, At(f, i)), NEW o
  PROVE  Wanted(c, q, o) <=>
           /\ q = At(f, i) /\ o = f.new[i].oid /\ IsBlob(f.new[i]) /\ q \notin c.unwanted
           /\ Len(q) <= Horizon /\ ~Unchanged(c, f, f.new[i])
<1> DEFINE p == f.of.path  e == f.new[i]  r == At(f, i)
<1>1. /\ p \in Path /\ e.name \in Name /\ r \in Path /\ r = Append(p, e.name)
      /\ Len(r) = Len(p) + 1 /\ Len(p) \in Nat /\ Horizon \in Nat
  BY FrameFacts, PathFacts, HorizonAssumption DEF At
<1>2. Len(r) <= Horizon <=> Len(p) < Horizon
  BY <1>1
<1>3. \A x : << q, x >> \in HasNow(c) <=> q = r /\ Len(q) <= Horizon /\ x = e
  BY <1>2, EntryPaths
<1>4. ASSUME c.job = "diff", Len(p) < Horizon
      PROVE  Unchanged(c, f, e) <=> \E x : << r, x >> \in HadThen(c) /\ x.oid = e.oid /\ ~IsTree(x)
  <2>1. Sits(c, HadThen(c), p, f.of.old)
    BY <1>4 DEF FrameGood, Focus
  <2> HIDE DEF e, r, p
  <2>2. \A x : << Append(p, e.name), x >> \in HadThen(c) <=>
               /\ Len(p) < Horizon /\ Readable(c, f.of.old)
               /\ x \in Elements(c.trees[f.of.old]) /\ x.name = e.name
    BY <1>1, <2>1, SitsAt
  <2>3. IsTree(e) = FALSE /\ \A x : IsTree(x) \in BOOLEAN
    BY DEF e, IsTree
  <2>4. \A x : << r, x >> \in HadThen(c) <=> /\ Readable(c, f.of.old)
               /\ x \in Elements(c.trees[f.of.old]) /\ x.name = e.name
    BY <1>1, <1>4, <2>2
  <2>5. QED
    BY <1>4, <2>3, <2>4 DEF Unchanged
<1>5. q = r => (Len(q) <= Horizon <=> Len(p) < Horizon)
  BY <1>2
<1>6. ASSUME q = r, Len(q) <= Horizon
      PROVE  Wanted(c, q, o) <=> o = e.oid /\ IsBlob(e) /\ q \notin c.unwanted /\ ~Unchanged(c, f, e)
  <2> HIDE DEF e, r, p
  <2>1. \A x : << q, x >> \in HasNow(c) <=> x = e
    BY <1>3, <1>6
  <2>2. CASE c.job = "diff"
    BY <1>2, <1>4, <1>6, <2>1, <2>2 DEF Wanted
  <2>3. CASE c.job # "diff"
    BY <2>1, <2>3 DEF Wanted, Unchanged
  <2>4. QED
    BY <2>2, <2>3
<1>7. Wanted(c, q, o) => q = r /\ Len(q) <= Horizon
  BY <1>3 DEF Wanted
<1>8. QED
  <2> HIDE DEF e, r, p
  <2>1. QED
    BY <1>6, <1>7 DEF e, r

-----------------------------------------------------------------------------
(* The merge of two sorted trees.                                          *)

\* The next old entry and the next new one are of one name and kind.
Same(f) == f.i <= Len(f.old) /\ ~Precedes(f.old[f.i], f.new[f.k]) /\ ~Precedes(f.new[f.k], f.old[f.i])

\* The types of what a comparison merges.
LEMMA MergingFacts ==
  ASSUME NEW c \in Input, NEW f, Merging(c, f), f.k <= Len(f.new), f.k > 0
  PROVE  /\ Len(f.old) \in Nat /\ Len(f.new) \in Nat /\ f.i \in Nat /\ f.i > 0 /\ f.k \in Nat
         /\ f.i <= Len(f.old) + 1
         /\ DOMAIN f.old = 1 .. Len(f.old) /\ DOMAIN f.new = 1 .. Len(f.new)
         /\ \A j \in 1 .. Len(f.old) : f.old[j] \in Entry
         /\ \A j \in 1 .. Len(f.new) : f.new[j] \in Entry
         /\ f.k \in 1 .. Len(f.new) /\ f.new[f.k] \in Entry
         /\ f.i <= Len(f.old) => f.i \in 1 .. Len(f.old) /\ f.old[f.i] \in Entry
         /\ \A a \in 1 .. f.i - 1, b \in f.k .. Len(f.new) : Precedes(f.old[a], f.new[b])
<1>1. f.old \in Seq(Entry) /\ f.new \in Seq(Entry) /\ f.i \in Nat /\ f.k \in Nat
      /\ f.i \in 1 .. Len(f.old) + 1
  BY DEF Merging, DiffFrame
<1>2. /\ Len(f.old) \in Nat /\ Len(f.new) \in Nat
      /\ DOMAIN f.old = 1 .. Len(f.old) /\ DOMAIN f.new = 1 .. Len(f.new)
      /\ \A j \in 1 .. Len(f.old) : f.old[j] \in Entry
      /\ \A j \in 1 .. Len(f.new) : f.new[j] \in Entry
  BY <1>1, LenProperties, ElementOfSeq
<1>3. f.i > 0 /\ f.i <= Len(f.old) + 1 /\ f.k \in 1 .. Len(f.new)
  BY <1>1, <1>2
<1>4. \A a \in 1 .. f.i - 1, b \in f.k .. Len(f.new) : Precedes(f.old[a], f.new[b])
  BY DEF Merging
<1>5. f.i <= Len(f.old) => f.i \in 1 .. Len(f.old)
  BY <1>1, <1>2, <1>3
<1>6. QED
  BY <1>1, <1>2, <1>3, <1>4, <1>5

\* When no old entry is left before the new one, its counterpart is the next, or none.
LEMMA MergeMatch ==
  ASSUME NEW c \in Input, NEW f, Merging(c, f), f.k <= Len(f.new), f.k > 0,
         ~(f.i <= Len(f.old) /\ Precedes(f.old[f.i], f.new[f.k]))
  PROVE  /\ Same(f) => SameKey(f.old[f.i], f.new[f.k]) /\ f.old[f.i] \in Elements(f.old)
         /\ \A x \in Elements(f.old) : SameKey(x, f.new[f.k]) => Same(f) /\ x = f.old[f.i]
<1> DEFINE e == f.new[f.k]  i == f.i  n == Len(f.old)
<1>1. /\ n \in Nat /\ i \in Nat /\ i > 0 /\ i <= n + 1 /\ DOMAIN f.old = 1 .. n
      /\ \A j \in 1 .. n : f.old[j] \in Entry
      /\ e \in Entry /\ (i <= n => i \in 1 .. n /\ f.old[i] \in Entry)
      /\ \A a \in 1 .. i - 1 : Precedes(f.old[a], e)
  <2>1. f.k \in f.k .. Len(f.new)
    BY MergingFacts
  <2>2. QED
    BY <2>1, MergingFacts
<1>2. Same(f) => SameKey(f.old[i], e) /\ f.old[i] \in Elements(f.old)
  BY <1>1, PrecedesTotal DEF Same, Elements
<1>3. ASSUME NEW j \in 1 .. n, SameKey(f.old[j], e) PROVE Same(f) /\ j = i
  <2>1. ~Precedes(f.old[j], e) /\ ~Precedes(e, f.old[j])
    BY <1>1, <1>3, PrecedesSameKey
  <2>2. ~(j < i)
    <3> SUFFICES ASSUME j < i PROVE FALSE
      OBVIOUS
    <3>1. j \in 1 .. i - 1
      BY <1>1
    <3>2. QED
      BY <1>1, <2>1, <3>1
  <2>3. ~(j > i)
    <3> SUFFICES ASSUME j > i PROVE FALSE
      OBVIOUS
    <3>1. i \in 1 .. n /\ i <= n
      BY <1>1
    <3>2. Precedes(f.old[i], f.old[j])
      BY <1>1, <3>1 DEF Merging, Increasing
    <3>3. Precedes(f.old[i], e)
      BY <1>1, <1>3, <3>1, <3>2, PrecedesSameKey
    <3>4. QED
      BY <3>1, <3>3
  <2>4. j = i
    BY <1>1, <2>2, <2>3
  <2>5. QED
    BY <1>1, <2>1, <2>4 DEF Same
<1>4. \A x \in Elements(f.old) : SameKey(x, e) => Same(f) /\ x = f.old[i]
  BY <1>1, <1>3 DEF Elements
<1>5. QED
  BY <1>2, <1>4

\* An old entry that comes before the new one comes before all that follow.
LEMMA MergingSkip ==
  ASSUME NEW c \in Input, NEW f, Merging(c, f), f.k <= Len(f.new), f.k > 0,
         f.i <= Len(f.old), Precedes(f.old[f.i], f.new[f.k])
  PROVE  Merging(c, [f EXCEPT !.i = @ + 1])
<1> DEFINE g == [f EXCEPT !.i = @ + 1]
<1>1. /\ g.of = f.of /\ g.old = f.old /\ g.new = f.new /\ g.k = f.k /\ g.i = f.i + 1
      /\ g \in DiffFrame
  BY DEF Merging, DiffFrame
<1> HIDE DEF g
<1>2. g.i \in 1 .. Len(g.old) + 1
  BY <1>1, MergingFacts
<1>3. ASSUME NEW a \in 1 .. f.i, NEW b \in f.k .. Len(f.new) PROVE Precedes(f.old[a], f.new[b])
  <2>1. CASE a = f.i
    <3>1. CASE b = f.k
      BY <2>1, <3>1
    <3>2. CASE b # f.k
      <4>1. b \in 1 .. Len(f.new) /\ f.k < b
        BY <3>2, MergingFacts
      <4>2. Precedes(f.new[f.k], f.new[b])
        BY <4>1, MergingFacts DEF Merging, Increasing
      <4>3. QED
        BY <2>1, <4>1, <4>2, MergingFacts, PrecedesTransitive
    <3>3. QED
      BY <3>1, <3>2
  <2>2. CASE a # f.i
    <3>1. a \in 1 .. f.i - 1
      BY <2>2, MergingFacts
    <3>2. QED
      BY <3>1, MergingFacts
  <2>3. QED
    BY <2>1, <2>2
<1>4. \A a \in 1 .. g.i - 1, b \in g.k .. Len(g.new) : Precedes(g.old[a], g.new[b])
  <2>1. g.i - 1 = f.i
    BY <1>1, MergingFacts
  <2>2. QED
    BY <1>1, <1>3, <2>1
<1>5. Merging(c, g)
  BY <1>1, <1>2, <1>4 DEF Merging
<1>6. QED
  BY <1>5 DEF g

\* A new entry takes its counterpart with it.
LEMMA MergingAdvance ==
  ASSUME NEW c \in Input, NEW f, Merging(c, f), f.k <= Len(f.new), f.k > 0,
         ~(f.i <= Len(f.old) /\ Precedes(f.old[f.i], f.new[f.k]))
  PROVE  Merging(c, [f EXCEPT !.k = @ + 1, !.i = IF Same(f) THEN @ + 1 ELSE @])
<1> DEFINE m == IF Same(f) THEN f.i + 1 ELSE f.i
           g == [f EXCEPT !.k = @ + 1, !.i = IF Same(f) THEN @ + 1 ELSE @]
<1>1. /\ g.of = f.of /\ g.old = f.old /\ g.new = f.new /\ g.k = f.k + 1 /\ g.i = m
      /\ g \in DiffFrame
  <2>1. f.i \in Nat /\ f.k \in Nat
    BY MergingFacts
  <2>2. m \in Nat
    BY <2>1
  <2> DEFINE h == [f EXCEPT !.k = f.k + 1]
  <2>3. g = [h EXCEPT !.i = m]
    <3>1. h.i = f.i
      BY DEF Merging, DiffFrame
    <3> HIDE DEF h
    <3>2. [h EXCEPT !.i = IF Same(f) THEN @ + 1 ELSE @] = [h EXCEPT !.i = m]
      BY <3>1, Zenon
    <3>3. QED
      BY <3>2 DEF h
  <2>4. /\ h.of = f.of /\ h.old = f.old /\ h.new = f.new /\ h.k = f.k + 1
        /\ h \in DiffFrame
    BY <2>1 DEF Merging, DiffFrame
  <2> HIDE DEF m, g, h
  <2>5. QED
    BY <2>2, <2>3, <2>4 DEF DiffFrame
<1> HIDE DEF g
<1>2. g.i \in 1 .. Len(g.old) + 1
  <2>1. Same(f) => f.i <= Len(f.old)
    BY DEF Same
  <2>2. QED
    BY <1>1, <2>1, MergingFacts
<1>3. ASSUME NEW a \in 1 .. m - 1, NEW b \in f.k + 1 .. Len(f.new)
      PROVE  Precedes(f.old[a], f.new[b])
  <2>1. b \in 1 .. Len(f.new) /\ f.k < b /\ b \in f.k .. Len(f.new)
    BY MergingFacts
  <2>2. CASE a \in 1 .. f.i - 1
    BY <2>1, <2>2, MergingFacts
  <2>3. CASE Same(f) /\ a = f.i
    <3>1. Precedes(f.new[f.k], f.new[b])
      BY <2>1, MergingFacts DEF Merging, Increasing
    <3>2. SameKey(f.old[f.i], f.new[f.k]) /\ f.i <= Len(f.old)
      BY <2>3, MergeMatch DEF Same
    <3>3. f.old[f.i] \in Entry /\ f.new[f.k] \in Entry /\ f.new[b] \in Entry
      BY <2>1, <3>2, MergingFacts
    <3>4. QED
      BY <2>3, <3>1, <3>2, <3>3, PrecedesSameKey
  <2>4. a \in 1 .. f.i - 1 \/ (Same(f) /\ a = f.i)
    BY MergingFacts
  <2>5. QED
    BY <2>2, <2>3, <2>4
<1>4. \A a \in 1 .. g.i - 1, b \in g.k .. Len(g.new) : Precedes(g.old[a], g.new[b])
  <2> HIDE DEF m
  <2>1. QED
    BY <1>1, <1>3
<1>5. Merging(c, g)
  <2> HIDE DEF m
  <2>1. QED
    BY <1>1, <1>2, <1>4 DEF Merging
<1>6. QED
  BY <1>5 DEF g

\* The old subtree that the code compares with is the one of the name.
LEMMA MergeCounterpart ==
  ASSUME NEW c \in Input, NEW f, Merging(c, f), f.k <= Len(f.new), f.k > 0,
         ~(f.i <= Len(f.old) /\ Precedes(f.old[f.i], f.new[f.k])), IsTree(f.new[f.k]),
         NEW b, b = IF Same(f) /\ IsTree(f.old[f.i]) THEN f.old[f.i].oid ELSE NoTree
  PROVE  Counterpart(c, f.of.old, f.new[f.k].name, b)
<1>1. Elements(f.old) = IF Readable(c, f.of.old) THEN Elements(c.trees[f.of.old]) ELSE {}
  BY DEF Merging
<1>2. CASE Same(f) /\ IsTree(f.old[f.i])
  <2>1. f.old[f.i] \in Elements(f.old) /\ SameKey(f.old[f.i], f.new[f.k])
    BY <1>2, MergeMatch
  <2>2. QED
    BY <1>1, <1>2, <2>1 DEF Counterpart, SameKey
<1>3. CASE ~(Same(f) /\ IsTree(f.old[f.i]))
  <2>1. ASSUME Readable(c, f.of.old), NEW x \in Elements(c.trees[f.of.old]),
               x.name = f.new[f.k].name, IsTree(x)
        PROVE  FALSE
    <3>1. x \in Elements(f.old) /\ SameKey(x, f.new[f.k])
      BY <1>1, <2>1 DEF SameKey
    <3>2. QED
      BY <1>3, <2>1, <3>1, MergeMatch
  <2>2. QED
    BY <1>3, <2>1 DEF Counterpart
<1>4. QED
  BY <1>2, <1>3

\* The code takes an entry for unchanged when it is.
LEMMA MergeUnchanged ==
  ASSUME NEW c \in Input, c.job = "diff", NEW f, Merging(c, f), f.k <= Len(f.new), f.k > 0,
         ~(f.i <= Len(f.old) /\ Precedes(f.old[f.i], f.new[f.k]))
  PROVE  Unchanged(c, f, f.new[f.k]) <=> Same(f) /\ f.old[f.i].oid = f.new[f.k].oid
<1>1. Elements(f.old) = IF Readable(c, f.of.old) THEN Elements(c.trees[f.of.old]) ELSE {}
  BY DEF Merging
<1>2. ASSUME Same(f), f.old[f.i].oid = f.new[f.k].oid PROVE Unchanged(c, f, f.new[f.k])
  <2>1. f.old[f.i] \in Elements(f.old) /\ SameKey(f.old[f.i], f.new[f.k])
    BY <1>2, MergeMatch
  <2>2. QED
    BY <1>1, <1>2, <2>1 DEF Unchanged, SameKey
<1>3. ASSUME Unchanged(c, f, f.new[f.k]) PROVE Same(f) /\ f.old[f.i].oid = f.new[f.k].oid
  <2>1. PICK x \in Elements(c.trees[f.of.old]) :
          x.name = f.new[f.k].name /\ x.oid = f.new[f.k].oid /\ IsTree(x) = IsTree(f.new[f.k])
    BY <1>3 DEF Unchanged
  <2>2. x \in Elements(f.old) /\ SameKey(x, f.new[f.k])
    BY <1>1, <1>3, <2>1 DEF Unchanged, SameKey
  <2>3. QED
    BY <2>1, <2>2, MergeMatch
<1>4. QED
  BY <1>2, <1>3

-----------------------------------------------------------------------------
(* Entries and calls, one at a time.                                       *)

\* A frame that has moved on in its tree.
LEMMA FrameMoves ==
  ASSUME NEW c \in Input, NEW f, FrameGood(c, f), NEW g,
         g.of = f.of, g.new = f.new, g.k = f.k \/ (g.k = f.k + 1 /\ f.k <= Len(f.new)),
         IF c.job = "diff" THEN Merging(c, g) ELSE g \in WalkFrame
  PROVE  FrameGood(c, g)
<1>1. g \in Frame
  BY DEF Frame, Merging
<1>2. g.k \in 1 .. Len(g.new) + 1
  BY FrameFacts
<1>3. QED
  BY <1>1, <1>2 DEF FrameGood

\* What a file, link or module makes a walk report.
LEMMA EntryReports ==
  ASSUME NEW c \in Input, NoTwins(c), NEW f, FrameGood(c, f), f.k <= Len(f.new),
         ~IsTree(f.new[f.k]), NEW em, NEW em2,
         em2 = IF IsBlob(f.new[f.k]) /\ At(f, f.k) \notin c.unwanted /\ ~Unchanged(c, f, f.new[f.k])
               THEN Append(em, << At(f, f.k), f.new[f.k].oid >>) ELSE em
  PROVE  /\ Reports(c, em, em2, At(f, f.k), f.new[f.k].oid)
         /\ \A q \in Path : \A x :
              << q, x >> \in HasNow(c) /\ Starts(q, At(f, f.k)) => ~RefusedAt(c, q, x)
<1> DEFINE e == f.new[f.k]  r == At(f, f.k)
           told == IsBlob(e) /\ r \notin c.unwanted /\ ~Unchanged(c, f, e)
<1>1. f.k \in 1 .. Len(f.new)
  BY FrameFacts
<1>2. \A q \in Path : \A o : Starts(q, r) =>
        (Wanted(c, q, o) <=> q = r /\ o = e.oid /\ told /\ Len(q) <= Horizon)
  <2> SUFFICES ASSUME NEW q \in Path, NEW o, Starts(q, r)
               PROVE  Wanted(c, q, o) <=> q = r /\ o = e.oid /\ told /\ Len(q) <= Horizon
    OBVIOUS
  <2>1. Wanted(c, q, o) <=>
           /\ q = r /\ o = e.oid /\ IsBlob(e) /\ q \notin c.unwanted
           /\ Len(q) <= Horizon /\ ~Unchanged(c, f, e)
    BY <1>1, FileWanted
  <2> HIDE DEF e, r
  <2>2. QED
    BY <2>1
<1>3. \A q \in Path : \A x : << q, x >> \in HasNow(c) /\ Starts(q, r) => x = e
  BY <1>1, EntryPaths
<1>4. em2 = IF told THEN Append(em, << r, e.oid >>) ELSE em
  OBVIOUS
<1>5. ~IsTree(e)
  OBVIOUS
<1> HIDE DEF e, r, told
<1>6. Reports(c, em, em2, r, e.oid)
  BY <1>2, <1>4 DEF Reports
<1>7. \A q \in Path : \A x : << q, x >> \in HasNow(c) /\ Starts(q, r) => ~RefusedAt(c, q, x)
  BY <1>3, <1>5 DEF RefusedAt
<1>8. QED
  BY <1>6, <1>7 DEF e, r

\* The arguments with which a frame's entry is entered.
LEMMA EntryCall ==
  ASSUME NEW c \in Input, NoTwins(c), NEW f, FrameGood(c, f), f.k <= Len(f.new),
         IsTree(f.new[f.k]), NEW b, b.new = f.new[f.k].oid, b.path = At(f, f.k),
         c.job = "diff" => Counterpart(c, f.of.old, f.new[f.k].name, b.old)
  PROVE  Focus(c, b)
<1>1. f.k \in 1 .. Len(f.new)
  BY FrameFacts
<1>2. f.new[f.k] \in Elements(c.trees[f.of.new]) /\ Readable(c, f.of.new) /\ Focus(c, f.of)
  BY <1>1, FrameFacts DEF FrameGood
<1>3. b.path = Append(f.of.path, f.new[f.k].name)
  BY DEF At
<1>4. QED
  BY <1>2, <1>3, CallFocus

\* An unchanged tree has nothing to report in it.
LEMMA UnchangedTree ==
  ASSUME NEW c \in Input, NoTwins(c), c.job = "diff", NEW f, FrameGood(c, f), f.k <= Len(f.new),
         IsTree(f.new[f.k]), Unchanged(c, f, f.new[f.k])
  PROVE  \A q \in Path : \A o : Starts(q, At(f, f.k)) => ~Wanted(c, q, o)
<1> DEFINE e == f.new[f.k]
           b == [old |-> e.oid, new |-> e.oid, path |-> At(f, f.k)]
<1>1. Counterpart(c, f.of.old, e.name, e.oid)
  BY DEF Unchanged, Counterpart
<1>2. b.new = e.oid /\ b.old = e.oid /\ b.path = At(f, f.k)
  OBVIOUS
<1> HIDE DEF b
<1>3. Focus(c, b)
  BY <1>1, <1>2, EntryCall
<1>4. QED
  BY <1>2, <1>3, EqualTrees

\* What the code checks before it enters a tree.
Enters(c, s, o) ==
  Len(s) <= MaxTreeDepth /\ o \notin { s[i].of.new : i \in DOMAIN s } /\ Readable(c, o)

\* It enters exactly the trees that are sound so far.
LEMMA EntersWhatIsSound ==
  ASSUME NEW c \in Input, NEW em, NEW s, NEW a, Walk(c, em, s, a, TRUE), s # << >>,
         NEW e, << a.path, e >> \in HasNow(c)
  PROVE  Enters(c, s, a.new) <=> ~RefusedAt(c, a.path, e)
<1> DEFINE n == Len(s)
<1>1. /\ s \in Seq(Frame) /\ \A j \in 1 .. n : FrameGood(c, s[j])
      /\ Spine(s) /\ Pending(c, s, a)
  BY DEF Walk
<1>2. /\ n \in Nat /\ n > 0 /\ Len(a.path) = n /\ DOMAIN s = 1 .. n
      /\ \A j \in 1 .. n : Starts(a.path, s[j].of.path) /\ Len(s[j].of.path) = j - 1
  <2>1. /\ n \in Nat /\ n > 0 /\ Follows(a.path, s, n)
        /\ \A j \in 1 .. n : Starts(a.path, s[j].of.path) /\ Len(s[j].of.path) = j - 1
    BY CallFollows
  <2>2. DOMAIN s = 1 .. n
    BY <1>1, StackFacts
  <2>3. Len(a.path) = n
    BY <2>1 DEF Follows
  <2>4. QED
    BY <2>1, <2>2, <2>3
<1>3. a.path \in Path /\ a.path # << >> /\ IsTree(e) /\ e.oid = a.new /\ Len(a.path) <= Horizon
  <2>1. a.path \in Path /\ a.path # << >> /\ Len(a.path) <= Horizon
    BY RootSits
  <2>2. QED
    BY <1>1, <2>1 DEF Pending, Focus
<1>4. \A j \in 1 .. n : Focus(c, s[j].of) /\ s[j].of.path \in Path
  BY <1>1 DEF FrameGood, Focus
<1>5. s[1].of.new = c.new
  <2>1. 1 \in 1 .. n /\ Len(s[1].of.path) = 0
    BY <1>2
  <2>2. s[1].of.path = << >>
    BY <1>4, <2>1, EmptySeq DEF Path
  <2>3. QED
    BY <1>4, <2>1, <2>2 DEF Focus
<1>6. ASSUME NEW j \in 1 .. n, s[j].of.new = a.new PROVE RefusedAt(c, a.path, e)
  <2>1. CASE s[j].of.path = << >>
    <3>1. s[j].of.new = c.new
      BY <1>4, <2>1 DEF Focus
    <3>2. QED
      BY <1>3, <1>6, <3>1 DEF RefusedAt
  <2>2. CASE s[j].of.path # << >>
    <3> DEFINE r == s[j].of.path
    <3>1. r \in Path /\ Len(r) < Len(a.path) /\ Starts(a.path, r) /\ Len(r) <= Horizon
      BY <1>2, <1>3, <1>4, HorizonAssumption
    <3>2. PICK x : << r, x >> \in HasNow(c)
      BY <1>4, <2>2, <3>1 DEF Focus
    <3>3. IsTree(x) /\ x.oid = a.new
      BY <1>4, <1>6, <2>2, <3>2 DEF Focus
    <3>4. QED
      BY <1>3, <3>1, <3>2, <3>3 DEF RefusedAt
  <2>3. QED
    BY <2>1, <2>2
<1>7. ASSUME NEW r \in Path, NEW x, << r, x >> \in HasNow(c), IsTree(x), x.oid = a.new,
             Len(r) < n, Starts(a.path, r)
      PROVE  \E j \in 1 .. n : s[j].of.new = a.new
  <2>1. r # << >> /\ Len(r) \in Nat
    BY <1>7, RootSits, PathFacts, LenProperties DEF Path
  <2> DEFINE j == Len(r) + 1
  <2>2. j \in 1 .. n /\ Len(s[j].of.path) = Len(r)
    BY <1>2, <1>7, <2>1
  <2>3. \A m \in 1 .. Len(r) : r[m] = s[j].of.path[m]
    BY <1>2, <1>7, <2>2 DEF Starts
  <2> HIDE DEF j
  <2>4. s[j].of.path = r
    BY <1>4, <2>2, <2>3, SeqEqual DEF Path
  <2>5. QED
    BY <1>4, <1>7, <2>1, <2>2, <2>4 DEF Focus
<1>8. (\E j \in 1 .. n : s[j].of.new = a.new) <=> a.new \in { s[i].of.new : i \in DOMAIN s }
  BY <1>2
<1>9. a.new = c.new => \E j \in 1 .. n : s[j].of.new = a.new
  <2>1. 1 \in 1 .. n
    BY <1>2
  <2>2. QED
    BY <1>5, <2>1
<1>10. MaxTreeDepth \in Nat
  BY OIDAssumption
<1>11. CASE Enters(c, s, a.new)
  <2>1. ~(\E j \in 1 .. n : s[j].of.new = a.new) /\ n <= MaxTreeDepth /\ Readable(c, a.new)
    BY <1>8, <1>11 DEF Enters
  <2>2. ~(\E r \in Path : \E x : /\ << r, x >> \in HasNow(c) /\ IsTree(x) /\ x.oid = e.oid
                                /\ Len(r) < Len(a.path) /\ Starts(a.path, r))
    BY <1>2, <1>3, <1>7, <2>1
  <2>3. e.oid # c.new /\ Readable(c, e.oid) /\ ~(Len(a.path) > MaxTreeDepth)
    BY <1>2, <1>3, <1>9, <1>10, <2>1
  <2>4. ~RefusedAt(c, a.path, e)
    BY <2>2, <2>3 DEF RefusedAt
  <2>5. QED
    BY <1>11, <2>4
<1>12. CASE ~Enters(c, s, a.new)
  <2>1. \/ \E j \in 1 .. n : s[j].of.new = a.new
        \/ n > MaxTreeDepth \/ ~Readable(c, a.new)
    BY <1>2, <1>8, <1>10, <1>12 DEF Enters
  <2>2. n > MaxTreeDepth \/ ~Readable(c, a.new) => RefusedAt(c, a.path, e)
    BY <1>2, <1>3 DEF RefusedAt
  <2>3. QED
    BY <1>6, <1>12, <2>1, <2>2
<1>13. QED
  BY <1>11, <1>12

-----------------------------------------------------------------------------
(* The invariant of comparisons and traversals.                            *)

\* What has been reported is to be reported.
Sound(c, em) ==
  \A x \in Elements(em) :
    x \in Path \X OID /\ (Len(x[1]) <= Horizon => Wanted(c, x[1], x[2]))

\* Something that the call cannot cope with.
Excused(c, a) ==
  \/ ~Readable(c, c.new) \/ Len(a.path) > Horizon
  \/ \E q, e : /\ << q, e >> \in HasNow(c)
               /\ IF c.job = "diff"
                  THEN /\ IsTree(e) /\ ~Readable(c, e.oid)
                       /\ \A y : ~(<< q, y >> \in HadThen(c) /\ y.oid = e.oid /\ IsTree(y))
                  ELSE RefusedAt(c, q, e)

Walking ==
  /\ arg \in Args
  /\ pc \in IF in.job = "diff" THEN {"diff", "merge", "done", "failed"}
                               ELSE {"traverse", "entries", "done", "failed"}
  /\ pc \in {"diff", "traverse"} => Walk(in, emitted, stack, arg, TRUE)
  /\ pc \in {"merge", "entries"} => Walk(in, emitted, stack, arg, FALSE)
  /\ pc = "done" => Complete(in, emitted)
  /\ pc = "failed" => Sound(in, emitted) /\ (ctxCancelled \/ Excused(in, arg))

WalkInv ==
  /\ in \in Input /\ ctxCancelled \in BOOLEAN
  /\ in.job \in {"diff", "traverse"} /\ NoTwins(in) => Walking

\* A walk that is exact has reported nothing else.
LEMMA ExactIsSound ==
  ASSUME NEW c, NEW em, NEW s, NEW p, Exact(c, em, s, p)
  PROVE  Sound(c, em)
<1>1. em \in Seq(Path \X OID)
  BY DEF Exact
<1>2. DOMAIN em = 1 .. Len(em) /\ \A i \in 1 .. Len(em) : em[i] \in Path \X OID
  BY <1>1, LenProperties, ElementOfSeq
<1>3. \A x \in Elements(em) : x \in Path \X OID
  BY <1>2 DEF Elements
<1>4. ASSUME NEW x \in Elements(em), Len(x[1]) <= Horizon PROVE Wanted(c, x[1], x[2])
  <2>1. x[1] \in Path /\ x = << x[1], x[2] >>
    BY <1>3
  <2>2. << x[1], x[2] >> \in Elements(em) <=> Wanted(c, x[1], x[2]) /\ Behind(s, p, x[1])
    BY <1>4, <2>1 DEF Exact
  <2>3. QED
    BY <2>1, <2>2
<1>5. QED
  BY <1>3, <1>4 DEF Sound

\* A call begins with nothing behind it.
LEMMA WalkBegins ==
  ASSUME NEW c \in Input, NEW a \in Args, Focus(c, a), a.path = << >>
  PROVE  Walk(c, << >>, << >>, a, TRUE)
<1> DEFINE s == << >>
<1>1. s \in Seq(Frame) /\ Len(s) = 0 /\ s \in Seq(Path \X OID) /\ s = << >>
  BY EmptySeq
<1>2. Elements(s) = {}
  BY EmptySeq DEF Elements
<1>3. IsFiniteSet({}) /\ Cardinality({}) = 0
  BY FS_EmptySet
<1> HIDE DEF s
<1>4. \A q : ~Behind(s, TRUE, q)
  BY <1>1 DEF Behind
<1>5. Exact(c, s, s, TRUE)
  BY <1>1, <1>2, <1>3, <1>4 DEF Exact
<1>6. Spine(s)
  BY <1>1 DEF Spine
<1>7. Careful(c, s, TRUE)
  <2>1. \A j \in 2 .. Len(s) : FALSE
    BY <1>1
  <2>2. QED
    BY <1>4, <2>1 DEF Careful
<1>8. Pending(c, s, a)
  BY <1>1 DEF Pending
<1>9. Walk(c, s, s, a, TRUE)
  <2>1. \A j \in 1 .. Len(s) : FrameGood(c, s[j])
    BY <1>1
  <2>2. QED
    BY <1>1, <1>5, <1>6, <1>7, <1>8, <2>1 DEF Walk
<1>10. QED
  BY <1>9 DEF s

\* The invariant holds at first.
LEMMA WalkInvInit ==
  ASSUME Init
  PROVE  WalkInv
<1>1. in \in Input /\ ctxCancelled \in BOOLEAN /\ IsInput(in)
  BY InputFacts DEF Init
<1>2. ASSUME in.job \in {"diff", "traverse"} PROVE Walking
  <2>1. << >> \in Path
    BY EmptySeq DEF Path
  <2>2. arg \in Args /\ arg.path = << >> /\ pc = in.job /\ emitted = << >> /\ stack = << >>
    BY <1>1, <2>1 DEF Init, IsInput, Args
  <2>3. Focus(in, arg)
    BY <1>1, RootFocus DEF Init
  <2>4. Walk(in, emitted, stack, arg, TRUE)
    BY <1>1, <2>2, <2>3, WalkBegins
  <2>5. QED
    BY <1>2, <2>2, <2>4 DEF Walking
<1>3. QED
  BY <1>1, <1>2 DEF WalkInv

\* A frame is put on top.
LEMMA SetTopFacts ==
  ASSUME NEW s \in Seq(Frame), s # << >>, NEW g \in Frame, NEW t, t = [s EXCEPT ![Len(s)] = g]
  PROVE  /\ t \in Seq(Frame) /\ Len(t) = Len(s) /\ Len(s) \in 1 .. Len(s) /\ Len(s) \in Nat
         /\ \A j \in 1 .. Len(s) - 1 : t[j] = s[j]
         /\ t[Len(s)] = g
<1>1. Len(s) \in Nat /\ Len(s) > 0 /\ DOMAIN s = 1 .. Len(s) /\ \A j \in 1 .. Len(s) : s[j] \in Frame
  BY StackFacts, EmptySeq
<1> DEFINE n == Len(s)
<1>0. n \in Nat /\ n > 0 /\ DOMAIN s = 1 .. n /\ t = [s EXCEPT ![n] = g] /\ s \in [1 .. n -> Frame]
  <2>1. s \in [1 .. Len(s) -> Frame]
    BY LenProperties
  <2>2. QED
    BY <1>1, <2>1
<1> HIDE DEF n
<1>2. DOMAIN t = 1 .. n /\ t[n] = g /\ \A j \in 1 .. n - 1 : t[j] = s[j]
  BY <1>0
<1>3. t \in [1 .. n -> Frame]
  BY <1>0
<1>4. t \in Seq(Frame) /\ Len(t) = n
  BY <1>0, <1>3, IsASeq
<1>5. QED
  <2>1. n \in 1 .. n
    BY <1>0
  <2>2. QED
    BY <1>0, <1>2, <1>4, <2>1, Zenon DEF n

\* What a tree that is compared consists of.
LEMMA EntriesFacts ==
  ASSUME in \in Input, NoTwins(in), NEW o
  PROVE  /\ Entries(o) \in Seq(Entry) /\ Increasing(Entries(o)) /\ Distinct(Entries(o))
         /\ Elements(Entries(o)) = IF Readable(in, o) THEN Elements(in.trees[o]) ELSE {}
<1>1. CASE Readable(in, o)
  <2>1. in.trees[o] \in Seq(Entry) /\ Distinct(in.trees[o])
    BY <1>1, InputFacts DEF Readable, NoTwins
  <2>2. Entries(o) = Sorted(in.trees[o])
    BY <1>1 DEF Entries, IsReadable, Readable
  <2>3. QED
    BY <1>1, <2>1, <2>2, SortedFacts
<1>2. CASE ~Readable(in, o)
  <2>1. Entries(o) = << >>
    BY <1>2 DEF Entries, IsReadable, Readable
  <2>2. << >> \in Seq(Entry) /\ DOMAIN << >> = {}
    BY EmptySeq
  <2>3. QED
    BY <1>2, <2>1, <2>2 DEF Increasing, Distinct, Elements
<1>3. QED
  BY <1>1, <1>2

Calm == in \in Input /\ ctxCancelled \in BOOLEAN /\ NoTwins(in) /\ in.job \in {"diff", "traverse"}

\* A comparison begins: it prunes, fails or enters.
LEMMA WalkingDiffEnter ==
  ASSUME Calm, Walking, DiffEnter
  PROVE  Walking'
<1>1. /\ in \in Input /\ NoTwins(in) /\ pc = "diff" /\ in.job = "diff" /\ arg \in Args
      /\ Walk(in, emitted, stack, arg, TRUE)
      /\ in' = in /\ ctxCancelled' = ctxCancelled
  BY DEF Calm, Walking, DiffEnter
<1>2. /\ stack \in Seq(Frame) /\ Exact(in, emitted, stack, TRUE) /\ Pending(in, stack, arg)
      /\ Focus(in, arg)
  BY <1>1 DEF Walk, Pending
<1>3. CASE arg.old = arg.new
  <2>1. arg' = arg /\ stack' = stack /\ emitted' = emitted
        /\ pc' = IF stack = << >> THEN "done" ELSE "merge"
    BY <1>3 DEF DiffEnter
  <2>2. \A q \in Path : \A b : Starts(q, arg.path) => ~Wanted(in, q, b)
    BY <1>1, <1>2, <1>3, EqualTrees
  <2>3. CASE stack = << >>
    <3>1. \A q : ~Behind(stack, TRUE, q)
      BY <2>3, EmptySeq DEF Behind
    <3>2. arg.path = << >>
      BY <1>2, <2>3 DEF Pending
    <3>3. \A q \in Path : \A b : ~Wanted(in, q, b)
      <4>1. \A q \in Path : Starts(q, << >>)
        BY LenProperties DEF Starts, Path
      <4>2. QED
        BY <2>2, <3>2, <4>1
    <3>4. Complete(in, emitted)
      BY <1>1, <1>2, <3>1, <3>3 DEF Complete, Exact
    <3>5. QED
      BY <1>1, <2>1, <2>3, <3>4 DEF Walking
  <2>4. CASE stack # << >>
    <3>1. Walk(in, emitted, stack, arg, FALSE)
      BY <1>1, <2>2, <2>4, WalkPrune
    <3>2. QED
      BY <1>1, <2>1, <2>4, <3>1 DEF Walking
  <2>5. QED
    BY <2>3, <2>4
<1>4. CASE arg.old # arg.new /\ (ctxCancelled \/ ~IsReadable(arg.new))
  <2>1. arg' = arg /\ stack' = stack /\ emitted' = emitted /\ pc' = "failed"
    BY <1>4 DEF DiffEnter, End
  <2>2. ASSUME ~ctxCancelled PROVE Excused(in, arg)
    <3>1. ~Readable(in, arg.new)
      BY <1>4, <2>2 DEF IsReadable, Readable
    <3>2. CASE arg.path = << >>
      BY <1>2, <3>1, <3>2 DEF Excused, Focus
    <3>3. CASE arg.path # << >> /\ Len(arg.path) <= Horizon
      <4>1. PICK e : << arg.path, e >> \in HasNow(in)
        BY <1>2, <3>3 DEF Focus
      <4>2. IsTree(e) /\ e.oid = arg.new
        BY <1>2, <3>3, <4>1 DEF Focus
      <4>3. \A y : << arg.path, y >> \in HadThen(in) /\ IsTree(y) => y.oid = arg.old
        BY <1>1, <1>2, <3>3 DEF Focus
      <4>4. QED
        <5>1. \A y : ~(<< arg.path, y >> \in HadThen(in) /\ y.oid = e.oid /\ IsTree(y))
          BY <1>4, <4>2, <4>3
        <5>2. ~Readable(in, e.oid)
          BY <3>1, <4>2
        <5>3. QED
          BY <1>1, <4>1, <4>2, <5>1, <5>2 DEF Excused
    <3>4. CASE Len(arg.path) > Horizon
      BY <3>4 DEF Excused
    <3>5. Len(arg.path) \in Nat /\ Horizon \in Nat
      BY <1>1, HorizonAssumption, LenProperties DEF Args, Path
    <3>6. QED
      BY <3>2, <3>3, <3>4, <3>5
  <2>3. Sound(in, emitted)
    BY <1>2, ExactIsSound
  <2>4. QED
    BY <1>1, <2>1, <2>2, <2>3 DEF Walking
<1>5. CASE arg.old # arg.new /\ ~(ctxCancelled \/ ~IsReadable(arg.new))
  <2> DEFINE f == [of |-> arg, old |-> Entries(arg.old), i |-> 1, new |-> Entries(arg.new), k |-> 1]
  <2>1. arg' = arg /\ stack' = Append(stack, f) /\ emitted' = emitted /\ pc' = "merge"
    BY <1>5 DEF DiffEnter
  <2>2. Readable(in, arg.new)
    BY <1>5 DEF IsReadable, Readable
  <2>3. /\ f.of = arg /\ f.old = Entries(arg.old) /\ f.i = 1 /\ f.new = Entries(arg.new) /\ f.k = 1
    OBVIOUS
  <2>4. /\ Entries(arg.old) \in Seq(Entry) /\ Entries(arg.new) \in Seq(Entry)
        /\ Len(f.old) \in Nat /\ Len(f.new) \in Nat
    BY <1>1, <2>3, EntriesFacts, LenProperties
  <2>5. f \in DiffFrame
    BY <1>1, <2>4 DEF DiffFrame
  <2> HIDE DEF f
  <2>6. Merging(in, f)
    <3>1. \A x \in 1 .. f.i - 1 : FALSE
      BY <2>3
    <3>2. f.i \in 1 .. Len(f.old) + 1
      BY <2>3, <2>4
    <3>3. QED
      BY <1>1, <2>3, <2>5, <3>1, <3>2, EntriesFacts DEF Merging
  <2>7. FrameGood(in, f)
    <3>1. f.k \in 1 .. Len(f.new) + 1
      BY <2>3, <2>4
    <3>2. Distinct(f.new) /\ Elements(f.new) = Elements(in.trees[f.of.new])
      BY <1>1, <2>2, <2>3, EntriesFacts
    <3>3. QED
      BY <1>1, <1>2, <2>2, <2>3, <2>5, <2>6, <3>1, <3>2 DEF FrameGood, Frame
  <2>8. Walk(in, emitted, Append(stack, f), arg, FALSE)
    BY <1>1, <2>3, <2>7, WalkEnter
  <2>9. QED
    BY <1>1, <2>1, <2>8 DEF Walking
<1>6. QED
  BY <1>3, <1>4, <1>5

\* What holds of the frame that a step works on.
LEMMA WorkingTop ==
  ASSUME NEW c \in Input, NEW em, NEW s, NEW a, Walk(c, em, s, a, FALSE)
  PROVE  /\ s \in Seq(Frame) /\ s # << >> /\ \A j \in 1 .. Len(s) : FrameGood(c, s[j])
         /\ FrameGood(c, s[Len(s)]) /\ s[Len(s)].k \in Nat /\ s[Len(s)].k > 0
         /\ Exact(c, em, s, FALSE) /\ Len(s) \in Nat /\ Len(s) > 0 /\ Len(s) \in 1 .. Len(s)
<1>1. /\ s \in Seq(Frame) /\ s # << >> /\ \A j \in 1 .. Len(s) : FrameGood(c, s[j])
      /\ Exact(c, em, s, FALSE)
  BY DEF Walk
<1>2. QED
  BY <1>1, TopFacts

\* The merge passes an old entry.
LEMMA WalkingSkipOld ==
  ASSUME Calm, Walking, SkipOld
  PROVE  Walking'
<1> DEFINE f == Top  g == [f EXCEPT !.i = @ + 1]
<1>1. /\ in \in Input /\ NoTwins(in) /\ pc = "merge" /\ in.job = "diff" /\ arg \in Args
      /\ Walk(in, emitted, stack, arg, FALSE)
      /\ in' = in /\ ctxCancelled' = ctxCancelled /\ arg' = arg /\ pc' = pc /\ emitted' = emitted
      /\ stack' = [stack EXCEPT ![Len(stack)] = g]
      /\ f.k <= Len(f.new) /\ f.i <= Len(f.old) /\ Precedes(f.old[f.i], f.new[f.k])
  BY DEF Calm, Walking, SkipOld, SetTop, HasNew, HasOld, Old, New
<1>2. /\ stack \in Seq(Frame) /\ stack # << >> /\ \A j \in 1 .. Len(stack) : FrameGood(in, stack[j])
      /\ FrameGood(in, f) /\ f.k \in Nat /\ f.k > 0
  BY <1>1, WorkingTop DEF Top
<1>3. Merging(in, f)
  BY <1>1, <1>2 DEF FrameGood
<1>4. Merging(in, g)
  BY <1>1, <1>2, <1>3, MergingSkip
<1>5. g.of = f.of /\ g.new = f.new /\ g.k = f.k
  BY <1>3 DEF Merging, DiffFrame
<1>6. f = stack[Len(stack)]
  BY DEF Top
<1> HIDE DEF f, g
<1>7. FrameGood(in, g) /\ g \in Frame
  <2>1. FrameGood(in, g)
    BY <1>1, <1>2, <1>4, <1>5, FrameMoves
  <2>2. QED
    BY <2>1 DEF FrameGood
<1>8. /\ stack' \in Seq(Frame) /\ Len(stack') = Len(stack) /\ Len(stack) \in Nat
      /\ \A j \in 1 .. Len(stack) - 1 : stack'[j] = stack[j]
      /\ stack'[Len(stack)] = g
  BY <1>1, <1>2, <1>7, SetTopFacts
<1>9. \A j \in 1 .. Len(stack) : j \in 1 .. Len(stack) - 1 \/ j = Len(stack)
  BY <1>8
<1>10. \A j \in 1 .. Len(stack') : FrameGood(in, stack'[j])
  BY <1>2, <1>7, <1>8, <1>9
<1>11. \A j \in 1 .. Len(stack) :
         stack'[j].of = stack[j].of /\ stack'[j].new = stack[j].new /\ stack'[j].k = stack[j].k
  BY <1>5, <1>6, <1>8, <1>9
<1>12. Walk(in, emitted, stack', arg, FALSE)
  BY <1>1, <1>8, <1>10, <1>11, WalkAlike
<1>13. QED
  BY <1>1, <1>12 DEF Walking

\* A frame that has moved on is put on top.
LEMMA TopMoves ==
  ASSUME NEW c \in Input, NEW s \in Seq(Frame), s # << >>, NEW g, FrameGood(c, g),
         g.of = s[Len(s)].of, g.new = s[Len(s)].new, g.k = s[Len(s)].k + 1,
         NEW t, t = [s EXCEPT ![Len(s)] = g]
  PROVE  Moved(s, t) /\ FrameGood(c, t[Len(s)])
<1>1. g \in Frame
  BY DEF FrameGood
<1>2. /\ t \in Seq(Frame) /\ Len(t) = Len(s)
      /\ \A j \in 1 .. Len(s) - 1 : t[j] = s[j]
      /\ t[Len(s)] = g
  BY <1>1, SetTopFacts
<1>3. QED
  BY <1>2 DEF Moved

\* The merge takes a new entry.
LEMMA WalkingMergeEntry ==
  ASSUME Calm, Walking, MergeEntry
  PROVE  Walking'
<1> DEFINE f == Top  e == f.new[f.k]  r == At(f, f.k)
           g == [f EXCEPT !.k = @ + 1, !.i = IF Same(f) THEN @ + 1 ELSE @]
           b == IF Same(f) /\ IsTree(f.old[f.i]) THEN f.old[f.i].oid ELSE NoTree
           kept == Same(f) /\ f.old[f.i].oid = e.oid
<1>1. /\ in \in Input /\ NoTwins(in) /\ pc = "merge" /\ in.job = "diff" /\ arg \in Args
      /\ Walk(in, emitted, stack, arg, FALSE)
      /\ in' = in /\ ctxCancelled' = ctxCancelled
      /\ f.k <= Len(f.new) /\ ~(f.i <= Len(f.old) /\ Precedes(f.old[f.i], e))
      /\ f = stack[Len(stack)]
  BY DEF Calm, Walking, MergeEntry, HasNew, HasOld, Old, New, Top
<1>2. stack' = [stack EXCEPT ![Len(stack)] = g]
  BY DEF MergeEntry, Advance, SetTop, SameEntry, Same, HasOld, Old, New
<1>3. ASSUME \/ /\ kept /\ pc' = pc /\ arg' = arg /\ emitted' = emitted
             \/ /\ ~kept /\ IsTree(e) /\ pc' = "diff" /\ emitted' = emitted
                /\ arg' = [old |-> b, new |-> e.oid, path |-> r]
             \/ /\ ~kept /\ ~IsTree(e) /\ pc' = pc /\ arg' = arg
                /\ emitted' = IF IsBlob(e) /\ r \notin in.unwanted
                              THEN Append(emitted, << r, e.oid >>) ELSE emitted
      PROVE  Walking'
  <2>1. /\ stack \in Seq(Frame) /\ stack # << >> /\ \A j \in 1 .. Len(stack) : FrameGood(in, stack[j])
        /\ FrameGood(in, f) /\ f.k \in Nat /\ f.k > 0
    BY <1>1, WorkingTop DEF Top
  <2>2. Merging(in, f) /\ f.k \in 1 .. Len(f.new)
    BY <1>1, <2>1, FrameFacts DEF FrameGood
  <2>3. Merging(in, g)
    BY <1>1, <2>1, <2>2, MergingAdvance
  <2>4. g.of = f.of /\ g.new = f.new /\ g.k = f.k + 1
    <3> DEFINE h == [f EXCEPT !.k = f.k + 1]
    <3>0. f \in DiffFrame
      BY <2>2 DEF Merging
    <3>1. h.of = f.of /\ h.new = f.new /\ h.k = f.k + 1 /\ h.i = f.i /\ h \in DiffFrame
      <4> HIDE DEF f
      <4>1. QED
        BY <2>1, <3>0 DEF DiffFrame
    <3> HIDE DEF h
    <3>2. \A m : [h EXCEPT !.i = m].of = h.of /\ [h EXCEPT !.i = m].new = h.new
                 /\ [h EXCEPT !.i = m].k = h.k
      BY <3>1 DEF DiffFrame
    <3>3. g = [h EXCEPT !.i = IF Same(f) THEN h.i + 1 ELSE h.i]
      BY Zenon DEF h
    <3> HIDE DEF g
    <3>4. QED
      BY <3>1, <3>2, <3>3, Zenon
  <2>5. kept <=> Unchanged(in, f, e)
    BY <1>1, <2>1, <2>2, MergeUnchanged
  <2>6. IsTree(e) => Counterpart(in, f.of.old, e.name, b)
    BY <1>1, <2>1, <2>2, MergeCounterpart
  <2>7. /\ e.oid \in OID /\ r \in Path /\ b \in OID \cup {NoTree}
    <3>1. e.oid \in OID /\ r \in Path
      BY <1>1, <2>1, <2>2, FrameFacts
    <3>2. Same(f) => f.old[f.i].oid \in OID
      <4>1. Same(f) => f.old[f.i] \in Entry
        BY <2>1, <2>2, <1>1, MergingFacts DEF Same
      <4>2. QED
        BY <4>1 DEF Entry
    <3>3. QED
      BY <3>1, <3>2
  <2> HIDE DEF f, e, g, b, kept
  <2>8. FrameGood(in, g)
    BY <1>1, <2>1, <2>3, <2>4, FrameMoves
  <2>9. Moved(stack, stack') /\ FrameGood(in, stack'[Len(stack)])
    BY <1>1, <1>2, <2>1, <2>4, <2>8, TopMoves
  <2>10. /\ stack[Len(stack)].k <= Len(stack[Len(stack)].new)
         /\ r = At(stack[Len(stack)], stack[Len(stack)].k)
    BY <1>1
  <2>11. ASSUME Reports(in, emitted, emitted', r, e.oid), pc' = pc, arg' = arg
         PROVE  Walking'
    <3>1. Walk(in, emitted', stack', arg, FALSE)
      <4> HIDE DEF r
      <4>1. QED
        BY <1>1, <2>7, <2>9, <2>10, <2>11, WalkEntry
    <3>2. QED
      BY <1>1, <2>11, <3>1 DEF Walking
  <2>12. CASE kept /\ pc' = pc /\ arg' = arg /\ emitted' = emitted
    <3>1. CASE IsTree(e)
      <4>1. \A q \in Path : \A o : Starts(q, r) => ~Wanted(in, q, o)
        BY <1>1, <2>1, <2>5, <2>12, <3>1, UnchangedTree DEF e
      <4>2. QED
        BY <2>11, <2>12, <4>1 DEF Reports
    <3>2. CASE ~IsTree(e)
      <4>1. Reports(in, emitted, emitted', r, e.oid)
        BY <1>1, <2>1, <2>5, <2>12, <3>2, EntryReports DEF e
      <4>2. QED
        BY <2>11, <2>12, <4>1
    <3>3. QED
      BY <3>1, <3>2
  <2>13. CASE ~kept /\ ~IsTree(e) /\ pc' = pc /\ arg' = arg
         /\ emitted' = IF IsBlob(e) /\ r \notin in.unwanted THEN Append(emitted, << r, e.oid >>)
                                                             ELSE emitted
    <3>1. emitted' = IF IsBlob(e) /\ r \notin in.unwanted /\ ~Unchanged(in, f, e)
                     THEN Append(emitted, << r, e.oid >>) ELSE emitted
      BY <2>5, <2>13
    <3>2. Reports(in, emitted, emitted', r, e.oid)
      BY <1>1, <2>1, <2>13, <3>1, EntryReports DEF e
    <3>3. QED
      BY <2>11, <2>13, <3>2
  <2>14. CASE ~kept /\ IsTree(e) /\ arg' = [old |-> b, new |-> e.oid, path |-> r] /\ pc' = "diff"
         /\ emitted' = emitted
    <3>1. arg'.new = e.oid /\ arg'.path = r /\ arg'.old = b /\ arg' \in Args
      BY <2>7, <2>14 DEF Args
    <3>2. Focus(in, arg')
      BY <1>1, <2>1, <2>6, <2>14, <3>1, EntryCall DEF e
    <3>3. Walk(in, emitted, stack', arg', TRUE)
      BY <1>1, <2>9, <2>10, <3>1, <3>2, WalkCall
    <3>4. QED
      BY <1>1, <2>14, <3>1, <3>3 DEF Walking
  <2>15. QED
    BY <1>3, <2>12, <2>13, <2>14
<1>4. /\ New = e /\ Append(Top.of.path, New.name) = r
      /\ (SameEntry /\ Old.oid = New.oid <=> kept)
      /\ OldSubtree = b
  BY DEF New, Old, SameEntry, HasOld, Same, OldSubtree, At
<1>5. CASE ~kept /\ ~IsTree(e)
  <2>1. /\ pc' = pc /\ arg' = arg
        /\ IF IsBlob(e) THEN Emit(r, e) ELSE emitted' = emitted
    <3> HIDE DEF e, r, b, kept
    <3>1. QED
      BY <1>4, <1>5 DEF MergeEntry, Emit
  <2>2. emitted' = IF IsBlob(e) /\ r \notin in.unwanted
                    THEN Append(emitted, << r, e.oid >>) ELSE emitted
    BY <2>1 DEF Emit
  <2>3. QED
    <3> HIDE DEF f, e, r, b, kept
    <3>1. QED
      BY <1>3, <1>5, <2>1, <2>2
<1>6. CASE ~kept /\ IsTree(e)
  <2> HIDE DEF f, e, r, b, kept
  <2>1. arg' = [old |-> b, new |-> e.oid, path |-> r] /\ pc' = "diff" /\ emitted' = emitted
    <3>1. ~(SameEntry /\ Old.oid = New.oid) /\ IsTree(New) /\ ~IsBlob(New)
      BY <1>4, <1>6 DEF IsTree, IsBlob
    <3>2. /\ arg' = [old |-> OldSubtree, new |-> New.oid, path |-> Append(Top.of.path, New.name)]
          /\ pc' = "diff" /\ emitted' = emitted
      BY <3>1 DEF MergeEntry
    <3>3. QED
      BY <1>4, <3>2
  <2>2. QED
    BY <1>3, <1>6, <2>1
<1>7. CASE kept
  <2> HIDE DEF f, e, r, b, kept
  <2>1. pc' = pc /\ arg' = arg /\ emitted' = emitted
    BY <1>4, <1>7 DEF MergeEntry
  <2>2. QED
    BY <1>3, <1>7, <2>1
<1>8. QED
  BY <1>5, <1>6, <1>7

\* A call ends.
LEMMA WalkingReturn ==
  ASSUME Calm, Walking, pc \in {"merge", "entries"}, ~HasNew, Return(pc)
  PROVE  Walking'
<1>1. /\ in \in Input /\ arg \in Args /\ Walk(in, emitted, stack, arg, FALSE)
      /\ in' = in /\ ctxCancelled' = ctxCancelled /\ arg' = arg /\ emitted' = emitted
      /\ stack' = SubSeq(stack, 1, Len(stack) - 1)
      /\ pc' = IF Len(stack) = 1 THEN "done" ELSE pc
      /\ stack[Len(stack)].k \in Nat /\ ~(stack[Len(stack)].k <= Len(stack[Len(stack)].new))
      /\ pc \in IF in.job = "diff" THEN {"merge"} ELSE {"entries"}
  <2>1. in \in Input /\ Walk(in, emitted, stack, arg, FALSE) /\ arg \in Args
        /\ pc \in IF in.job = "diff" THEN {"merge"} ELSE {"entries"}
    BY DEF Calm, Walking
  <2>2. stack[Len(stack)].k \in Nat /\ ~(stack[Len(stack)].k <= Len(stack[Len(stack)].new))
    BY <2>1, WorkingTop DEF HasNew, Top
  <2>3. QED
    BY <2>1, <2>2 DEF Return
<1>2. stack[Len(stack)].k > Len(stack[Len(stack)].new)
  <2>1. FrameGood(in, stack[Len(stack)])
    BY <1>1, WorkingTop
  <2>2. Len(stack[Len(stack)].new) \in Nat
    BY <1>1, <2>1, FrameFacts
  <2>3. QED
    BY <1>1, <2>2
<1>3. CASE Len(stack) = 1
  <2>1. Complete(in, emitted)
    BY <1>1, <1>2, <1>3, WalkDone
  <2>2. QED
    BY <1>1, <1>3, <2>1 DEF Walking
<1>4. CASE Len(stack) # 1
  <2>1. Walk(in, emitted, stack', arg, FALSE)
    BY <1>1, <1>2, <1>4, WalkReturn
  <2>2. QED
    BY <1>1, <1>4, <2>1 DEF Walking
<1>5. QED
  BY <1>3, <1>4

\* A traversal enters a tree or refuses it.
LEMMA WalkingTraverseEnter ==
  ASSUME Calm, Walking, TraverseEnter
  PROVE  Walking'
<1>1. /\ in \in Input /\ NoTwins(in) /\ pc = "traverse" /\ in.job = "traverse" /\ arg \in Args
      /\ Walk(in, emitted, stack, arg, TRUE)
      /\ in' = in /\ ctxCancelled' = ctxCancelled
  BY DEF Calm, Walking, TraverseEnter
<1>2. /\ stack \in Seq(Frame) /\ Exact(in, emitted, stack, TRUE) /\ Pending(in, stack, arg)
      /\ Focus(in, arg)
  BY <1>1 DEF Walk, Pending
<1>3. MayEnter(arg.new) <=> Enters(in, stack, arg.new)
  BY DEF MayEnter, Enters, Visited, IsReadable, Readable
<1>4. CASE ~MayEnter(arg.new) /\ End("failed")
  <2>1. arg' = arg /\ stack' = stack /\ emitted' = emitted /\ pc' = "failed"
    BY <1>4 DEF End
  <2>2. Excused(in, arg)
    <3>1. CASE stack = << >>
      <4>1. arg.new = in.new
        BY <1>2, <3>1 DEF Pending, Focus
      <4>2. Len(stack) = 0 /\ DOMAIN stack = {} /\ MaxTreeDepth \in Nat
        BY <3>1, EmptySeq, OIDAssumption
      <4>3. ~Readable(in, arg.new)
        BY <1>3, <1>4, <4>2 DEF Enters
      <4>4. QED
        BY <4>1, <4>3 DEF Excused
    <3>2. CASE stack # << >> /\ Len(arg.path) <= Horizon
      <4>1. arg.path # << >>
        <5>1. Follows(arg.path, stack, Len(stack)) /\ Len(stack) > 0 /\ Len(stack) \in Nat
          BY <1>1, <3>2, CallFollows
        <5>2. Len(arg.path) = Len(stack)
          BY <5>1 DEF Follows
        <5>3. QED
          BY <5>1, <5>2, EmptySeq
      <4>2. PICK e : << arg.path, e >> \in HasNow(in)
        BY <1>2, <3>2, <4>1 DEF Focus
      <4>3. RefusedAt(in, arg.path, e)
        BY <1>1, <1>3, <1>4, <3>2, <4>2, EntersWhatIsSound
      <4>4. QED
        BY <1>1, <4>2, <4>3 DEF Excused
    <3>3. CASE Len(arg.path) > Horizon
      BY <3>3 DEF Excused
    <3>4. Len(arg.path) \in Nat /\ Horizon \in Nat
      BY <1>1, HorizonAssumption, LenProperties DEF Args, Path
    <3>5. QED
      BY <3>1, <3>2, <3>3, <3>4
  <2>3. Sound(in, emitted)
    BY <1>2, ExactIsSound
  <2>4. QED
    BY <1>1, <2>1, <2>2, <2>3 DEF Walking
<1>5. CASE /\ MayEnter(arg.new)
           /\ stack' = Append(stack, [of |-> arg, new |-> in.trees[arg.new], k |-> 1])
           /\ pc' = "entries" /\ arg' = arg /\ emitted' = emitted
  <2> DEFINE f == [of |-> arg, new |-> in.trees[arg.new], k |-> 1]
  <2>1. Readable(in, arg.new) /\ Enters(in, stack, arg.new)
    BY <1>3, <1>5 DEF Enters
  <2>2. f.of = arg /\ f.new = in.trees[arg.new] /\ f.k = 1
    OBVIOUS
  <2>3. in.trees[arg.new] \in Seq(Entry) /\ Len(f.new) \in Nat /\ Distinct(f.new)
    BY <1>1, <2>1, <2>2, InputFacts, LenProperties DEF Readable, NoTwins
  <2>4. f \in WalkFrame
    BY <1>1, <2>3 DEF WalkFrame
  <2>5. stack' = Append(stack, f)
    BY <1>5
  <2> HIDE DEF f
  <2>6. FrameGood(in, f)
    <3>1. f.k \in 1 .. Len(f.new) + 1
      BY <2>2, <2>3
    <3>2. QED
      BY <1>1, <1>2, <2>1, <2>2, <2>3, <2>4, <3>1 DEF FrameGood, Frame
  <2>7. stack # << >> => \A x : << arg.path, x >> \in HasNow(in) => ~RefusedAt(in, arg.path, x)
    BY <1>1, <2>1, EntersWhatIsSound
  <2>8. Walk(in, emitted, Append(stack, f), arg, FALSE)
    BY <1>1, <2>2, <2>6, <2>7, WalkEnter
  <2>9. QED
    BY <1>1, <1>5, <2>5, <2>8 DEF Walking
<1>6. QED
  BY <1>4, <1>5 DEF TraverseEnter

\* A traversal takes an entry.
LEMMA WalkingTraverseEntry ==
  ASSUME Calm, Walking, TraverseEntry
  PROVE  Walking'
<1> DEFINE f == Top  e == f.new[f.k]  r == At(f, f.k)  g == [f EXCEPT !.k = @ + 1]
<1>1. /\ in \in Input /\ NoTwins(in) /\ pc = "entries" /\ in.job = "traverse" /\ arg \in Args
      /\ Walk(in, emitted, stack, arg, FALSE)
      /\ in' = in /\ ctxCancelled' = ctxCancelled /\ f.k <= Len(f.new)
      /\ f = stack[Len(stack)]
  BY DEF Calm, Walking, TraverseEntry, HasNew, Top
<1>2. /\ stack \in Seq(Frame) /\ stack # << >> /\ \A j \in 1 .. Len(stack) : FrameGood(in, stack[j])
      /\ FrameGood(in, f) /\ f.k \in Nat /\ f.k > 0 /\ Exact(in, emitted, stack, FALSE)
  BY <1>1, WorkingTop DEF Top
<1>3. CASE ctxCancelled /\ End("failed")
  <2>1. arg' = arg /\ stack' = stack /\ emitted' = emitted /\ pc' = "failed"
    BY <1>3 DEF End
  <2>2. Sound(in, emitted)
    BY <1>2, ExactIsSound
  <2>3. QED
    BY <1>1, <1>3, <2>1, <2>2 DEF Walking
<1>4. CASE /\ stack' = [stack EXCEPT ![Len(stack)] = g]
           /\ emitted' = IF IsBlob(e) /\ r \notin in.unwanted THEN Append(emitted, << r, e.oid >>)
                                                              ELSE emitted
           /\ IF IsTree(e) THEN pc' = "traverse" /\ arg' = [arg EXCEPT !.new = e.oid, !.path = r]
                           ELSE pc' = pc /\ arg' = arg
  <2>1. f \in WalkFrame /\ f.k \in 1 .. Len(f.new)
    BY <1>1, <1>2, FrameFacts DEF FrameGood
  <2>2. g \in WalkFrame /\ g.of = f.of /\ g.new = f.new /\ g.k = f.k + 1
    BY <1>2, <2>1 DEF WalkFrame
  <2>3. e.oid \in OID /\ r \in Path
    BY <1>1, <1>2, <2>1, FrameFacts
  <2>4. ~Unchanged(in, f, e)
    BY <1>1 DEF Unchanged
  <2> HIDE DEF f, e, g
  <2>5. FrameGood(in, g)
    BY <1>1, <1>2, <2>2, FrameMoves
  <2>6. Moved(stack, stack') /\ FrameGood(in, stack'[Len(stack)])
    BY <1>1, <1>2, <1>4, <2>2, <2>5, TopMoves
  <2>7. /\ stack[Len(stack)].k <= Len(stack[Len(stack)].new)
        /\ r = At(stack[Len(stack)], stack[Len(stack)].k)
    BY <1>1
  <2>8. CASE IsTree(e)
    <3>1. ~IsBlob(e)
      BY <2>8 DEF IsTree, IsBlob
    <3>2. /\ arg' = [arg EXCEPT !.new = e.oid, !.path = r] /\ pc' = "traverse"
          /\ emitted' = emitted
      BY <1>4, <2>8, <3>1
    <3>3. arg'.new = e.oid /\ arg'.path = r /\ arg' \in Args
      <4> HIDE DEF r
      <4>1. QED
        BY <1>1, <2>3, <3>2 DEF Args
    <3>4. Focus(in, arg')
      BY <1>1, <1>2, <2>8, <3>3, EntryCall DEF e
    <3>5. Walk(in, emitted, stack', arg', TRUE)
      BY <1>1, <2>6, <2>7, <3>3, <3>4, WalkCall
    <3>6. QED
      BY <1>1, <3>2, <3>3, <3>5 DEF Walking
  <2>9. CASE ~IsTree(e)
    <3>1. emitted' = IF IsBlob(e) /\ r \notin in.unwanted /\ ~Unchanged(in, f, e)
                     THEN Append(emitted, << r, e.oid >>) ELSE emitted
      BY <1>4, <2>4
    <3>2. /\ Reports(in, emitted, emitted', r, e.oid)
          /\ \A q \in Path : \A x :
               << q, x >> \in HasNow(in) /\ Starts(q, r) => ~RefusedAt(in, q, x)
      BY <1>1, <1>2, <2>9, <3>1, EntryReports DEF e
    <3>3. Walk(in, emitted', stack', arg, FALSE)
      <4> HIDE DEF r
      <4>1. QED
        BY <1>1, <2>3, <2>6, <2>7, <3>2, WalkEntry
    <3>4. QED
      BY <1>1, <1>4, <2>9, <3>3 DEF Walking
  <2>10. QED
    BY <2>8, <2>9
<1>5. QED
  <2>1. New = e /\ Append(Top.of.path, New.name) = r
    BY DEF New, At
  <2>2. CASE ~(ctxCancelled /\ End("failed"))
    <3>1. /\ stack' = [stack EXCEPT ![Len(stack)] = g]
          /\ IF IsBlob(e) THEN Emit(r, e) ELSE UNCHANGED emitted
          /\ IF IsTree(e) THEN pc' = "traverse" /\ arg' = [arg EXCEPT !.new = e.oid, !.path = r]
                          ELSE pc' = pc /\ arg' = arg
      BY <2>1, <2>2 DEF TraverseEntry, SetTop
    <3>2. QED
      BY <1>4, <3>1 DEF Emit
  <2>3. QED
    BY <1>3, <2>2

\* The invariant is preserved by every step.
LEMMA WalkInvNext ==
  ASSUME WalkInv, [Next]_vars
  PROVE  WalkInv'
<1>1. in \in Input /\ in' = in /\ ctxCancelled' \in BOOLEAN
  BY DEF WalkInv, Next, vars, DiffEnter, SkipOld, MergeEntry, DiffReturn, TraverseEnter,
         TraverseEntry, TraverseReturn, FindPart, Cancel, Return
<1>2. ASSUME in.job \in {"diff", "traverse"}, NoTwins(in) PROVE Walking'
  <2>1. Calm /\ Walking
    BY <1>2 DEF WalkInv, Calm
  <2>2. CASE DiffEnter
    BY <2>1, <2>2, WalkingDiffEnter
  <2>3. CASE SkipOld
    BY <2>1, <2>3, WalkingSkipOld
  <2>4. CASE MergeEntry
    BY <2>1, <2>4, WalkingMergeEntry
  <2>5. CASE DiffReturn
    BY <2>1, <2>5, WalkingReturn DEF DiffReturn
  <2>6. CASE TraverseEnter
    BY <2>1, <2>6, WalkingTraverseEnter
  <2>7. CASE TraverseEntry
    BY <2>1, <2>7, WalkingTraverseEntry
  <2>8. CASE TraverseReturn
    BY <2>1, <2>8, WalkingReturn DEF TraverseReturn
  <2>9. CASE FindPart
    BY <1>2, <2>1, <2>9 DEF FindPart, Walking
  <2>10. CASE Cancel
    <3>1. /\ pc \notin {"done", "failed"} /\ pc' = pc /\ arg' = arg /\ stack' = stack
          /\ emitted' = emitted
      BY <2>10 DEF Cancel
    <3>2. QED
      BY <1>1, <2>1, <3>1 DEF Walking
  <2>11. CASE UNCHANGED vars
    BY <2>1, <2>11 DEF vars, Walking
  <2>12. QED
    BY <2>2, <2>3, <2>4, <2>5, <2>6, <2>7, <2>8, <2>9, <2>10, <2>11 DEF Next
<1>3. QED
  BY <1>1, <1>2 DEF WalkInv

\* The invariant of comparisons and traversals is one.
LEMMA AlwaysWalking == Spec => []WalkInv
<1>1. Init => WalkInv
  BY WalkInvInit
<1>2. WalkInv /\ [Next]_vars => WalkInv'
  BY WalkInvNext
<1>3. QED
  BY <1>1, <1>2, PTL DEF Spec

-----------------------------------------------------------------------------
(* The properties, in the words of the model.                              *)

\* Two ways to say that a path goes through another.
LEMMA StartsIsSubSeq ==
  ASSUME NEW p \in Path, NEW q \in Path, Len(p) < Len(q)
  PROVE  p = SubSeq(q, 1, Len(p)) <=> Starts(q, p)
<1>1. /\ Len(p) \in Nat /\ Len(q) \in Nat /\ \A i \in 1 .. Len(q) : q[i] \in Name
  BY LenProperties, ElementOfSeq DEF Path
<1> DEFINE n == Len(p)  r == SubSeq(q, 1, n)
<1>2. \A i \in 1 .. n : q[i] \in Name
  BY <1>1
<1>3. r \in Seq(Name) /\ Len(r) = n /\ \A i \in 1 .. n : r[i] = q[i]
  <2>1. /\ r \in Seq(Name)
        /\ Len(r) = IF 1 <= n THEN n - 1 + 1 ELSE 0
        /\ \A i \in 1 .. n - 1 + 1 : r[i] = q[1 + i - 1]
    BY <1>1, <1>2, SubSeqProperties
  <2> HIDE DEF r
  <2>2. QED
    BY <1>1, <2>1
<1> HIDE DEF r
<1>4. p = r <=> \A i \in 1 .. n : p[i] = r[i]
  BY <1>3, SeqEqual DEF Path
<1>5. QED
  BY <1>1, <1>3, <1>4 DEF Starts, r

\* Two ways to say what a traversal is to refuse.
LEMMA RefusedIsRefusedAt ==
  ASSUME in \in Input, NEW q, NEW e, << q, e >> \in Is
  PROVE  Refused(<< q, e >>) <=> RefusedAt(in, q, e)
<1>1. Is = HasNow(in) /\ q \in Path
  BY RootSits DEF Is, HasNow
<1> DEFINE S == { z \in Is : /\ IsTree(z[2]) /\ Len(z[1]) < Len(q)
                             /\ z[1] = SubSeq(q, 1, Len(z[1])) }
<1>2. e.oid \in Below(<< q, e >>) <=> \E z \in S : z[2].oid = e.oid
  BY DEF Below
<1>3. (\E z \in S : z[2].oid = e.oid) <=>
        \E r \in Path : \E x : /\ << r, x >> \in HasNow(in) /\ IsTree(x) /\ x.oid = e.oid
                               /\ Len(r) < Len(q) /\ Starts(q, r)
  <2>1. \A z \in Is : z = << z[1], z[2] >> /\ z[1] \in Path
    BY <1>1, RootSits
  <2>2. \A r \in Path : Len(r) < Len(q) => (r = SubSeq(q, 1, Len(r)) <=> Starts(q, r))
    BY <1>1, StartsIsSubSeq
  <2>3. ASSUME NEW z \in S, z[2].oid = e.oid
        PROVE  \E r \in Path : \E x : /\ << r, x >> \in HasNow(in) /\ IsTree(x) /\ x.oid = e.oid
                               /\ Len(r) < Len(q) /\ Starts(q, r)
    <3>1. /\ z[1] \in Path /\ << z[1], z[2] >> \in HasNow(in) /\ IsTree(z[2])
          /\ Len(z[1]) < Len(q) /\ Starts(q, z[1])
      BY <1>1, <2>1, <2>2
    <3>2. QED
      BY <2>3, <3>1
  <2>4. ASSUME NEW r \in Path, NEW x, << r, x >> \in HasNow(in), IsTree(x), x.oid = e.oid,
               Len(r) < Len(q), Starts(q, r)
        PROVE  \E z \in S : z[2].oid = e.oid
    <3> DEFINE z == << r, x >>
    <3>1. z \in Is /\ z[1] = r /\ z[2] = x
      BY <1>1, <2>4
    <3>2. z \in S
      BY <2>2, <2>4, <3>1
    <3>3. QED
      BY <2>4, <3>1, <3>2
  <2>5. QED
    BY <2>3, <2>4
<1>4. << q, e >>[1] = q /\ << q, e >>[2] = e
  OBVIOUS
<1>5. QED
  BY <1>2, <1>3, <1>4 DEF Refused, RefusedAt, IsReadable, Readable

\* The files to be reported are those that a walk is to report.
LEMMA FilesAreWanted ==
  ASSUME in \in Input, NEW S, S = IF in.job = "diff" THEN { x \in Is : ~Kept(x) } ELSE Is
  PROVE  \A z : z \in Files(S) <=>
           \E q \in Path : \E o : z = << q, o >> /\ Len(q) <= Horizon /\ Wanted(in, q, o)
<1>1. Is = HasNow(in) /\ Was = HadThen(in)
  BY DEF Is, Was, HasNow, HadThen
<1>2. /\ \A x \in Is : x = << x[1], x[2] >> /\ x[1] \in Path /\ Len(x[1]) <= Horizon
      /\ \A x \in Was : x = << x[1], x[2] >>
  BY <1>1, RootSits
<1>3. ASSUME NEW q, NEW e, IsBlob(e)
      PROVE  Kept(<< q, e >>) <=> \E y : << q, y >> \in HadThen(in) /\ y.oid = e.oid /\ ~IsTree(y)
  <2>1. IsTree(e) = FALSE /\ \A y : IsTree(y) \in BOOLEAN
    BY <1>3 DEF IsBlob, IsTree
  <2>2. Kept(<< q, e >>) <=> \E y \in Was : y[1] = q /\ y[2].oid = e.oid /\ ~IsTree(y[2])
    BY <2>1 DEF Kept
  <2>3. ASSUME NEW y \in Was, y[1] = q, y[2].oid = e.oid, ~IsTree(y[2])
        PROVE  \E w : << q, w >> \in HadThen(in) /\ w.oid = e.oid /\ ~IsTree(w)
    BY <1>1, <1>2, <2>3
  <2>4. ASSUME NEW w, << q, w >> \in HadThen(in), w.oid = e.oid, ~IsTree(w)
        PROVE  \E y \in Was : y[1] = q /\ y[2].oid = e.oid /\ ~IsTree(y[2])
    <3> DEFINE y == << q, w >>
    <3>1. y \in Was /\ y[1] = q /\ y[2] = w
      BY <1>1, <2>4
    <3>2. QED
      BY <2>4, <3>1
  <2>5. QED
    BY <2>2, <2>3, <2>4
<1>4. ASSUME NEW q, NEW o
      PROVE  Wanted(in, q, o) <=>
               \E e : << q, e >> \in S /\ IsBlob(e) /\ e.oid = o /\ q \notin in.unwanted
  <2>1. ASSUME NEW e, IsBlob(e), e.oid = o
        PROVE  << q, e >> \in S <=>
                 /\ << q, e >> \in HasNow(in)
                 /\ in.job = "diff" =>
                      \A x : ~(<< q, x >> \in HadThen(in) /\ x.oid = o /\ ~IsTree(x))
    <3>1. Kept(<< q, e >>) <=> \E y : << q, y >> \in HadThen(in) /\ y.oid = o /\ ~IsTree(y)
      BY <1>3, <2>1
    <3> DEFINE x == << q, e >>
    <3>2. x \in S <=> x \in HasNow(in) /\ (in.job = "diff" => ~Kept(x))
      <4> HIDE DEF x
      <4>1. QED
        BY <1>1
    <3>3. QED
      BY <3>1, <3>2
  <2>2. ASSUME Wanted(in, q, o)
        PROVE  \E e : << q, e >> \in S /\ IsBlob(e) /\ e.oid = o /\ q \notin in.unwanted
    BY <2>1, <2>2 DEF Wanted
  <2>3. ASSUME NEW e, << q, e >> \in S, IsBlob(e), e.oid = o, q \notin in.unwanted
        PROVE  Wanted(in, q, o)
    BY <2>1, <2>3 DEF Wanted
  <2>4. QED
    BY <2>2, <2>3
<1>5. \A x \in S : x \in Is
  OBVIOUS
<1>6. ASSUME NEW z, z \in Files(S)
      PROVE  \E q \in Path : \E o : z = << q, o >> /\ Len(q) <= Horizon /\ Wanted(in, q, o)
  <2>1. PICK x \in S : IsBlob(x[2]) /\ x[1] \notin in.unwanted /\ z = << x[1], x[2].oid >>
    BY <1>6 DEF Files
  <2>2. << x[1], x[2] >> \in S /\ x[1] \in Path /\ Len(x[1]) <= Horizon
    BY <1>2, <1>5
  <2>3. Wanted(in, x[1], x[2].oid)
    BY <1>4, <2>1, <2>2
  <2>4. QED
    BY <2>1, <2>2, <2>3
<1>7. ASSUME NEW q \in Path, NEW o, Wanted(in, q, o) PROVE << q, o >> \in Files(S)
  <2>1. PICK e : << q, e >> \in S /\ IsBlob(e) /\ e.oid = o /\ q \notin in.unwanted
    BY <1>4, <1>7
  <2> DEFINE x == << q, e >>
  <2>2. x \in S /\ IsBlob(x[2]) /\ x[1] \notin in.unwanted /\ << q, o >> = << x[1], x[2].oid >>
    BY <2>1
  <2> HIDE DEF x
  <2>3. QED
    BY <2>2 DEF Files
<1>8. QED
  BY <1>6, <1>7

\* A walk that is over has reported all there is to report; any has reported only that.
LEMMA WalkReports ==
  ASSUME WalkInv, in.job \in {"diff", "traverse"}, NoTwins(in), NEW S,
         S = IF in.job = "diff" THEN { x \in Is : ~Kept(x) } ELSE Is
  PROVE  /\ InSight(Reported) \subseteq Files(S)
         /\ pc = "done" => InSight(Reported) = Files(S) /\ EachOnce
<1>1. in \in Input /\ Walking
  BY DEF WalkInv
<1>2. \A z : z \in Files(S) <=>
        \E q \in Path : \E o : z = << q, o >> /\ Len(q) <= Horizon /\ Wanted(in, q, o)
  BY <1>1, FilesAreWanted
<1>3. Sound(in, emitted)
  <2>1. CASE pc \in {"diff", "traverse"}
    BY <1>1, <2>1, ExactIsSound DEF Walking, Walk
  <2>2. CASE pc \in {"merge", "entries"}
    BY <1>1, <2>2, ExactIsSound DEF Walking, Walk
  <2>3. CASE pc = "done"
    <3>1. emitted \in Seq(Path \X OID) /\ Complete(in, emitted)
      BY <1>1, <2>3 DEF Walking, Complete
    <3>2. DOMAIN emitted = 1 .. Len(emitted) /\ \A i \in 1 .. Len(emitted) : emitted[i] \in Path \X OID
      BY <3>1, LenProperties, ElementOfSeq
    <3>3. \A x \in Elements(emitted) : x \in Path \X OID
      BY <3>2 DEF Elements
    <3>4. \A x \in Elements(emitted) : x[1] \in Path /\ x = << x[1], x[2] >>
      BY <3>3
    <3>5. QED
      BY <3>1, <3>3, <3>4 DEF Sound, Complete
  <2>4. CASE pc = "failed"
    BY <1>1, <2>4 DEF Walking
  <2>5. QED
    BY <1>1, <2>1, <2>2, <2>3, <2>4 DEF Walking
<1>4. InSight(Reported) \subseteq Files(S)
  <2> SUFFICES ASSUME NEW z \in Elements(emitted), Len(z[1]) <= Horizon PROVE z \in Files(S)
    BY DEF InSight, Reported
  <2>1. z[1] \in Path /\ z = << z[1], z[2] >> /\ Wanted(in, z[1], z[2])
    BY <1>3 DEF Sound
  <2>2. QED
    BY <1>2, <2>1
<1>5. ASSUME pc = "done" PROVE Files(S) \subseteq InSight(Reported) /\ EachOnce
  <2>1. Complete(in, emitted)
    BY <1>1, <1>5 DEF Walking
  <2>2. EachOnce
    BY <2>1 DEF Complete, EachOnce, Reported
  <2>3. ASSUME NEW z \in Files(S) PROVE z \in InSight(Reported)
    <3>0. PICK q \in Path : \E o : z = << q, o >> /\ Len(q) <= Horizon /\ Wanted(in, q, o)
      BY <1>2
    <3>1. PICK o : z = << q, o >> /\ Len(q) <= Horizon /\ Wanted(in, q, o)
      BY <3>0
    <3>2. << q, o >> \in Elements(emitted)
      BY <2>1, <3>1 DEF Complete
    <3>3. QED
      BY <3>1, <3>2 DEF InSight, Reported
  <2>4. QED
    BY <2>2, <2>3
<1>6. QED
  BY <1>4, <1>5

\* Two ways to say that no tree has a name twice.
LEMMA TwinsAgree == HasNoTwins <=> NoTwins(in)
BY DEF HasNoTwins, NoTwins, Distinct

(***************************************************************************)
(* The merge of diffTreesAndEmit reports exactly what the new tree has and *)
(* the old one has not, once each, for all trees, names and depths: git's  *)
(* order, by which directories and files of one name are apart, never      *)
(* makes it pass an entry's counterpart by, and equal subtrees hide        *)
(* nothing.  It fails only over a tree that is new and unreadable.         *)
(***************************************************************************)
THEOREM DiffFindsWhatIsNew == Spec => []DiffIsExact
<1>1. WalkInv => DiffIsExact
  <2> SUFFICES ASSUME WalkInv, in.job = "diff", NoTwins(in)
               PROVE  /\ pc = "done" =>
                           InSight(Reported) = Files({ x \in Is : ~Kept(x) }) /\ EachOnce
                      /\ pc = "failed" /\ ~ctxCancelled =>
                           \/ ~IsReadable(in.new) \/ Len(arg.path) > Horizon
                           \/ \E x \in Is : IsTree(x[2]) /\ ~IsReadable(x[2].oid) /\ ~Kept(x)
    BY TwinsAgree DEF DiffIsExact
  <2>1. pc = "done" => InSight(Reported) = Files({ x \in Is : ~Kept(x) }) /\ EachOnce
    BY WalkReports
  <2>2. ASSUME pc = "failed", ~ctxCancelled, Readable(in, in.new), ~(Len(arg.path) > Horizon)
        PROVE  \E x \in Is : IsTree(x[2]) /\ ~IsReadable(x[2].oid) /\ ~Kept(x)
    <3>1. Excused(in, arg) /\ in \in Input
      BY <2>2 DEF WalkInv, Walking
    <3>2. PICK q, e : /\ << q, e >> \in HasNow(in) /\ IsTree(e) /\ ~Readable(in, e.oid)
                      /\ \A y : ~(<< q, y >> \in HadThen(in) /\ y.oid = e.oid /\ IsTree(y))
      BY <2>2, <3>1 DEF Excused
    <3> DEFINE x == << q, e >>
    <3>3. x \in Is /\ x[1] = q /\ x[2] = e
      BY <3>2 DEF Is, HasNow
    <3>4. Was = HadThen(in) /\ \A y \in Was : y = << y[1], y[2] >>
      BY <3>1, RootSits DEF Was, HadThen
    <3>5. IsTree(e) = TRUE /\ \A y : IsTree(y) \in BOOLEAN
      BY <3>2 DEF IsTree
    <3> HIDE DEF x
    <3>6. ~Kept(x)
      <4> SUFFICES ASSUME NEW y \in Was, y[1] = x[1], y[2].oid = x[2].oid,
                          IsTree(y[2]) = IsTree(x[2])
                   PROVE  FALSE
        BY DEF Kept
      <4>1. << q, y[2] >> \in HadThen(in) /\ y[2].oid = e.oid /\ IsTree(y[2])
        BY <3>3, <3>4, <3>5
      <4>2. QED
        BY <3>2, <4>1
    <3>7. QED
      BY <3>2, <3>3, <3>6 DEF IsReadable, Readable
  <2>3. QED
    BY <2>1, <2>2 DEF IsReadable, Readable
<1>2. QED
  BY <1>1, AlwaysWalking, PTL

(***************************************************************************)
(* TraverseTree hands over exactly the files of a tree, once each, and     *)
(* succeeds exactly on trees without damage, cycle or excessive depth: the *)
(* set of trees being visited is that of the trees on the path.            *)
(***************************************************************************)
THEOREM TraversalFindsEveryFile == Spec => []TraversalIsExact
<1>1. WalkInv => TraversalIsExact
  <2> SUFFICES ASSUME WalkInv, in.job = "traverse", NoTwins(in)
               PROVE  /\ InSight(Reported) \subseteq Files(Is)
                      /\ pc = "done" => /\ InSight(Reported) = Files(Is) /\ EachOnce
                                        /\ \A x \in Is : ~Refused(x)
                      /\ pc = "failed" /\ ~ctxCancelled =>
                           \/ ~IsReadable(in.new) \/ Len(arg.path) > Horizon
                           \/ \E x \in Is : Refused(x)
    BY TwinsAgree DEF TraversalIsExact
  <2>1. in \in Input /\ Walking
    BY DEF WalkInv
  <2>2. /\ InSight(Reported) \subseteq Files(Is)
        /\ pc = "done" => InSight(Reported) = Files(Is) /\ EachOnce
    BY WalkReports
  <2>3. Is = HasNow(in) /\ \A x \in Is : x = << x[1], x[2] >> /\ x[1] \in Path
    BY <2>1, RootSits DEF Is, HasNow
  <2>4. ASSUME pc = "done", NEW x \in Is PROVE ~Refused(x)
    <3>1. ~RefusedAt(in, x[1], x[2])
      BY <2>1, <2>3, <2>4 DEF Walking, Complete
    <3>2. Refused(<< x[1], x[2] >>) <=> RefusedAt(in, x[1], x[2])
      BY <2>1, <2>3, RefusedIsRefusedAt
    <3>3. QED
      BY <2>3, <3>1, <3>2
  <2>5. ASSUME pc = "failed", ~ctxCancelled, Readable(in, in.new), ~(Len(arg.path) > Horizon)
        PROVE  \E x \in Is : Refused(x)
    <3>1. Excused(in, arg)
      BY <2>1, <2>5 DEF Walking
    <3>2. PICK q, e : << q, e >> \in HasNow(in) /\ RefusedAt(in, q, e)
      BY <2>5, <3>1 DEF Excused
    <3>3. Refused(<< q, e >>)
      BY <2>1, <2>3, <3>2, RefusedIsRefusedAt
    <3>4. QED
      BY <2>3, <3>2, <3>3
  <2>6. QED
    BY <2>2, <2>4, <2>5 DEF IsReadable, Readable
<1>2. QED
  BY <1>1, AlwaysWalking, PTL

-----------------------------------------------------------------------------
(* The descent along a path.                                               *)

\* What there is at the path.
There(x) == << in.path, x >> \in HasNow(in)

Finding ==
  /\ pc \in {"find", "done"}
  /\ pc = "find" =>
       /\ found = {} /\ arg \in Args /\ arg.path \in Path /\ Sits(in, HasNow(in), arg.path, arg.new)
       /\ Starts(in.path, arg.path)
       /\ in.path # << >> => Len(arg.path) < Len(in.path)
  /\ pc = "done" =>
       /\ \A x \in found : There(x)
       /\ ctxCancelled \/ \A x : There(x) => x \in found

FindInv ==
  /\ in \in Input /\ ctxCancelled \in BOOLEAN
  /\ in.job = "find" /\ NoTwins(in) /\ Len(in.path) <= Horizon => Finding

\* FindTreeEntry looks at all the entries of a tree.
LEMMA LookupFacts ==
  ASSUME in \in Input, NoTwins(in), NEW o, NEW n
  PROVE  \A x : x \in Lookup(o, n) <=>
                  Readable(in, o) /\ x \in Elements(in.trees[o]) /\ x.name = n
<1>1. CASE ~Readable(in, o)
  BY <1>1 DEF Lookup, IsReadable, Readable
<1>2. CASE Readable(in, o)
  <2> DEFINE s == in.trees[o]
             I == { i \in DOMAIN s : s[i].name = n /\ \A k \in 1 .. i - 1 : s[k].name # n }
  <2>1. DOMAIN s = 1 .. Len(s) /\ Len(s) \in Nat /\ Distinct(s)
    BY <1>2, InputFacts, LenProperties DEF Readable, NoTwins
  <2>2. Lookup(o, n) = { s[i] : i \in I }
    BY <1>2 DEF Lookup, IsReadable, Readable
  <2> HIDE DEF s
  <2>3. \A i \in DOMAIN s : i \in I <=> s[i].name = n
    <3> SUFFICES ASSUME NEW i \in DOMAIN s, s[i].name = n, NEW k \in 1 .. i - 1, s[k].name = n
                 PROVE  FALSE
      OBVIOUS
    <3>1. k \in DOMAIN s /\ k # i
      BY <2>1
    <3>2. QED
      BY <2>1, <3>1 DEF Distinct
  <2>4. \A x : x \in Lookup(o, n) <=> x \in Elements(s) /\ x.name = n
    BY <2>2, <2>3 DEF Elements
  <2>5. QED
    BY <1>2, <2>4 DEF s
<1>3. QED
  BY <1>1, <1>2

\* The invariant of the descent is preserved by every step.
LEMMA FindInvNext ==
  ASSUME FindInv, [Next]_vars
  PROVE  FindInv'
<1>1. in \in Input /\ in' = in /\ ctxCancelled' \in BOOLEAN
  BY DEF FindInv, Next, vars, DiffEnter, SkipOld, MergeEntry, DiffReturn, TraverseEnter,
         TraverseEntry, TraverseReturn, FindPart, Cancel, Return
<1>2. ASSUME in.job = "find", NoTwins(in), Len(in.path) <= Horizon PROVE Finding'
  <2>1. Finding /\ ctxCancelled \in BOOLEAN
    BY <1>2 DEF FindInv
  <2>2. CASE FindPart
    <3> DEFINE p == arg.path  n == in.path[Len(p) + 1]  hit == Lookup(arg.new, n)
               r == Append(p, n)
    <3>1. /\ pc = "find" /\ found = {} /\ arg \in Args /\ p \in Path /\ Sits(in, HasNow(in), p, arg.new)
          /\ Starts(in.path, p) /\ (in.path # << >> => Len(p) < Len(in.path))
          /\ ctxCancelled' = ctxCancelled
      BY <2>1, <2>2 DEF Finding, FindPart
    <3>2. in.path \in Path /\ Horizon \in Nat /\ Len(p) \in Nat /\ Len(in.path) \in Nat
      BY <1>1, <3>1, InputFacts, LenProperties DEF IsInput, Path
    <3>3. \A x : x \in hit <=> Readable(in, arg.new) /\ x \in Elements(in.trees[arg.new]) /\ x.name = n
      BY <1>1, <1>2, LookupFacts
    <3>4. CASE in.path = << >>
      <4>1. pc' = "done" /\ found' = found
        BY <2>2, <3>4 DEF FindPart
      <4>2. \A x : ~There(x)
        BY <1>1, <3>4, RootSits DEF There
      <4>3. QED
        BY <1>1, <3>1, <4>1, <4>2 DEF Finding, There
    <3>5. CASE in.path # << >> /\ ctxCancelled
      <4>1. pc' = "done" /\ found' = found
        BY <2>2, <3>5 DEF FindPart
      <4>2. QED
        BY <1>1, <3>1, <3>5, <4>1 DEF Finding, There
    <3>6. CASE in.path # << >> /\ ~ctxCancelled
      <4>1. n \in Name /\ r \in Path /\ Len(r) = Len(p) + 1 /\ Starts(in.path, r)
        <5>1. Len(p) + 1 \in 1 .. Len(in.path)
          BY <3>1, <3>2, <3>6
        <5>2. n \in Name
          <6>1. \A i \in 1 .. Len(in.path) : in.path[i] \in Name
            BY <3>2, ElementOfSeq DEF Path
          <6>2. QED
            BY <5>1, <6>1
        <5>3. Starts(in.path, r)
          BY <3>1, <3>2, <3>6, <5>2, StartsLess
        <5>4. QED
          BY <3>1, <5>2, <5>3, PathFacts
      <4>2. \A x : << r, x >> \in HasNow(in) <=> Len(p) < Horizon /\ x \in hit
        <5> HIDE DEF n, p, hit
        <5>1. \A x : << Append(p, n), x >> \in HasNow(in) <=>
                       /\ Len(p) < Horizon /\ Readable(in, arg.new)
                       /\ x \in Elements(in.trees[arg.new]) /\ x.name = n
          BY <1>1, <3>1, <4>1, SitsAt
        <5>2. QED
          BY <3>3, <5>1
      <4>3. CASE Len(p) + 1 = Len(in.path)
        <5>1. in.path = r
          BY <3>2, <4>1, <4>3, SeqEqual DEF Starts, Path
        <5>2. Len(p) < Horizon
          BY <1>2, <3>2, <4>3
        <5>3. \A x : There(x) <=> x \in hit
          BY <4>2, <5>1, <5>2 DEF There
        <5>4. pc' = "done" /\ found' = hit
          <6> HIDE DEF n
          <6>1. hit = {} => pc' = "done" /\ found' = found
            BY <2>2 DEF FindPart, n
          <6>2. hit # {} => pc' = "done" /\ found' = hit
            BY <2>2, <3>6, <4>3 DEF FindPart, n
          <6>3. QED
            BY <3>1, <6>1, <6>2
        <5>5. QED
          BY <1>1, <5>3, <5>4 DEF Finding, There
      <4>4. CASE Len(p) + 1 # Len(in.path)
        <5>1. PICK q \in Path : q # << >> /\ in.path = r \o q
          BY <3>2, <4>1, <4>4, StartsSplit
        <5>2. \A x : There(x) => Under(in, p, arg.new, n, q, x)
          <6> HIDE DEF n, p
          <6>1. \A x : << Append(p, n) \o q, x >> \in HasNow(in) <=> Under(in, p, arg.new, n, q, x)
            BY <1>1, <3>1, <4>1, <5>1, SitsUnder
          <6>2. QED
            BY <5>1, <6>1 DEF There
        <5>3. \A x : There(x) => \E a \in hit : IsTree(a)
          <6> HIDE DEF n, p, hit
          <6>1. QED
            BY <3>3, <5>2 DEF Under
        <5>4. CASE hit = {}
          <6>1. pc' = "done" /\ found' = found
            BY <2>2, <5>4 DEF FindPart
          <6>2. QED
            BY <1>1, <3>1, <5>3, <5>4, <6>1 DEF Finding, There
        <5>5. CASE hit # {}
          <6>1. PICK e \in hit :
                  /\ found' = found
                  /\ IF IsTree(e) THEN /\ arg' = [arg EXCEPT !.new = e.oid, !.path = Append(@, e.name)]
                                       /\ pc' = pc
                                  ELSE pc' = "done"
            BY <2>2, <3>6, <4>4, <5>5 DEF FindPart
          <6>2. /\ Readable(in, arg.new) /\ e \in Elements(in.trees[arg.new]) /\ e.name = n
                /\ \A x \in hit : x = e
            <7>1. Readable(in, arg.new) /\ e \in Elements(in.trees[arg.new]) /\ e.name = n
              BY <3>3, <6>1
            <7>2. \A x \in Elements(in.trees[arg.new]) : x.name = e.name => x = e
              BY <1>2, <7>1 DEF NoTwins, Distinct, Elements, Readable
            <7>3. QED
              BY <3>3, <7>1, <7>2
          <6>3. CASE ~IsTree(e)
            <7>1. pc' = "done" /\ found' = found
              BY <6>1, <6>3
            <7>2. QED
              BY <1>1, <3>1, <5>3, <6>2, <6>3, <7>1 DEF Finding, There
          <6>4. CASE IsTree(e)
            <7>1. Sits(in, HasNow(in), r, e.oid)
              BY <1>1, <1>2, <3>1, <6>2, <6>4, SitsBelow
            <7>2. arg'.new = e.oid /\ arg'.path = r /\ arg' \in Args
              <8>1. e.oid \in OID
                BY <1>1, <6>2, InputFacts DEF Readable
              <8>2. arg' = [arg EXCEPT !.new = e.oid, !.path = r]
                BY <6>1, <6>2, <6>4
              <8> HIDE DEF r
              <8>3. QED
                BY <3>1, <4>1, <8>1, <8>2 DEF Args
            <7>3. Len(r) < Len(in.path)
              BY <3>1, <3>2, <3>6, <4>1, <4>4
            <7>4. QED
              BY <1>1, <3>1, <4>1, <6>1, <6>4, <7>1, <7>2, <7>3 DEF Finding
          <6>5. QED
            BY <6>3, <6>4
        <5>6. QED
          BY <5>4, <5>5
      <4>5. QED
        BY <4>3, <4>4
    <3>7. QED
      BY <3>4, <3>5, <3>6
  <2>3. CASE Cancel
    BY <1>1, <2>1, <2>3 DEF Cancel, Finding, There
  <2>4. CASE UNCHANGED vars
    BY <2>1, <2>4 DEF vars, Finding, There
  <2>5. CASE ~FindPart /\ ~Cancel /\ ~UNCHANGED vars
    BY <2>1, <2>5 DEF Next, Finding, DiffEnter, SkipOld, MergeEntry, DiffReturn, TraverseEnter,
                      TraverseEntry, TraverseReturn
  <2>6. QED
    BY <2>2, <2>3, <2>4, <2>5
<1>3. QED
  BY <1>1, <1>2 DEF FindInv

(***************************************************************************)
(* FindTreeEntry returns what is at a path, if anything is, for all trees  *)
(* and paths: it never stops at an entry that only resembles the name, and *)
(* gives up early only when it is cancelled.                               *)
(***************************************************************************)
THEOREM DescentFindsTheEntry == Spec => []FindIsTrue
<1>1. Init => FindInv
  <2> SUFFICES ASSUME Init PROVE FindInv
    OBVIOUS
  <2>1. in \in Input /\ ctxCancelled \in BOOLEAN /\ IsInput(in)
    BY InputFacts DEF Init
  <2>2. ASSUME in.job = "find" PROVE Finding
    <3>1. << >> \in Path /\ Len(<< >>) = 0 /\ in.path \in Path
      BY <2>1, EmptySeq DEF Path, IsInput
    <3>2. Len(in.path) \in Nat /\ (in.path # << >> => Len(in.path) > 0)
      BY <3>1, PathFacts, LenProperties, EmptySeq DEF Path
    <3>3. Sits(in, HasNow(in), << >>, in.new)
      BY <2>1, RootSits
    <3>4. Starts(in.path, << >>)
      BY <3>1, <3>2 DEF Starts
    <3>5. /\ arg.path = << >> /\ arg.new = in.new /\ found = {} /\ pc = "find"
          /\ arg \in Args
      BY <2>1, <2>2, <3>1 DEF Init, Args, IsInput
    <3>6. QED
      BY <3>1, <3>2, <3>3, <3>4, <3>5 DEF Finding
  <2>3. QED
    BY <2>1, <2>2 DEF FindInv
<1>2. FindInv /\ [Next]_vars => FindInv'
  BY FindInvNext
<1>3. FindInv => FindIsTrue
  <2> SUFFICES ASSUME FindInv, in.job = "find", pc = "done", NoTwins(in), Len(in.path) <= Horizon,
                      NEW there, there = { x[2] : x \in { y \in Is : y[1] = in.path } }
               PROVE  found \subseteq there /\ (ctxCancelled \/ found = there)
    BY TwinsAgree DEF FindIsTrue
  <2>1. in \in Input /\ Finding
    BY DEF FindInv
  <2>2. Is = HasNow(in) /\ \A y \in Is : y = << y[1], y[2] >>
    BY <2>1, RootSits DEF Is, HasNow
  <2>3. ASSUME NEW z \in there PROVE There(z)
    <3>1. PICK x \in Is : x[1] = in.path /\ z = x[2]
      OBVIOUS
    <3>2. QED
      BY <2>2, <3>1 DEF There
  <2>4. ASSUME NEW z, There(z) PROVE z \in there
    <3> DEFINE x == << in.path, z >>
    <3>1. x \in Is /\ x[1] = in.path /\ x[2] = z
      BY <2>2, <2>4 DEF There
    <3> HIDE DEF x
    <3>2. QED
      BY <3>1
  <2>5. QED
    BY <2>1, <2>3, <2>4 DEF Finding
<1>4. QED
  BY <1>1, <1>2, <1>3, PTL DEF Spec
=============================================================================
