-------------------------- MODULE Revisions_proofs --------------------------
(***************************************************************************)
(* Proofs about the references that Revisions resolves and lists, for any  *)
(* file systems, command lines and commits, and any bound on what git      *)
(* does meanwhile: an answer is a value that the reference has had since   *)
(* the call began, and a listing misses nothing but what was removed       *)
(* behind the reader's back.                                               *)
(***************************************************************************)
EXTENDS Revisions, RecursionLemmas, SequenceTheorems, FiniteSetTheorems, TLAPS

-----------------------------------------------------------------------------
(* Paths.                                                                  *)

Component == STRING \cup {"refs", "packed-refs", "commondir", ".git"}
Path     == Seq(Component)
IsSeq(q) == \E X : q \in Seq(X)

\* A path that begins with refs.
IsRefName(r) == r # << >> /\ r[1] = "refs"

\* Any two sequences have elements of one set.
LEMMA OneSet ==
  ASSUME NEW q, IsSeq(q), NEW r, IsSeq(r)
  PROVE  \E X : q \in Seq(X) /\ r \in Seq(X)
<1>1. PICK Y : q \in Seq(Y)
  BY DEF IsSeq
<1>2. PICK Z : r \in Seq(Z)
  BY DEF IsSeq
<1>3. Y \subseteq Y \cup Z /\ Z \subseteq Y \cup Z
  OBVIOUS
<1>4. q \in Seq(Y \cup Z) /\ r \in Seq(Y \cup Z)
  BY <1>1, <1>2, <1>3, SeqMonotonic
<1>5. QED
  BY <1>4

\* A path is a sequence, and so is one after another.
LEMMA SeqFacts ==
  /\ \A p \in Path : IsSeq(p)
  /\ \A q, r : IsSeq(q) /\ IsSeq(r) => IsSeq(q \o r)
<1>1. \A p \in Path : IsSeq(p)
  BY DEF IsSeq, Path
<1>2. ASSUME NEW q, IsSeq(q), NEW r, IsSeq(r) PROVE IsSeq(q \o r)
  <2>1. PICK X : q \in Seq(X) /\ r \in Seq(X)
    BY <1>2, OneSet
  <2>2. q \o r \in Seq(X)
    BY <2>1, ConcatProperties
  <2>3. QED
    BY <2>2 DEF IsSeq
<1>3. QED
  BY <1>1, <1>2

\* What comes after the same path is the same.
LEMMA CancelLeft ==
  ASSUME NEW c \in Path, NEW q, IsSeq(q), NEW r, IsSeq(r), c \o q = c \o r
  PROVE  q = r
<1>1. IsSeq(c) /\ IsSeq(c \o q)
  BY SeqFacts
<1>2. PICK X : q \in Seq(X) /\ r \in Seq(X)
  BY OneSet
<1>3. PICK Y : q \in Seq(Y) /\ c \in Seq(Y)
  BY <1>1, OneSet
<1>4. X \subseteq X \cup Y /\ Y \subseteq X \cup Y
  OBVIOUS
<1>5. q \in Seq(X \cup Y) /\ r \in Seq(X \cup Y) /\ c \in Seq(X \cup Y)
  BY <1>2, <1>3, <1>4, SeqMonotonic
<1>6. QED
  BY <1>5, ConcatSimplifications

\* The components of a path and of what comes after it.
LEMMA PathFacts ==
  ASSUME NEW p \in Path, NEW q \in Path
  PROVE  /\ p \o q \in Path /\ Len(p) \in Nat /\ Len(q) \in Nat
         /\ DOMAIN p = 1 .. Len(p) /\ Len(p \o q) = Len(p) + Len(q)
         /\ \A i \in 1 .. Len(p) : p[i] \in Component /\ (p \o q)[i] = p[i]
         /\ \A i \in 1 .. Len(q) : (p \o q)[Len(p) + i] = q[i]
         /\ (p # << >> <=> Len(p) > 0)
<1>1. Len(p) \in Nat /\ Len(q) \in Nat /\ DOMAIN p = 1 .. Len(p)
      /\ \A i \in 1 .. Len(p) : p[i] \in Component
  BY LenProperties, ElementOfSeq DEF Path
<1>2. p \o q \in Path /\ Len(p \o q) = Len(p) + Len(q)
      /\ \A i \in 1 .. Len(p) + Len(q) :
           (p \o q)[i] = IF i <= Len(p) THEN p[i] ELSE q[i - Len(p)]
  BY ConcatProperties DEF Path
<1>3. p # << >> <=> Len(p) > 0
  BY EmptySeq DEF Path
<1>4. ASSUME NEW i \in 1 .. Len(p) PROVE (p \o q)[i] = p[i]
  BY <1>1, <1>2
<1>5. ASSUME NEW i \in 1 .. Len(q) PROVE (p \o q)[Len(p) + i] = q[i]
  <2>1. Len(p) + i \in 1 .. Len(p) + Len(q) /\ ~(Len(p) + i <= Len(p))
        /\ (Len(p) + i) - Len(p) = i
    BY <1>1
  <2>2. QED
    BY <1>2, <2>1
<1>6. QED
  BY <1>1, <1>2, <1>3, <1>4, <1>5

\* Two paths are the same if all of their components are.
LEMMA PathEqual ==
  ASSUME NEW p \in Path, NEW q \in Path, Len(p) = Len(q), \A i \in 1 .. Len(p) : p[i] = q[i]
  PROVE  p = q
BY SeqEqual DEF Path

\* Parts of a path.
LEMMA PartFacts ==
  ASSUME NEW p \in Path, NEW m \in 1 .. Len(p) + 1, NEW n \in 0 .. Len(p), m <= n + 1
  PROVE  /\ SubSeq(p, m, n) \in Path /\ Len(SubSeq(p, m, n)) = (n - m) + 1
         /\ \A i \in 1 .. (n - m) + 1 : SubSeq(p, m, n)[i] = p[(m - 1) + i]
<1> DEFINE s == SubSeq(p, m, n)
<1>1. Len(p) \in Nat /\ \A i \in 1 .. Len(p) : p[i] \in Component
  BY PathFacts
<1>2. m \in Int /\ n \in Int /\ m >= 1 /\ n <= Len(p) /\ \A i \in m .. n : p[i] \in Component
  BY <1>1
<1>3. /\ s \in Seq(Component)
      /\ Len(s) = IF m <= n THEN (n - m) + 1 ELSE 0
      /\ \A i \in 1 .. Len(s) : s[i] = p[m + i - 1]
  <2> HIDE DEF s
  <2>1. /\ SubSeq(p, m, n) \in Seq(Component)
        /\ Len(SubSeq(p, m, n)) = IF m <= n THEN n - m + 1 ELSE 0
        /\ \A i \in 1 .. n - m + 1 : SubSeq(p, m, n)[i] = p[m + i - 1]
    BY <1>2, SubSeqProperties
  <2>2. QED
    BY <1>2, <2>1 DEF s
<1> HIDE DEF s
<1>4. Len(s) = (n - m) + 1
  BY <1>2, <1>3
<1>5. ASSUME NEW i \in 1 .. (n - m) + 1 PROVE s[i] = p[(m - 1) + i]
  <2>1. m + i - 1 = (m - 1) + i /\ i \in 1 .. Len(s)
    BY <1>2, <1>4
  <2>2. QED
    BY <1>3, <2>1
<1>6. QED
  BY <1>3, <1>4, <1>5 DEF s, Path

\* A prefix, component by component.
LEMMA PrefixFacts ==
  ASSUME NEW p \in Path, NEW q \in Path
  PROVE  IsPrefix(p, q) <=> Len(p) <= Len(q) /\ \A i \in 1 .. Len(p) : p[i] = q[i]
<1>1. Len(p) \in Nat /\ Len(q) \in Nat
  BY PathFacts
<1>2. SubSeq(p, 1, Len(p)) = p
  BY SubSeqFull DEF Path
<1>3. ASSUME Len(p) <= Len(q)
      PROVE  SubSeq(q, 1, Len(p)) = p <=> \A i \in 1 .. Len(p) : p[i] = q[i]
  <2>1. /\ SubSeq(q, 1, Len(p)) \in Path /\ Len(SubSeq(q, 1, Len(p))) = Len(p)
        /\ \A i \in 1 .. Len(p) : SubSeq(q, 1, Len(p))[i] = q[i]
    BY <1>1, <1>3, PartFacts
  <2>2. QED
    BY <2>1, PathEqual
<1>4. QED
  BY <1>2, <1>3 DEF IsPrefix

\* What begins with a path is that path and what comes after it.
LEMMA SplitFacts ==
  ASSUME NEW p \in Path, NEW q \in Path
  PROVE  /\ IsPrefix(p, p \o q) /\ SubSeq(p \o q, Len(p) + 1, Len(p \o q)) = q
         /\ IsPrefix(p, q) => /\ SubSeq(q, Len(p) + 1, Len(q)) \in Path
                              /\ q = p \o SubSeq(q, Len(p) + 1, Len(q))
<1>1. ASSUME NEW s \in Path, NEW r \in Path
      PROVE  IsPrefix(s, s \o r)
  <2>1. /\ s \o r \in Path /\ Len(s) \in Nat /\ Len(r) \in Nat /\ Len(s \o r) = Len(s) + Len(r)
        /\ \A i \in 1 .. Len(s) : (s \o r)[i] = s[i]
    BY PathFacts
  <2>2. Len(s) <= Len(s \o r)
    BY <2>1
  <2>3. QED
    BY <2>1, <2>2, PrefixFacts
<1>2. ASSUME IsPrefix(p, q)
      PROVE  /\ SubSeq(q, Len(p) + 1, Len(q)) \in Path
             /\ q = p \o SubSeq(q, Len(p) + 1, Len(q))
  <2> DEFINE r == SubSeq(q, Len(p) + 1, Len(q))
  <2>1. Len(p) \in Nat /\ Len(q) \in Nat /\ Len(p) <= Len(q) /\ \A i \in 1 .. Len(p) : p[i] = q[i]
    BY <1>2, PathFacts, PrefixFacts
  <2>2. /\ r \in Path /\ Len(r) = Len(q) - Len(p)
        /\ \A i \in 1 .. Len(q) - Len(p) : r[i] = q[Len(p) + i]
    BY <2>1, PartFacts
  <2> HIDE DEF r
  <2>3. /\ p \o r \in Path /\ Len(p \o r) = Len(q)
        /\ \A i \in 1 .. Len(p) : (p \o r)[i] = p[i]
        /\ \A i \in 1 .. Len(r) : (p \o r)[Len(p) + i] = r[i]
    <3>1. /\ p \o r \in Path /\ Len(p \o r) = Len(p) + Len(r)
          /\ \A i \in 1 .. Len(p) : (p \o r)[i] = p[i]
          /\ \A i \in 1 .. Len(r) : (p \o r)[Len(p) + i] = r[i]
      BY <2>2, PathFacts
    <3>2. QED
      BY <2>1, <2>2, <3>1
  <2>4. ASSUME NEW i \in 1 .. Len(q) PROVE (p \o r)[i] = q[i]
    <3>1. CASE i <= Len(p)
      BY <2>1, <2>3, <3>1
    <3>2. CASE i > Len(p)
      <4>1. i - Len(p) \in 1 .. Len(r) /\ Len(p) + (i - Len(p)) = i
        BY <2>1, <2>2, <3>2
      <4>2. QED
        BY <2>2, <2>3, <4>1
    <3>3. i <= Len(p) \/ i > Len(p)
      BY <2>1
    <3>4. QED
      BY <3>1, <3>2, <3>3
  <2>5. q = p \o r
    BY <2>3, <2>4, PathEqual
  <2>6. QED
    BY <2>2, <2>5 DEF r
<1>3. SubSeq(p \o q, Len(p) + 1, Len(p \o q)) = q
  <2> DEFINE r == SubSeq(p \o q, Len(p) + 1, Len(p \o q))
  <2>1. Len(p) \in Nat /\ Len(q) \in Nat /\ p \o q \in Path /\ Len(p \o q) = Len(p) + Len(q)
    BY PathFacts
  <2>2. /\ r \in Path /\ Len(r) = Len(q)
        /\ \A i \in 1 .. Len(q) : r[i] = (p \o q)[Len(p) + i]
    <3>1. /\ Len(p) + 1 \in 1 .. Len(p \o q) + 1 /\ Len(p \o q) \in 0 .. Len(p \o q)
          /\ Len(p) + 1 <= Len(p \o q) + 1
          /\ (Len(p \o q) - (Len(p) + 1)) + 1 = Len(q) /\ (Len(p) + 1) - 1 = Len(p)
      BY <2>1
    <3>2. /\ r \in Path /\ Len(r) = (Len(p \o q) - (Len(p) + 1)) + 1
          /\ \A i \in 1 .. (Len(p \o q) - (Len(p) + 1)) + 1 :
               r[i] = (p \o q)[((Len(p) + 1) - 1) + i]
      BY <2>1, <3>1, PartFacts
    <3> HIDE DEF r
    <3>3. QED
      BY <3>1, <3>2
  <2> HIDE DEF r
  <2>3. \A i \in 1 .. Len(q) : (p \o q)[Len(p) + i] = q[i]
    BY PathFacts
  <2>4. r = q
    BY <2>2, <2>3, PathEqual
  <2>5. QED
    BY <2>4 DEF r
<1>4. QED
  BY <1>1, <1>2, <1>3

\* A path without its last component, and what lies in a directory.
LEMMA FrontFacts ==
  ASSUME NEW p \in Path, p # << >>
  PROVE  /\ Front(p) \in Path /\ Len(Front(p)) = Len(p) - 1
         /\ \A i \in 1 .. Len(p) - 1 : Front(p)[i] = p[i]
         /\ p = Append(Front(p), p[Len(p)])
<1>1. Len(p) \in Nat /\ Len(p) > 0 /\ \A i \in 1 .. Len(p) : p[i] \in Component
  BY PathFacts
<1>2. /\ Front(p) \in Path /\ Len(Front(p)) = Len(p) - 1
      /\ \A i \in 1 .. Len(p) - 1 : Front(p)[i] = p[i]
  <2>1. /\ 1 \in 1 .. Len(p) + 1 /\ Len(p) - 1 \in 0 .. Len(p) /\ 1 <= (Len(p) - 1) + 1
        /\ ((Len(p) - 1) - 1) + 1 = Len(p) - 1
    BY <1>1
  <2>2. /\ Front(p) \in Path /\ Len(Front(p)) = ((Len(p) - 1) - 1) + 1
        /\ \A i \in 1 .. ((Len(p) - 1) - 1) + 1 : Front(p)[i] = p[(1 - 1) + i]
    BY <2>1, PartFacts DEF Front
  <2>3. \A i \in 1 .. Len(p) - 1 : (1 - 1) + i = i
    BY <1>1
  <2>4. QED
    BY <2>1, <2>2, <2>3
<1>3. Append(Front(p), p[Len(p)]) \in Path /\ Len(Append(Front(p), p[Len(p)])) = Len(p)
  BY <1>1, <1>2, AppendProperties DEF Path
<1>4. ASSUME NEW i \in 1 .. Len(p) PROVE p[i] = Append(Front(p), p[Len(p)])[i]
  <2>1. p[Len(p)] \in Component /\ Front(p) \in Seq(Component)
    BY <1>1, <1>2 DEF Path
  <2>2. Append(Front(p), p[Len(p)])[Len(Front(p)) + 1] = p[Len(p)]
        /\ \A j \in 1 .. Len(Front(p)) : Append(Front(p), p[Len(p)])[j] = Front(p)[j]
    BY <2>1, AppendProperties
  <2>3. QED
    BY <1>1, <1>2, <2>2
<1>5. QED
  BY <1>2, <1>3, <1>4, PathEqual

-----------------------------------------------------------------------------
(* The references of a file system fs with the shared directory c.         *)

PackedIn(fs, c) ==
  LET p == c \o << "packed-refs" >>
  IN  IF p \in DOMAIN fs /\ fs[p].kind = "packed" THEN fs[p].refs ELSE << >>

LooseIn(fs, c) ==
  { r \in Path : IsRefName(r) /\ c \o r \in DOMAIN fs /\ fs[c \o r].kind = "oid" }

RefsIn(fs, c) == LooseIn(fs, c) \cup DOMAIN PackedIn(fs, c)

ValueIn(fs, c, r) ==
  IF c \o r \in DOMAIN fs /\ fs[c \o r].kind # "dir" THEN fs[c \o r].oid ELSE PackedIn(fs, c)[r]

\* What is at the paths of references, and on the way there.
IsClear(fs, c, r) ==
  /\ c \o r \in DOMAIN fs => fs[c \o r].kind = "oid"
  /\ \A k \in 1 .. Len(r) - 1 :
       LET q == SubSeq(r, 1, k)
       IN  /\ q \notin RefsIn(fs, c)
           /\ c \o q \in DOMAIN fs => fs[c \o q].kind = "dir"
           /\ r \in LooseIn(fs, c) => c \o q \in DOMAIN fs

GoodFiles(fs, c) ==
  /\ IsFiniteSet(DOMAIN fs) /\ DOMAIN fs \subseteq Path
  /\ \A p \in DOMAIN fs : fs[p].kind = "sym" => fs[p].to \in Path
  /\ \A r \in RefsIn(fs, c) : r \in Path /\ IsRefName(r) /\ IsClear(fs, c, r)

\* What refs.go reads is only touched among the references.
IsShared(c, p) == \E q \in Path : p = c \o q /\ (IsRefName(q) \/ q = << "packed-refs" >>)

\* What git does to a file system, as far as readers see it.
GitMoves(fs, gs, c) ==
  /\ GoodFiles(gs, c) /\ RefsIn(gs, c) = RefsIn(fs, c)
  /\ \A p \in Path : ~IsShared(c, p) =>
       (p \in DOMAIN gs <=> p \in DOMAIN fs) /\ (p \in DOMAIN fs => gs[p] = fs[p])

\* A path of one component.
LEMMA OneName ==
  ASSUME NEW x \in Component
  PROVE  << x >> \in Path /\ Len(<< x >>) = 1 /\ << x >>[1] = x
<1>1. << x >> \in Seq(Component)
  OBVIOUS
<1>2. QED
  BY <1>1 DEF Path

\* The names that the model gives to these.
LEMMA LooseFacts ==
  ASSUME NEW fs, NEW c \in Path, DOMAIN fs \subseteq Path
  PROVE  { SubSeq(p, Len(c) + 1, Len(p)) :
             p \in { p \in DOMAIN fs : IsPrefix(c \o << "refs" >>, p) /\ fs[p].kind = "oid" } }
         = LooseIn(fs, c)
<1> DEFINE b == << "refs" >>  Rest(p) == SubSeq(p, Len(c) + 1, Len(p))
           P == { p \in DOMAIN fs : IsPrefix(c \o b, p) /\ fs[p].kind = "oid" }
<1>1. b \in Path /\ Len(b) = 1 /\ b[1] = "refs"
  <2>1. "refs" \in Component
    BY Zenon DEF Component
  <2>2. QED
    BY <2>1, OneName
<1> HIDE DEF b
<1>2. c \o b \in Path /\ Len(c \o b) = Len(c) + 1 /\ Len(c) \in Nat
      /\ (\A i \in 1 .. Len(c) : (c \o b)[i] = c[i]) /\ (c \o b)[Len(c) + 1] = "refs"
  <2>1. /\ c \o b \in Path /\ Len(c \o b) = Len(c) + Len(b) /\ Len(c) \in Nat
        /\ (\A i \in 1 .. Len(c) : (c \o b)[i] = c[i])
        /\ \A i \in 1 .. Len(b) : (c \o b)[Len(c) + i] = b[i]
    BY <1>1, PathFacts
  <2>2. QED
    BY <1>1, <2>1
<1>3. ASSUME NEW p \in P PROVE Rest(p) \in LooseIn(fs, c)
  <2>1. p \in Path /\ Len(p) \in Nat /\ Len(p) >= Len(c) + 1
        /\ \A i \in 1 .. Len(c) + 1 : p[i] = (c \o b)[i]
    <3>1. p \in Path /\ IsPrefix(c \o b, p)
      OBVIOUS
    <3>2. Len(p) \in Nat
      BY <3>1, PathFacts
    <3>3. Len(c \o b) <= Len(p) /\ \A i \in 1 .. Len(c \o b) : (c \o b)[i] = p[i]
      BY <1>2, <3>1, PrefixFacts
    <3>4. QED
      BY <1>2, <3>1, <3>2, <3>3
  <2>2. IsPrefix(c, p)
    <3>1. Len(c) <= Len(p) /\ \A i \in 1 .. Len(c) : c[i] = p[i]
      BY <1>2, <2>1
    <3>2. QED
      BY <2>1, <3>1, PrefixFacts
  <2>3. Rest(p) \in Path /\ p = c \o Rest(p)
    BY <2>1, <2>2, SplitFacts
  <2> HIDE DEF Rest
  <2>4. Len(p) = Len(c) + Len(Rest(p)) /\ Len(Rest(p)) \in Nat
        /\ \A i \in 1 .. Len(Rest(p)) : p[Len(c) + i] = Rest(p)[i]
    <3>1. /\ Len(c \o Rest(p)) = Len(c) + Len(Rest(p)) /\ Len(Rest(p)) \in Nat
          /\ \A i \in 1 .. Len(Rest(p)) : (c \o Rest(p))[Len(c) + i] = Rest(p)[i]
      BY <2>3, PathFacts
    <3>2. QED
      BY <2>3, <3>1, Zenon
  <2>5. Rest(p)[1] = p[Len(c) + 1] /\ Rest(p) # << >>
    BY <1>2, <2>1, <2>3, <2>4, PathFacts
  <2>6. Rest(p)[1] = "refs"
    BY <1>2, <2>1, <2>5
  <2>7. QED
    BY <2>3, <2>5, <2>6 DEF LooseIn, IsRefName
<1>4. ASSUME NEW r \in LooseIn(fs, c) PROVE c \o r \in P /\ Rest(c \o r) = r
  <2>1. r \in Path /\ IsRefName(r) /\ c \o r \in DOMAIN fs /\ fs[c \o r].kind = "oid"
    BY DEF LooseIn
  <2>2. /\ c \o r \in Path /\ Len(c \o r) = Len(c) + Len(r) /\ Len(r) \in Nat /\ Len(r) >= 1
        /\ (\A i \in 1 .. Len(c) : (c \o r)[i] = c[i])
        /\ \A i \in 1 .. Len(r) : (c \o r)[Len(c) + i] = r[i]
    <3>1. Len(r) \in Nat /\ Len(r) > 0
      BY <2>1, PathFacts DEF IsRefName
    <3>2. /\ c \o r \in Path /\ Len(c \o r) = Len(c) + Len(r)
          /\ (\A i \in 1 .. Len(c) : (c \o r)[i] = c[i])
          /\ \A i \in 1 .. Len(r) : (c \o r)[Len(c) + i] = r[i]
      BY <2>1, PathFacts
    <3>3. QED
      BY <3>1, <3>2
  <2>3. (c \o r)[Len(c) + 1] = "refs"
    BY <2>1, <2>2 DEF IsRefName
  <2>4. \A i \in 1 .. Len(c) + 1 : (c \o b)[i] = (c \o r)[i]
    BY <1>2, <2>2, <2>3
  <2>5. IsPrefix(c \o b, c \o r)
    <3>1. Len(c \o b) <= Len(c \o r)
      BY <1>2, <2>2
    <3>2. \A i \in 1 .. Len(c \o b) : (c \o b)[i] = (c \o r)[i]
      BY <1>2, <2>4
    <3>3. QED
      BY <1>2, <2>2, <3>1, <3>2, PrefixFacts
  <2>6. QED
    BY <2>1, <2>5, SplitFacts
<1>5. QED
  <2> HIDE DEF Rest, b
  <2>1. \A p \in P : Rest(p) \in LooseIn(fs, c)
    BY <1>3
  <2>2. \A r \in LooseIn(fs, c) : c \o r \in P /\ Rest(c \o r) = r
    BY <1>4
  <2> HIDE DEF P
  <2>3. { Rest(p) : p \in P } = LooseIn(fs, c)
    BY <2>1, <2>2
  <2>4. QED
    BY <2>3 DEF P, Rest, b

\* Names that a path may have.
LEMMA PackedName ==
  << "packed-refs" >> \in Path /\ << "packed-refs" >>[1] = "packed-refs"
<1>1. "packed-refs" \in Component
  BY Zenon DEF Component
<1>2. QED
  BY <1>1, OneName

\* The names that the code looks for are components.
LEMMA RefsComponent == "refs" \in Component
  BY Zenon DEF Component

\* So is the name of packed-refs.
LEMMA PackedComponent == "packed-refs" \in Component
  BY Zenon DEF Component

\* refs, as a path.
LEMMA RefsName ==
  << "refs" >> \in Path /\ Len(<< "refs" >>) = 1 /\ << "refs" >>[1] = "refs"
<1>1. "refs" \in Component
  BY Zenon DEF Component
<1>2. QED
  BY <1>1, OneName

\* packed-refs is no reference.
LEMMA PackedApart ==
  ASSUME NEW c \in Path, NEW r \in Path, IsRefName(r)
  PROVE  c \o r # c \o << "packed-refs" >> /\ << "packed-refs" >> \in Path
<1>1. << "packed-refs" >> \in Path /\ << "packed-refs" >>[1] = "packed-refs"
  BY PackedName
<1>2. r # << "packed-refs" >>
  BY <1>1 DEF IsRefName
<1>3. QED
  BY <1>1, <1>2, CancelLeft, SeqFacts

\* The beginnings of a path.
LEMMA StartFacts ==
  ASSUME NEW r \in Path, NEW k \in 1 .. Len(r)
  PROVE  /\ SubSeq(r, 1, k) \in Path /\ Len(SubSeq(r, 1, k)) = k
         /\ \A i \in 1 .. k : SubSeq(r, 1, k)[i] = r[i]
         /\ IsRefName(r) => IsRefName(SubSeq(r, 1, k))
<1> DEFINE s == SubSeq(r, 1, k)
<1>1. Len(r) \in Nat
  BY PathFacts
<1>2. /\ 1 \in 1 .. Len(r) + 1 /\ k \in 0 .. Len(r) /\ 1 <= k + 1 /\ (k - 1) + 1 = k
      /\ \A i \in 1 .. k : (1 - 1) + i = i
  BY <1>1
<1>3. s \in Path /\ Len(s) = (k - 1) + 1 /\ \A i \in 1 .. (k - 1) + 1 : s[i] = r[(1 - 1) + i]
  BY <1>2, PartFacts
<1> HIDE DEF s
<1>4. s \in Path /\ Len(s) = k /\ \A i \in 1 .. k : s[i] = r[i]
  BY <1>2, <1>3
<1>5. s # << >> /\ s[1] = r[1]
  BY <1>4, PathFacts
<1>6. QED
  BY <1>4, <1>5 DEF s, IsRefName

\* git never makes a reference below another one.
LEMMA NotBelow ==
  ASSUME NEW fs, NEW c \in Path, GoodFiles(fs, c), NEW r \in RefsIn(fs, c), NEW s \in RefsIn(fs, c),
         NEW k \in 1 .. Len(s) - 1
  PROVE  c \o r # c \o SubSeq(s, 1, k)
<1>1. r \in Path /\ s \in Path /\ IsClear(fs, c, s) /\ Len(s) \in Nat
  BY PathFacts DEF GoodFiles
<1>2. SubSeq(s, 1, k) \in Path /\ SubSeq(s, 1, k) \notin RefsIn(fs, c)
  BY <1>1, StartFacts DEF IsClear
<1>3. QED
  BY <1>1, <1>2, CancelLeft, SeqFacts

\* A file system after one of git's writes.
AboveIn(c, r) == { c \o SubSeq(r, 1, k) : k \in 1 .. Len(r) - 1 }
Updated(fs, c, r, o) ==
  With([p \in DOMAIN fs \cup AboveIn(c, r) |-> IF p \in DOMAIN fs THEN fs[p] ELSE Dir],
       c \o r, Oid(o))
PackedUp(fs, c) ==
  With(fs, c \o << "packed-refs" >>, Packed([r \in RefsIn(fs, c) |-> ValueIn(fs, c, r)]))
Pruned(fs, c, r) == [p \in DOMAIN fs \ {c \o r} |-> fs[p]]

IsUpdated(fs, gs, c, r, o) ==
  /\ DOMAIN gs = {c \o r} \cup DOMAIN fs \cup AboveIn(c, r)
  /\ gs[c \o r] = Oid(o)
  /\ \A p \in DOMAIN fs : p # c \o r => gs[p] = fs[p]
  /\ \A p \in AboveIn(c, r) : p # c \o r /\ gs[p].kind = "dir"
  /\ AboveIn(c, r) \subseteq Path /\ IsFiniteSet(AboveIn(c, r))

\* UpdateRef: what is where afterwards.
LEMMA UpdatedAt ==
  ASSUME NEW fs, NEW c \in Path, GoodFiles(fs, c), NEW r \in RefsIn(fs, c), NEW o,
         NEW gs, gs = Updated(fs, c, r, o)
  PROVE  IsUpdated(fs, gs, c, r, o)
<1> DEFINE A == AboveIn(c, r)
<1>1. r \in Path /\ IsClear(fs, c, r) /\ Len(r) \in Nat /\ IsRefName(r)
  BY PathFacts DEF GoodFiles
<1>2. DOMAIN gs = {c \o r} \cup DOMAIN fs \cup A
  <2>1. gs = With([p \in DOMAIN fs \cup A |-> IF p \in DOMAIN fs THEN fs[p] ELSE Dir],
                  c \o r, Oid(o))
    BY Zenon DEF Updated
  <2>2. QED
    BY <2>1 DEF With
<1>3. /\ gs[c \o r] = Oid(o)
      /\ \A p \in DOMAIN fs : p # c \o r => gs[p] = fs[p]
      /\ \A p \in A : p # c \o r => gs[p] = IF p \in DOMAIN fs THEN fs[p] ELSE Dir
  <2>1. gs = With([p \in DOMAIN fs \cup A |-> IF p \in DOMAIN fs THEN fs[p] ELSE Dir],
                  c \o r, Oid(o))
    BY Zenon DEF Updated
  <2>2. QED
    BY <2>1 DEF With
<1>4. ASSUME NEW k \in 1 .. Len(r) - 1
      PROVE  /\ c \o SubSeq(r, 1, k) # c \o r /\ c \o SubSeq(r, 1, k) \in Path
             /\ c \o SubSeq(r, 1, k) \in DOMAIN fs => fs[c \o SubSeq(r, 1, k)].kind = "dir"
  <2>1. k \in 1 .. Len(r)
    BY <1>1
  <2>2. SubSeq(r, 1, k) \in Path
    BY <1>1, <2>1, StartFacts
  <2>3. c \o SubSeq(r, 1, k) # c \o r
    BY NotBelow
  <2>4. c \o SubSeq(r, 1, k) \in DOMAIN fs => fs[c \o SubSeq(r, 1, k)].kind = "dir"
    BY <1>1 DEF IsClear
  <2>5. QED
    BY <2>2, <2>3, <2>4, PathFacts
<1>5. ASSUME NEW p \in A PROVE p # c \o r /\ gs[p].kind = "dir" /\ p \in Path
  <2>1. PICK k \in 1 .. Len(r) - 1 : p = c \o SubSeq(r, 1, k)
    BY DEF AboveIn
  <2>2. p # c \o r /\ p \in Path /\ (p \in DOMAIN fs => fs[p].kind = "dir")
    BY <1>4, <2>1
  <2>3. gs[p] = IF p \in DOMAIN fs THEN fs[p] ELSE Dir
    BY <1>3, <2>2
  <2>4. Dir.kind = "dir"
    BY DEF Dir
  <2>5. QED
    BY <2>2, <2>3, <2>4
<1>6. IsFiniteSet(A)
  <2> DEFINE B == 1 .. Len(r) - 1
             f == [k \in B |-> c \o SubSeq(r, 1, k)]
  <2>1. IsFiniteSet(B)
    BY <1>1, FS_Interval
  <2>2. f \in Surjection(B, A)
    BY DEF Surjection, AboveIn
  <2> HIDE DEF f, B
  <2>3. QED
    BY <2>1, <2>2, FS_Surjection
<1>7. A \subseteq Path
  BY <1>5
<1>8. QED
  BY <1>2, <1>3, <1>5, <1>6, <1>7 DEF IsUpdated

\* UpdateRef: the reference becomes loose, and all else stays as it is.
LEMMA UpdatedFacts ==
  ASSUME NEW fs, NEW c \in Path, GoodFiles(fs, c), NEW r \in RefsIn(fs, c), NEW o,
         NEW gs, IsUpdated(fs, gs, c, r, o)
  PROVE  /\ GitMoves(fs, gs, c)
         /\ LooseIn(gs, c) = LooseIn(fs, c) \cup {r} /\ PackedIn(gs, c) = PackedIn(fs, c)
         /\ \A s \in RefsIn(fs, c) :
              ValueIn(gs, c, s) = IF s = r THEN o ELSE ValueIn(fs, c, s)
<1> DEFINE A == AboveIn(c, r)
<1>1. /\ DOMAIN gs = {c \o r} \cup DOMAIN fs \cup A
      /\ gs[c \o r] = Oid(o)
      /\ \A p \in DOMAIN fs : p # c \o r => gs[p] = fs[p]
      /\ \A p \in A : p # c \o r /\ gs[p].kind = "dir"
      /\ A \subseteq Path /\ IsFiniteSet(A)
  BY DEF IsUpdated
<1>2. /\ r \in Path /\ IsClear(fs, c, r) /\ Len(r) \in Nat /\ IsRefName(r) /\ c \o r \in Path
      /\ \A k \in 1 .. Len(r) - 1 : c \o SubSeq(r, 1, k) \in A
  <2>1. r \in Path /\ IsClear(fs, c, r) /\ IsRefName(r)
    BY DEF GoodFiles
  <2>2. Len(r) \in Nat /\ c \o r \in Path
    BY <2>1, PathFacts
  <2>3. QED
    BY <2>1, <2>2 DEF AboveIn
<1>3. \A k \in 1 .. Len(r) - 1 : SubSeq(r, 1, k) \in Path /\ IsRefName(SubSeq(r, 1, k))
  BY <1>2, StartFacts
<1>4. \A p \in A : \E q \in Path : IsRefName(q) /\ p = c \o q /\ q \notin RefsIn(fs, c)
                                   /\ (p \in DOMAIN fs => fs[p].kind = "dir")
  BY <1>2, <1>3 DEF IsClear, AboveIn
<1>5. Oid(o).kind = "oid" /\ Oid(o).oid = o
  BY DEF Oid
<1> HIDE DEF A
<1>6. LooseIn(gs, c) = LooseIn(fs, c) \cup {r}
  <2>1. ASSUME NEW s \in LooseIn(gs, c), s # r PROVE s \in LooseIn(fs, c)
    <3>1. s \in Path /\ IsRefName(s) /\ c \o s \in DOMAIN gs /\ gs[c \o s].kind = "oid"
      BY DEF LooseIn
    <3>2. c \o s # c \o r
      BY <1>2, <2>1, <3>1, CancelLeft, SeqFacts
    <3>3. c \o s \notin A
      BY <1>1, <3>1
    <3>4. c \o s \in DOMAIN fs /\ fs[c \o s].kind = "oid"
      BY <1>1, <3>1, <3>2, <3>3
    <3>5. QED
      BY <3>1, <3>4 DEF LooseIn
  <2>2. ASSUME NEW s \in LooseIn(fs, c) PROVE s \in LooseIn(gs, c)
    <3>1. s \in Path /\ IsRefName(s) /\ c \o s \in DOMAIN fs /\ fs[c \o s].kind = "oid"
      BY DEF LooseIn
    <3>2. c \o s \in DOMAIN gs /\ gs[c \o s].kind = "oid"
      BY <1>1, <1>5, <3>1
    <3>3. QED
      BY <3>1, <3>2 DEF LooseIn
  <2>3. r \in LooseIn(gs, c)
    BY <1>1, <1>2, <1>5 DEF LooseIn
  <2>4. QED
    BY <2>1, <2>2, <2>3
<1>7. PackedIn(gs, c) = PackedIn(fs, c)
  <2> DEFINE p == c \o << "packed-refs" >>
  <2>1. p # c \o r
    BY <1>2, PackedApart
  <2>2. p \notin A
    BY <1>4, PackedApart
  <2> HIDE DEF p
  <2>3. (p \in DOMAIN gs <=> p \in DOMAIN fs) /\ (p \in DOMAIN fs => gs[p] = fs[p])
    BY <1>1, <2>1, <2>2
  <2>4. QED
    BY <2>3 DEF PackedIn, p
<1>8. RefsIn(gs, c) = RefsIn(fs, c)
  BY <1>6, <1>7 DEF RefsIn
<1>9. GoodFiles(gs, c)
  <2>1. IsFiniteSet(DOMAIN gs) /\ DOMAIN gs \subseteq Path
    <3>1. IsFiniteSet(DOMAIN fs) /\ DOMAIN fs \subseteq Path
      BY DEF GoodFiles
    <3>2. IsFiniteSet({c \o r} \cup DOMAIN fs)
      BY <3>1, FS_Singleton, FS_Union
    <3>3. IsFiniteSet(({c \o r} \cup DOMAIN fs) \cup A)
      BY <1>1, <3>2, FS_Union
    <3>4. QED
      BY <1>1, <1>2, <3>1, <3>3
  <2>2. ASSUME NEW p \in DOMAIN gs, gs[p].kind = "sym" PROVE gs[p].to \in Path
    <3>1. p # c \o r /\ p \notin A
      BY <1>1, <1>5, <2>2
    <3>2. p \in DOMAIN fs /\ gs[p] = fs[p]
      BY <1>1, <3>1
    <3>3. QED
      BY <2>2, <3>2 DEF GoodFiles
  <2>3. ASSUME NEW s \in RefsIn(fs, c) PROVE s \in Path /\ IsRefName(s) /\ IsClear(gs, c, s)
    <3>1. s \in Path /\ IsRefName(s) /\ IsClear(fs, c, s)
      BY DEF GoodFiles
    <3>2. ASSUME c \o s \in DOMAIN gs PROVE gs[c \o s].kind = "oid"
      <4>1. CASE s = r
        BY <1>1, <1>5, <4>1
      <4>2. CASE s # r
        <5>1. c \o s # c \o r
          BY <1>2, <3>1, <4>2, CancelLeft, SeqFacts
        <5>2. c \o s \notin A
          <6> SUFFICES ASSUME c \o s \in A PROVE FALSE
            OBVIOUS
          <6>1. PICK q \in Path : c \o s = c \o q /\ q \notin RefsIn(fs, c)
            BY <1>4
          <6>2. s = q
            BY <3>1, <6>1, CancelLeft, SeqFacts
          <6>3. QED
            BY <6>1, <6>2
        <5>3. c \o s \in DOMAIN fs /\ gs[c \o s] = fs[c \o s]
          BY <1>1, <3>2, <5>1, <5>2
        <5>4. QED
          BY <3>1, <5>3 DEF IsClear
      <4>3. QED
        BY <4>1, <4>2
    <3>3. ASSUME NEW k \in 1 .. Len(s) - 1
          PROVE  LET q == SubSeq(s, 1, k)
                 IN  /\ q \notin RefsIn(gs, c)
                     /\ c \o q \in DOMAIN gs => gs[c \o q].kind = "dir"
                     /\ s \in LooseIn(gs, c) => c \o q \in DOMAIN gs
      <4> DEFINE q == SubSeq(s, 1, k)
      <4>1. /\ q \notin RefsIn(fs, c) /\ (c \o q \in DOMAIN fs => fs[c \o q].kind = "dir")
            /\ s \in LooseIn(fs, c) => c \o q \in DOMAIN fs
        BY <3>1 DEF IsClear
      <4>2. c \o q # c \o r
        BY NotBelow
      <4>3. s = r => c \o q \in A
        BY <1>2
      <4> HIDE DEF q
      <4>4. c \o q \in DOMAIN gs => gs[c \o q].kind = "dir"
        BY <1>1, <4>1, <4>2
      <4>5. s \in LooseIn(gs, c) => c \o q \in DOMAIN gs
        BY <1>1, <1>6, <4>1, <4>3
      <4>6. QED
        BY <1>8, <4>1, <4>4, <4>5 DEF q
    <3>4. QED
      BY <3>1, <3>2, <3>3 DEF IsClear
  <2>4. QED
    BY <1>8, <2>1, <2>2, <2>3 DEF GoodFiles
<1>10. ASSUME NEW p \in Path, ~IsShared(c, p)
       PROVE  (p \in DOMAIN gs <=> p \in DOMAIN fs) /\ (p \in DOMAIN fs => gs[p] = fs[p])
  <2>1. p # c \o r /\ p \notin A
    BY <1>2, <1>4, <1>10 DEF IsShared
  <2>2. QED
    BY <1>1, <2>1
<1>11. ASSUME NEW s \in RefsIn(fs, c)
       PROVE  ValueIn(gs, c, s) = IF s = r THEN o ELSE ValueIn(fs, c, s)
  <2>1. CASE s = r
    <3>1. c \o r \in DOMAIN gs /\ gs[c \o r].kind # "dir" /\ gs[c \o r].oid = o
      BY <1>1, <1>5
    <3>2. QED
      BY <2>1, <3>1 DEF ValueIn
  <2>2. CASE s # r
    <3>1. s \in Path /\ c \o s # c \o r
      BY <1>2, <2>2, CancelLeft, SeqFacts DEF GoodFiles
    <3>2. c \o s \notin A
      <4> SUFFICES ASSUME c \o s \in A PROVE FALSE
        OBVIOUS
      <4>1. PICK q \in Path : c \o s = c \o q /\ q \notin RefsIn(fs, c)
        BY <1>4
      <4>2. s = q
        BY <3>1, <4>1, CancelLeft, SeqFacts
      <4>3. QED
        BY <4>1, <4>2
    <3>3. (c \o s \in DOMAIN gs <=> c \o s \in DOMAIN fs)
          /\ (c \o s \in DOMAIN fs => gs[c \o s] = fs[c \o s])
      BY <1>1, <3>1, <3>2
    <3>4. QED
      BY <1>7, <2>2, <3>3 DEF ValueIn
  <2>3. QED
    BY <2>1, <2>2
<1>12. GitMoves(fs, gs, c)
  BY <1>8, <1>9, <1>10 DEF GitMoves
<1>13. QED
  BY <1>6, <1>7, <1>11, <1>12

IsPackedUp(fs, gs, c) ==
  LET p == c \o << "packed-refs" >>
  IN  /\ DOMAIN gs = DOMAIN fs \cup {p}
      /\ gs[p].kind = "packed" /\ gs[p].refs = [r \in RefsIn(fs, c) |-> ValueIn(fs, c, r)]
      /\ \A q \in DOMAIN fs : q # p => gs[q] = fs[q]

\* PackRefs: all values are in packed-refs afterwards, and all else is as before.
LEMMA PackedUpAt ==
  ASSUME NEW fs, NEW c
  PROVE  IsPackedUp(fs, PackedUp(fs, c), c)
<1> DEFINE p == c \o << "packed-refs" >>
           v == Packed([r \in RefsIn(fs, c) |-> ValueIn(fs, c, r)])
           gs == PackedUp(fs, c)
<1>1. gs = With(fs, p, v)
  BY DEF PackedUp
<1>2. v.kind = "packed" /\ v.refs = [r \in RefsIn(fs, c) |-> ValueIn(fs, c, r)]
  BY DEF Packed
<1> HIDE DEF p, v, gs
<1>3. DOMAIN gs = DOMAIN fs \cup {p} /\ gs[p] = v /\ \A q \in DOMAIN fs : q # p => gs[q] = fs[q]
  BY <1>1 DEF With
<1>4. QED
  BY <1>2, <1>3, Zenon DEF IsPackedUp, p, gs

\* Packing keeps every reference, with its value, and packed-refs has them all.
LEMMA PackedUpFacts ==
  ASSUME NEW fs, NEW c \in Path, GoodFiles(fs, c), NEW gs, IsPackedUp(fs, gs, c)
  PROVE  /\ GitMoves(fs, gs, c) /\ LooseIn(gs, c) = LooseIn(fs, c)
         /\ PackedIn(gs, c) = [r \in RefsIn(fs, c) |-> ValueIn(fs, c, r)]
         /\ \A s \in RefsIn(fs, c) : ValueIn(gs, c, s) = ValueIn(fs, c, s)
<1> DEFINE p == c \o << "packed-refs" >>
           V == [r \in RefsIn(fs, c) |-> ValueIn(fs, c, r)]
<1>1. /\ DOMAIN gs = DOMAIN fs \cup {p}
      /\ gs[p].kind = "packed" /\ gs[p].refs = V
      /\ \A q \in DOMAIN fs : q # p => gs[q] = fs[q]
  BY DEF IsPackedUp
<1>2. \A r \in Path : IsRefName(r) => c \o r # p
  BY PackedApart
<1>3. p \in Path
  BY PathFacts, PackedName
<1> HIDE DEF V
<1>4. PackedIn(gs, c) = V
  BY <1>1 DEF PackedIn
<1> HIDE DEF p
<1>5. \A r \in Path : IsRefName(r) =>
        (c \o r \in DOMAIN gs <=> c \o r \in DOMAIN fs) /\ (c \o r \in DOMAIN fs => gs[c \o r] = fs[c \o r])
  BY <1>1, <1>2
<1>6. LooseIn(gs, c) = LooseIn(fs, c)
  BY <1>5 DEF LooseIn
<1>7. RefsIn(gs, c) = RefsIn(fs, c)
  BY <1>4, <1>6 DEF RefsIn, V
<1>8. GoodFiles(gs, c)
  <2>1. IsFiniteSet(DOMAIN gs) /\ DOMAIN gs \subseteq Path
    <3>1. IsFiniteSet(DOMAIN fs) /\ DOMAIN fs \subseteq Path
      BY DEF GoodFiles
    <3>2. IsFiniteSet(DOMAIN fs \cup {p})
      BY <3>1, FS_Singleton, FS_Union
    <3>3. QED
      BY <1>1, <1>3, <3>1, <3>2
  <2>2. ASSUME NEW q \in DOMAIN gs, gs[q].kind = "sym" PROVE gs[q].to \in Path
    <3>1. q # p
      BY <1>1, <2>2
    <3>2. q \in DOMAIN fs /\ gs[q] = fs[q]
      BY <1>1, <3>1
    <3>3. QED
      BY <2>2, <3>2 DEF GoodFiles
  <2>3. ASSUME NEW s \in RefsIn(fs, c) PROVE s \in Path /\ IsRefName(s) /\ IsClear(gs, c, s)
    <3>1. s \in Path /\ IsRefName(s) /\ IsClear(fs, c, s) /\ Len(s) \in Nat
      BY PathFacts DEF GoodFiles
    <3>2. c \o s \in DOMAIN gs => gs[c \o s].kind = "oid"
      BY <1>5, <3>1 DEF IsClear
    <3>3. ASSUME NEW k \in 1 .. Len(s) - 1
          PROVE  LET q == SubSeq(s, 1, k)
                 IN  /\ q \notin RefsIn(gs, c)
                     /\ c \o q \in DOMAIN gs => gs[c \o q].kind = "dir"
                     /\ s \in LooseIn(gs, c) => c \o q \in DOMAIN gs
      <4> DEFINE q == SubSeq(s, 1, k)
      <4>1. /\ q \notin RefsIn(fs, c) /\ (c \o q \in DOMAIN fs => fs[c \o q].kind = "dir")
            /\ s \in LooseIn(fs, c) => c \o q \in DOMAIN fs
        BY <3>1 DEF IsClear
      <4>2. q \in Path /\ IsRefName(q)
        BY <3>1, StartFacts
      <4> HIDE DEF q
      <4>3. QED
        BY <1>5, <1>6, <1>7, <4>1, <4>2 DEF q
    <3>4. QED
      BY <3>1, <3>2, <3>3 DEF IsClear
  <2>4. QED
    BY <1>7, <2>1, <2>2, <2>3 DEF GoodFiles
<1>9. ASSUME NEW q \in Path, ~IsShared(c, q)
      PROVE  (q \in DOMAIN gs <=> q \in DOMAIN fs) /\ (q \in DOMAIN fs => gs[q] = fs[q])
  <2>1. q # p
    BY <1>9, PackedName DEF IsShared, p
  <2>2. QED
    BY <1>1, <2>1
<1>10. ASSUME NEW s \in RefsIn(fs, c)
       PROVE  ValueIn(gs, c, s) = ValueIn(fs, c, s)
  <2>1. s \in Path /\ IsRefName(s)
    BY DEF GoodFiles
  <2>2. V[s] = ValueIn(fs, c, s)
    BY DEF V
  <2>3. CASE c \o s \in DOMAIN fs /\ fs[c \o s].kind # "dir"
    BY <1>5, <2>1, <2>3 DEF ValueIn
  <2>4. CASE ~(c \o s \in DOMAIN fs /\ fs[c \o s].kind # "dir")
    <3>1. ~(c \o s \in DOMAIN gs /\ gs[c \o s].kind # "dir")
      BY <1>5, <2>1, <2>4
    <3>2. ValueIn(gs, c, s) = V[s]
      BY <1>4, <3>1 DEF ValueIn
    <3>3. QED
      BY <2>2, <3>2
  <2>5. QED
    BY <2>3, <2>4
<1>11. GitMoves(fs, gs, c)
  BY <1>7, <1>8, <1>9 DEF GitMoves
<1>12. QED
  BY <1>4, <1>6, <1>10, <1>11 DEF V

-----------------------------------------------------------------------------
(* A file is removed.                                                      *)

IsPruned(fs, gs, c, r) ==
  /\ DOMAIN gs = DOMAIN fs \ {c \o r}
  /\ \A q \in DOMAIN gs : gs[q] = fs[q]

\* PruneRef: a reference that is packed with its value is no longer loose.
LEMMA PrunedFacts ==
  ASSUME NEW fs, NEW c \in Path, GoodFiles(fs, c), NEW r \in LooseIn(fs, c),
         r \in DOMAIN PackedIn(fs, c), PackedIn(fs, c)[r] = ValueIn(fs, c, r),
         NEW gs, IsPruned(fs, gs, c, r)
  PROVE  /\ GitMoves(fs, gs, c) /\ LooseIn(gs, c) = LooseIn(fs, c) \ {r}
         /\ PackedIn(gs, c) = PackedIn(fs, c)
         /\ \A s \in RefsIn(fs, c) : ValueIn(gs, c, s) = ValueIn(fs, c, s)
<1>1. DOMAIN gs = DOMAIN fs \ {c \o r} /\ \A q \in DOMAIN gs : gs[q] = fs[q]
  BY DEF IsPruned
<1>2. r \in Path /\ IsRefName(r) /\ r \in RefsIn(fs, c)
  BY DEF LooseIn, RefsIn
<1>3. \A s \in Path : s # r => c \o s # c \o r
  BY <1>2, CancelLeft, SeqFacts
<1>4. PackedIn(gs, c) = PackedIn(fs, c)
  <2> DEFINE p == c \o << "packed-refs" >>
  <2>1. p # c \o r
    BY <1>2, PackedApart
  <2> HIDE DEF p
  <2>2. (p \in DOMAIN gs <=> p \in DOMAIN fs) /\ (p \in DOMAIN fs => gs[p] = fs[p])
    BY <1>1, <2>1
  <2>3. QED
    BY <2>2 DEF PackedIn, p
<1>5. \A s \in Path : s # r =>
        (c \o s \in DOMAIN gs <=> c \o s \in DOMAIN fs) /\ (c \o s \in DOMAIN fs => gs[c \o s] = fs[c \o s])
  BY <1>1, <1>3
<1>6. LooseIn(gs, c) = LooseIn(fs, c) \ {r}
  <2>1. r \notin LooseIn(gs, c)
    BY <1>1 DEF LooseIn
  <2>2. QED
    BY <1>5, <2>1 DEF LooseIn
<1>7. RefsIn(gs, c) = RefsIn(fs, c)
  BY <1>4, <1>6 DEF RefsIn
<1>8. GoodFiles(gs, c)
  <2>1. IsFiniteSet(DOMAIN gs) /\ DOMAIN gs \subseteq Path
    <3>1. IsFiniteSet(DOMAIN fs) /\ DOMAIN fs \subseteq Path
      BY DEF GoodFiles
    <3>2. DOMAIN gs \subseteq DOMAIN fs
      BY <1>1
    <3>3. QED
      BY <3>1, <3>2, FS_Subset
  <2>2. \A q \in DOMAIN gs : gs[q].kind = "sym" => gs[q].to \in Path
    BY <1>1 DEF GoodFiles
  <2>3. ASSUME NEW s \in RefsIn(fs, c) PROVE s \in Path /\ IsRefName(s) /\ IsClear(gs, c, s)
    <3>1. s \in Path /\ IsRefName(s) /\ IsClear(fs, c, s) /\ Len(s) \in Nat
      BY PathFacts DEF GoodFiles
    <3>2. c \o s \in DOMAIN gs => gs[c \o s].kind = "oid"
      BY <1>1, <3>1 DEF IsClear
    <3>3. ASSUME NEW k \in 1 .. Len(s) - 1
          PROVE  LET q == SubSeq(s, 1, k)
                 IN  /\ q \notin RefsIn(gs, c)
                     /\ c \o q \in DOMAIN gs => gs[c \o q].kind = "dir"
                     /\ s \in LooseIn(gs, c) => c \o q \in DOMAIN gs
      <4> DEFINE q == SubSeq(s, 1, k)
      <4>1. /\ q \notin RefsIn(fs, c) /\ (c \o q \in DOMAIN fs => fs[c \o q].kind = "dir")
            /\ s \in LooseIn(fs, c) => c \o q \in DOMAIN fs
        BY <3>1 DEF IsClear
      <4>2. q \in Path /\ q # r
        <5>1. q \in Path
          BY <3>1, StartFacts
        <5> HIDE DEF q
        <5>2. QED
          BY <1>2, <4>1, <5>1
      <4> HIDE DEF q
      <4>3. QED
        BY <1>5, <1>6, <1>7, <4>1, <4>2 DEF q
    <3>4. QED
      BY <3>1, <3>2, <3>3 DEF IsClear
  <2>4. QED
    BY <1>7, <2>1, <2>2, <2>3 DEF GoodFiles
<1>9. ASSUME NEW q \in Path, ~IsShared(c, q)
      PROVE  (q \in DOMAIN gs <=> q \in DOMAIN fs) /\ (q \in DOMAIN fs => gs[q] = fs[q])
  <2>1. q # c \o r
    BY <1>2, <1>9 DEF IsShared
  <2>2. QED
    BY <1>1, <2>1
<1>10. ASSUME NEW s \in RefsIn(fs, c)
       PROVE  ValueIn(gs, c, s) = ValueIn(fs, c, s)
  <2>1. s \in Path
    BY DEF GoodFiles
  <2>2. CASE s = r
    <3>1. c \o s \notin DOMAIN gs
      BY <1>1, <2>2
    <3>2. QED
      BY <1>4, <2>2, <3>1 DEF ValueIn
  <2>3. CASE s # r
    BY <1>4, <1>5, <2>1, <2>3 DEF ValueIn
  <2>4. QED
    BY <2>2, <2>3
<1>11. GitMoves(fs, gs, c)
  BY <1>7, <1>8, <1>9 DEF GitMoves
<1>12. QED
  BY <1>4, <1>6, <1>10, <1>11

\* A path with one more component.
LEMMA OneMore ==
  ASSUME NEW c \in Path, NEW x \in Component
  PROVE  /\ c \o << x >> \in Path /\ Len(c \o << x >>) = Len(c) + 1 /\ c \o << x >> # << >>
         /\ (\A i \in 1 .. Len(c) : (c \o << x >>)[i] = c[i]) /\ (c \o << x >>)[Len(c) + 1] = x
         /\ Front(c \o << x >>) = c
<1> DEFINE b == << x >>
<1>1. b \in Path /\ Len(b) = 1 /\ b[1] = x
  BY OneName
<1> HIDE DEF b
<1>2. /\ c \o b \in Path /\ Len(c \o b) = Len(c) + Len(b) /\ Len(c) \in Nat
      /\ (\A i \in 1 .. Len(c) : (c \o b)[i] = c[i])
      /\ \A i \in 1 .. Len(b) : (c \o b)[Len(c) + i] = b[i]
  BY <1>1, PathFacts
<1>3. Len(c \o b) = Len(c) + 1 /\ (c \o b)[Len(c) + 1] = x
  BY <1>1, <1>2
<1>4. c \o b # << >>
  BY <1>2, <1>3, PathFacts
<1>5. Front(c \o b) \in Path /\ Len(Front(c \o b)) = Len(c \o b) - 1
      /\ \A i \in 1 .. Len(c \o b) - 1 : Front(c \o b)[i] = (c \o b)[i]
  BY <1>2, <1>4, FrontFacts
<1>6. Len(Front(c \o b)) = Len(c) /\ \A i \in 1 .. Len(c) : Front(c \o b)[i] = c[i]
  BY <1>2, <1>3, <1>5
<1>7. Front(c \o b) = c
  BY <1>5, <1>6, PathEqual
<1>8. QED
  BY <1>2, <1>3, <1>4, <1>7 DEF b

\* What lies in a linked worktree is no shared reference.
LEMMA WorktreeIsApart ==
  ASSUME NEW c \in Path, NEW g \in Path, IsApart(g, c), g # c, NEW r \in Path, NEW q \in Path,
         g \o r = c \o q
  PROVE  Len(g) > Len(c) /\ ~IsRefName(q)
<1> DEFINE m == Len(g)  n == Len(c)
<1>1. /\ m \in Nat /\ n \in Nat /\ Len(r) \in Nat /\ Len(g \o r) = m + Len(r)
      /\ \A i \in 1 .. m : (g \o r)[i] = g[i]
  BY PathFacts
<1>2. /\ Len(q) \in Nat /\ Len(c \o q) = n + Len(q)
      /\ \A i \in 1 .. n : (c \o q)[i] = c[i]
      /\ \A i \in 1 .. Len(q) : (c \o q)[n + i] = q[i]
      /\ (q # << >> <=> Len(q) > 0)
  BY PathFacts
<1>3. ~IsPrefix(c \o << "refs" >>, g) /\ ~IsPrefix(g, c)
  BY DEF IsApart
<1> HIDE DEF m, n
<1>4. CASE m <= n
  <2>1. \A i \in 1 .. m : g[i] = c[i]
    BY <1>1, <1>2, <1>4
  <2>2. IsPrefix(g, c)
    BY <1>4, <2>1, PrefixFacts DEF m, n
  <2>3. QED
    BY <1>3, <2>2
<1>5. CASE m > n /\ IsRefName(q)
  <2> DEFINE b == << "refs" >>
  <2>1. b \in Path /\ Len(b) = 1 /\ b[1] = "refs"
    BY RefsName
  <2>2. /\ c \o b \in Path /\ Len(c \o b) = n + 1
        /\ (\A i \in 1 .. n : (c \o b)[i] = c[i]) /\ (c \o b)[n + 1] = "refs"
    BY RefsComponent, OneMore DEF n
  <2> HIDE DEF b
  <2>3. (c \o q)[n + 1] = "refs"
    <3>1. 1 \in 1 .. Len(q) /\ q[1] = "refs"
      BY <1>2, <1>5 DEF IsRefName
    <3>2. QED
      BY <1>2, <3>1
  <2>4. \A i \in 1 .. n + 1 : (c \o b)[i] = g[i]
    BY <1>1, <1>2, <1>5, <2>2, <2>3
  <2>5. IsPrefix(c \o b, g)
    <3>1. Len(c \o b) <= Len(g)
      BY <1>1, <1>2, <1>5, <2>2 DEF m
    <3>2. \A i \in 1 .. Len(c \o b) : (c \o b)[i] = g[i]
      BY <2>2, <2>4
    <3>3. QED
      BY <2>2, <3>1, <3>2, PrefixFacts
  <2>6. QED
    BY <1>3, <2>5 DEF b
<1>6. m <= n \/ m > n
  BY <1>1, <1>2
<1>7. QED
  BY <1>4, <1>5, <1>6 DEF m, n

\* A reference of a linked worktree lies where git writes nothing that is shared.
LEMMA OwnIsApart ==
  ASSUME NEW c \in Path, NEW g \in Path, IsApart(g, c), g # c, NEW r \in Path, IsRefName(r)
  PROVE  ~IsShared(c, g \o r)
<1> SUFFICES ASSUME NEW q \in Path, g \o r = c \o q, IsRefName(q) \/ q = << "packed-refs" >>
             PROVE  FALSE
  BY DEF IsShared
<1>1. Len(g) > Len(c) /\ ~IsRefName(q)
  BY WorktreeIsApart
<1>2. Len(g \o r) = Len(g) + Len(r) /\ Len(c \o q) = Len(c) + Len(q) /\ Len(r) > 0
      /\ Len(g) \in Nat /\ Len(c) \in Nat /\ Len(r) \in Nat
  BY PathFacts DEF IsRefName
<1>3. Len(q) = 1
  BY <1>1
<1>4. QED
  BY <1>1, <1>2, <1>3

\* The files at the path of a reference that are not that reference.
OwnIn(fs, g, c, r) ==
  { x \in { fs[p].oid : p \in DOMAIN fs } :
      \E p \in {g \o r, c \o r} \cap DOMAIN fs :
        x = fs[p].oid /\ fs[p].kind = "oid" /\ \A s \in RefsIn(fs, c) : p # c \o s }

\* A file of a worktree keeps its value whatever git does to the shared ones.
LEMMA OwnStays ==
  ASSUME NEW fs, NEW gs, NEW c \in Path, NEW g \in Path, IsApart(g, c),
         GoodFiles(fs, c), GitMoves(fs, gs, c), NEW r \in RefsIn(fs, c)
  PROVE  OwnIn(fs, g, c, r) \subseteq OwnIn(gs, g, c, r)
<1> SUFFICES ASSUME NEW x \in OwnIn(fs, g, c, r) PROVE x \in OwnIn(gs, g, c, r)
  OBVIOUS
<1>1. PICK p \in {g \o r, c \o r} \cap DOMAIN fs :
        x = fs[p].oid /\ fs[p].kind = "oid" /\ \A s \in RefsIn(fs, c) : p # c \o s
  BY DEF OwnIn
<1>2. p = g \o r /\ g # c
  BY <1>1
<1>3. r \in Path /\ IsRefName(r)
  BY DEF GoodFiles
<1>4. ~IsShared(c, p) /\ p \in Path
  BY <1>2, <1>3, OwnIsApart, PathFacts
<1>5. p \in DOMAIN gs /\ gs[p] = fs[p] /\ RefsIn(gs, c) = RefsIn(fs, c)
  BY <1>1, <1>4 DEF GitMoves
<1>6. QED
  BY <1>1, <1>5 DEF OwnIn

-----------------------------------------------------------------------------
(* The file system that grg finds.                                         *)

\* Texts are components.
LEMMA StringPaths == \A p \in Seq(STRING) : p \in Path
<1>1. STRING \subseteq Component
  BY Zenon DEF Component
<1>2. QED
  BY <1>1, SeqMonotonic, Zenon DEF Path

\* What a file is in is a directory, as are all directories above.
LEMMA DirsAbove ==
  ASSUME NEW fs, IsFileSystem(fs), NEW p \in DOMAIN fs, NEW k \in 0 .. Len(p) - 1
  PROVE  SubSeq(p, 1, k) \in DOMAIN fs /\ fs[SubSeq(p, 1, k)].kind = "dir"
<1> DEFINE N == Len(p)
           above(n) == SubSeq(p, 1, n)
           G == { n \in 0 .. N : above(n) \in DOMAIN fs /\ (n < N => fs[above(n)].kind = "dir") }
<1>1. p \in Path /\ N \in Nat
  BY StringPaths, PathFacts DEF IsFileSystem
<1>2. ASSUME NEW n \in 0 .. N, \A j \in n + 1 .. N : j \in G PROVE n \in G
  <2>1. CASE n = N
    <3>1. SubSeq(p, 1, Len(p)) = p
      BY <1>1, SubSeqFull DEF Path
    <3>2. above(n) = p /\ ~(n < N)
      BY <1>1, <2>1, <3>1
    <3>3. QED
      BY <3>2
  <2>2. CASE n # N
    <3> DEFINE q == above(n + 1)
    <3>1. n + 1 \in 1 .. N /\ n + 1 \in n + 1 .. N
      BY <1>1, <2>2
    <3>2. q \in Path /\ Len(q) = n + 1 /\ \A i \in 1 .. n + 1 : q[i] = p[i]
      BY <1>1, <3>1, StartFacts
    <3>3. q \in DOMAIN fs
      BY <1>2, <3>1
    <3>4. above(n) \in Path /\ Len(above(n)) = n /\ \A i \in 1 .. n : above(n)[i] = p[i]
      <4>1. /\ 1 \in 1 .. Len(p) + 1 /\ n \in 0 .. Len(p) /\ 1 <= n + 1 /\ (n - 1) + 1 = n
            /\ \A i \in 1 .. n : (1 - 1) + i = i
        BY <1>1
      <4>2. /\ SubSeq(p, 1, n) \in Path /\ Len(SubSeq(p, 1, n)) = (n - 1) + 1
            /\ \A i \in 1 .. (n - 1) + 1 : SubSeq(p, 1, n)[i] = p[(1 - 1) + i]
        BY <1>1, <4>1, PartFacts
      <4>3. QED
        BY <4>1, <4>2
    <3> HIDE DEF q, above
    <3>5. q # << >>
      BY <3>1, <3>2, PathFacts
    <3>6. Front(q) \in Path /\ Len(Front(q)) = n /\ \A i \in 1 .. n : Front(q)[i] = p[i]
      <4>1. Front(q) \in Path /\ Len(Front(q)) = Len(q) - 1
            /\ \A i \in 1 .. Len(q) - 1 : Front(q)[i] = q[i]
        BY <3>2, <3>5, FrontFacts
      <4>2. Len(q) - 1 = n /\ \A i \in 1 .. n : i \in 1 .. n + 1
        BY <3>1, <3>2
      <4>3. QED
        BY <3>2, <4>1, <4>2
    <3>7. Front(q) = above(n)
      BY <3>4, <3>6, PathEqual
    <3>8. Front(q) \in DOMAIN fs /\ fs[Front(q)].kind = "dir"
      BY <3>3, <3>5 DEF IsFileSystem
    <3>9. QED
      BY <3>7, <3>8
  <2>3. QED
    BY <2>1, <2>2
<1> HIDE DEF G
<1>3. \A n \in 0 .. N : n \in G
  BY <1>1, <1>2, InductionFromAbove
<1>4. k \in 0 .. N /\ k < N
  BY <1>1
<1>5. k \in G
  BY <1>3, <1>4
<1>6. QED
  BY <1>4, <1>5 DEF G

\* The beginnings of a path in a directory.
LEMMA StartBelow ==
  ASSUME NEW c \in Path, NEW r \in Path, NEW k \in 1 .. Len(r)
  PROVE  SubSeq(c \o r, 1, Len(c) + k) = c \o SubSeq(r, 1, k)
<1> DEFINE s == SubSeq(r, 1, k)  p == c \o r  n == Len(c) + k
<1>1. /\ p \in Path /\ Len(c) \in Nat /\ Len(r) \in Nat /\ Len(p) = Len(c) + Len(r)
      /\ (\A i \in 1 .. Len(c) : p[i] = c[i]) /\ \A i \in 1 .. Len(r) : p[Len(c) + i] = r[i]
  BY PathFacts
<1>2. s \in Path /\ Len(s) = k /\ \A i \in 1 .. k : s[i] = r[i]
  BY StartFacts
<1> HIDE DEF s, p
<1>3. n \in 1 .. Len(p)
  BY <1>1
<1>4. SubSeq(p, 1, n) \in Path /\ Len(SubSeq(p, 1, n)) = n
      /\ \A i \in 1 .. n : SubSeq(p, 1, n)[i] = p[i]
  BY <1>1, <1>3, StartFacts
<1>5. /\ c \o s \in Path /\ Len(c \o s) = n
      /\ (\A i \in 1 .. Len(c) : (c \o s)[i] = c[i]) /\ \A i \in 1 .. k : (c \o s)[Len(c) + i] = s[i]
  BY <1>2, PathFacts
<1>6. ASSUME NEW i \in 1 .. n PROVE SubSeq(p, 1, n)[i] = (c \o s)[i]
  <2>1. CASE i <= Len(c)
    BY <1>1, <1>3, <1>4, <1>5, <2>1
  <2>2. CASE i > Len(c)
    <3>1. i - Len(c) \in 1 .. k /\ i - Len(c) \in 1 .. Len(r) /\ Len(c) + (i - Len(c)) = i
      BY <1>1, <2>2
    <3>2. p[i] = r[i - Len(c)] /\ (c \o s)[i] = s[i - Len(c)] /\ s[i - Len(c)] = r[i - Len(c)]
      BY <1>1, <1>2, <1>5, <3>1
    <3>3. QED
      BY <1>4, <3>2
  <2>3. i <= Len(c) \/ i > Len(c)
    BY <1>1
  <2>4. QED
    BY <2>1, <2>2, <2>3
<1>7. QED
  BY <1>4, <1>5, <1>6, PathEqual DEF s, p

\* A file system on which git works is as the readers expect it.
LEMMA FileSystemIsGood ==
  ASSUME NEW fs, IsFileSystem(fs), NEW c \in Path
  PROVE  GoodFiles(fs, c)
<1> DEFINE pk == c \o << "packed-refs" >>
<1>1. IsFiniteSet(DOMAIN fs) /\ DOMAIN fs \subseteq Path
  BY StringPaths DEF IsFileSystem
<1>2. ASSUME NEW p \in DOMAIN fs, fs[p].kind = "sym" PROVE fs[p].to \in Path
  <2>1. IsNode(fs[p])
    BY DEF IsFileSystem
  <2>2. fs[p].to \in Seq(STRING)
    BY <1>2, <2>1 DEF IsNode
  <2>3. QED
    BY <2>2, StringPaths
<1>3. Front(pk) = c /\ pk # << >>
  BY PackedComponent, OneMore
<1> HIDE DEF pk
<1>4. ASSUME NEW r \in DOMAIN PackedIn(fs, c)
      PROVE  /\ r \in Path /\ IsRefName(r)
             /\ \A k \in 1 .. Len(r) :
                  LET q == SubSeq(r, 1, k)
                  IN  /\ k < Len(r) => q \notin DOMAIN PackedIn(fs, c)
                      /\ c \o q \in DOMAIN fs =>
                           fs[c \o q].kind = IF k < Len(r) THEN "dir" ELSE "oid"
  <2>1. pk \in DOMAIN fs /\ fs[pk].kind = "packed" /\ PackedIn(fs, c) = fs[pk].refs
    BY DEF PackedIn, pk
  <2>2. IsNode(fs[pk])
    BY <2>1 DEF IsFileSystem
  <2>3. r \in Seq(STRING)
    BY <2>1, <2>2 DEF IsNode
  <2>4. /\ r # << >> /\ r[1] = "refs"
        /\ \A k \in 1 .. Len(r) :
             LET q == SubSeq(r, 1, k)
             IN  /\ k < Len(r) => q \notin DOMAIN fs[pk].refs
                 /\ Front(pk) \o q \in DOMAIN fs =>
                      fs[Front(pk) \o q].kind = IF k < Len(r) THEN "dir" ELSE "oid"
    BY <2>1 DEF IsFileSystem
  <2>5. QED
    BY <1>3, <2>1, <2>3, <2>4, StringPaths DEF IsRefName
<1>5. ASSUME NEW r \in LooseIn(fs, c)
      PROVE  /\ r \in Path /\ IsRefName(r) /\ fs[c \o r].kind = "oid" /\ c \o r \in DOMAIN fs
             /\ \A k \in 1 .. Len(r) - 1 :
                  LET q == SubSeq(r, 1, k) IN c \o q \in DOMAIN fs /\ fs[c \o q].kind = "dir"
  <2>1. r \in Path /\ IsRefName(r) /\ fs[c \o r].kind = "oid" /\ c \o r \in DOMAIN fs
    BY DEF LooseIn
  <2>2. Len(c) \in Nat /\ Len(r) \in Nat /\ Len(c \o r) = Len(c) + Len(r)
    BY <2>1, PathFacts
  <2>3. ASSUME NEW k \in 1 .. Len(r) - 1
        PROVE  c \o SubSeq(r, 1, k) \in DOMAIN fs /\ fs[c \o SubSeq(r, 1, k)].kind = "dir"
    <3>1. Len(c) + k \in 0 .. Len(c \o r) - 1 /\ k \in 1 .. Len(r)
      BY <2>2
    <3>2. SubSeq(c \o r, 1, Len(c) + k) \in DOMAIN fs
          /\ fs[SubSeq(c \o r, 1, Len(c) + k)].kind = "dir"
      BY <2>1, <3>1, DirsAbove
    <3>3. SubSeq(c \o r, 1, Len(c) + k) = c \o SubSeq(r, 1, k)
      BY <2>1, <3>1, StartBelow
    <3>4. QED
      BY <3>2, <3>3
  <2>4. QED
    BY <2>1, <2>3
<1>6. ASSUME NEW r \in RefsIn(fs, c) PROVE r \in Path /\ IsRefName(r) /\ IsClear(fs, c, r)
  <2>1. r \in Path /\ IsRefName(r)
    BY <1>4, <1>5 DEF RefsIn
  <2>2. Len(r) \in Nat /\ Len(r) > 0 /\ SubSeq(r, 1, Len(r)) = r
    BY <2>1, PathFacts, SubSeqFull DEF IsRefName, Path
  <2>3. c \o r \in DOMAIN fs => fs[c \o r].kind = "oid"
    <3>1. CASE r \in LooseIn(fs, c)
      BY <1>5, <3>1
    <3>2. CASE r \in DOMAIN PackedIn(fs, c)
      <4>1. Len(r) \in 1 .. Len(r) /\ ~(Len(r) < Len(r))
        BY <2>2
      <4>2. QED
        BY <1>4, <2>2, <3>2, <4>1
    <3>3. QED
      BY <3>1, <3>2 DEF RefsIn
  <2>4. ASSUME NEW k \in 1 .. Len(r) - 1
        PROVE  LET q == SubSeq(r, 1, k)
               IN  /\ q \notin RefsIn(fs, c)
                   /\ c \o q \in DOMAIN fs => fs[c \o q].kind = "dir"
                   /\ r \in LooseIn(fs, c) => c \o q \in DOMAIN fs
    <3> DEFINE q == SubSeq(r, 1, k)
    <3>1. k \in 1 .. Len(r) /\ k < Len(r)
      BY <2>2
    <3>2. q \in Path /\ Len(q) = k /\ Len(q) \in 1 .. Len(q) /\ SubSeq(q, 1, Len(q)) = q
      BY <2>1, <3>1, StartFacts, SubSeqFull DEF Path
    <3>3. c \o q \in DOMAIN fs => fs[c \o q].kind = "dir"
      <4>1. CASE r \in LooseIn(fs, c)
        BY <1>5, <4>1
      <4>2. CASE r \in DOMAIN PackedIn(fs, c)
        BY <1>4, <3>1, <4>2
      <4>3. QED
        BY <4>1, <4>2 DEF RefsIn
    <3>4. r \in LooseIn(fs, c) => c \o q \in DOMAIN fs
      BY <1>5
    <3>5. q \notin DOMAIN PackedIn(fs, c)
      <4>1. CASE r \in LooseIn(fs, c)
        <5>1. c \o q \in DOMAIN fs /\ fs[c \o q].kind = "dir"
          BY <1>5, <4>1
        <5> HIDE DEF q
        <5>2. SUFFICES ASSUME q \in DOMAIN PackedIn(fs, c) PROVE FALSE
          OBVIOUS
        <5>3. fs[c \o SubSeq(q, 1, Len(q))].kind = IF Len(q) < Len(q) THEN "dir" ELSE "oid"
          BY <1>4, <3>2, <5>1, <5>2
        <5>4. ~(Len(q) < Len(q))
          BY <3>2
        <5>5. QED
          BY <3>2, <5>1, <5>3, <5>4
      <4>2. CASE r \in DOMAIN PackedIn(fs, c)
        BY <1>4, <3>1, <4>2
      <4>3. QED
        BY <4>1, <4>2 DEF RefsIn
    <3>6. q \notin LooseIn(fs, c)
      <4> HIDE DEF q
      <4>1. QED
        BY <3>3 DEF LooseIn
    <3>7. QED
      BY <3>3, <3>4, <3>5, <3>6 DEF RefsIn
  <2>5. QED
    BY <2>1, <2>3, <2>4 DEF IsClear
<1>7. QED
  BY <1>1, <1>2, <1>6 DEF GoodFiles

-----------------------------------------------------------------------------
(* Discovery.                                                              *)

Cleaned(p) ==
  CHOOSE clean : clean = [k \in 0 .. Len(p) |->
    IF k = 0 THEN << >>
    ELSE IF p[k] = ".." THEN Front(clean[k - 1]) ELSE Append(clean[k - 1], p[k])]

\* What is cleaned is a path.
LEMMA CleanIsPath ==
  ASSUME NEW p \in Path
  PROVE  Clean(p) \in Path
<1> DEFINE N == Len(p)
           Step(v, k) == IF p[k] = ".." THEN Front(v) ELSE Append(v, p[k])
           Def(g) == [k \in 0 .. N |-> IF k = 0 THEN << >> ELSE Step(g[k - 1], k)]
           S == [k \in 1 .. N |-> [v \in Path |-> Step(v, k)]]
           f == CHOOSE g : g = Def(g)
<1>1. N \in Nat /\ (\A i \in 1 .. N : p[i] \in Component) /\ << >> \in Path
  BY PathFacts, EmptySeq DEF Path
<1>2. ASSUME NEW k \in 1 .. N, NEW v \in Path PROVE Step(v, k) \in Path
  <2>1. Front(v) \in Path
    <3>1. CASE v = << >>
      <4>1. Len(v) = 0
        BY <3>1
      <4>2. SubSeq(v, 1, 0 - 1) \in Seq(Component)
        <5>1. v \in Seq(Component) /\ \A i \in 1 .. 0 - 1 : v[i] \in Component
          BY DEF Path
        <5>2. QED
          BY <5>1, SubSeqProperties
      <4>3. QED
        BY <4>1, <4>2 DEF Front, Path
    <3>2. CASE v # << >>
      BY <3>2, FrontFacts
    <3>3. QED
      BY <3>1, <3>2
  <2>2. Append(v, p[k]) \in Path
    BY <1>1, AppendProperties DEF Path
  <2>3. QED
    BY <2>1, <2>2
<1>3. \A k \in 1 .. N, v \in Path : S[k][v] = Step(v, k) /\ S[k][v] \in Path
  BY <1>2
<1>4. PICK g \in [0 .. N -> Path] : Runs(g, N, << >>, S)
  <2> HIDE DEF S, N
  <2>1. QED
    BY <1>1, <1>3, RunExists
<1>5. g = Def(g)
  <2>1. \A k \in 1 .. N : g[k - 1] \in Path
    BY <1>1
  <2>2. \A k \in 1 .. N : S[k][g[k - 1]] = Step(g[k - 1], k)
    BY <1>3, <2>1
  <2> HIDE DEF S, Step
  <2>3. g = [k \in 0 .. N |-> IF k = 0 THEN << >> ELSE S[k][g[k - 1]]]
    BY <1>4 DEF Runs
  <2>4. \A k \in 0 .. N : k # 0 => k \in 1 .. N
    BY <1>1
  <2>5. QED
    BY <2>2, <2>3, <2>4
<1>6. f = Def(f)
  <2> HIDE DEF Def
  <2>1. QED
    BY <1>5
<1>7. f[0] = << >> /\ \A k \in 1 .. N : f[k] = Step(f[k - 1], k)
  <2> HIDE DEF f, Step
  <2>1. \A k \in 1 .. N : k \in 0 .. N /\ k # 0
    BY <1>1
  <2>2. QED
    BY <1>1, <1>6, <2>1
<1>8. f[N] \in Path
  <2> HIDE DEF f, Step, N
  <2>1. \A k \in 0 .. N : f[k] \in Path
    BY <1>1, <1>2, <1>7, StaysWithin
  <2>2. QED
    BY <1>1, <2>1
<1>9. Clean(p) = f[N]
  BY Zenon DEF Clean
<1>10. QED
  BY <1>8, <1>9

\* Where a link leads is a path.
LEMMA TargetIsPath ==
  ASSUME NEW t, t.abs \in BOOLEAN, t.to \in Path, NEW base \in Path
  PROVE  Target(t, base) \in Path
<1>1. base \o t.to \in Path
  BY PathFacts
<1>2. QED
  BY <1>1, CleanIsPath DEF Target

\* The links of a file system.
LEMMA LinkFacts ==
  ASSUME IsFileSystem(files), NEW p \in Path, NEW base \in Path, IsLink(p)
  PROVE  /\ Target(files[p], base) \in Path
         /\ p # << >> => IsApart(Front(p), Target(files[p], Front(p)))
<1>1. p \in DOMAIN files /\ files[p].kind = "link"
  BY DEF IsLink, IsFile
<1>2. IsNode(files[p]) /\ (p # << >> => IsApart(Front(p), Target(files[p], Front(p))))
  BY <1>1 DEF IsFileSystem
<1>3. files[p].abs \in BOOLEAN /\ files[p].to \in Seq(STRING)
  BY <1>1, <1>2 DEF IsNode
<1>4. QED
  BY <1>2, <1>3, StringPaths, TargetIsPath

\* A repository that was found.
IsFound(f) ==
  f # << >> => /\ f[1].gitDir \in Path /\ f[1].commonGitDir \in Path
               /\ IsApart(f[1].gitDir, f[1].commonGitDir)

\* The shared directory of a git directory.
LEMMA CommonDirFacts ==
  ASSUME IsFileSystem(files), NEW g \in Path
  PROVE  CommonDir(g) \in Path /\ IsApart(g, CommonDir(g))
<1> DEFINE f == g \o << "commondir" >>
<1>1. "commondir" \in Component
  BY Zenon DEF Component
<1>2. f \in Path /\ f # << >> /\ Front(f) = g
  BY <1>1, OneMore
<1> HIDE DEF f
<1>3. CASE IsLink(f)
  <2>1. CommonDir(g) = Target(files[f], g)
    BY <1>3 DEF CommonDir, f
  <2>2. Target(files[f], g) \in Path /\ IsApart(g, Target(files[f], g))
    BY <1>2, <1>3, LinkFacts
  <2>3. QED
    BY <2>1, <2>2
<1>4. CASE ~IsLink(f)
  BY <1>4 DEF CommonDir, f, IsApart
<1>5. QED
  BY <1>3, <1>4

\* A repository found at a path has paths that lie apart.
LEMMA RepoAtFacts ==
  ASSUME IsFileSystem(files), NEW p \in Path, NEW base \in Path
  PROVE  IsFound(RepoAt(p, base))
<1> DEFINE g == IF IsLink(p) THEN Target(files[p], base) ELSE p
<1>1. g \in Path
  BY LinkFacts
<1>2. RepoAt(p, base) = << >>
      \/ RepoAt(p, base) = << [gitDir |-> g, commonGitDir |-> CommonDir(g)] >>
  BY DEF RepoAt
<1>3. CommonDir(g) \in Path /\ IsApart(g, CommonDir(g))
  BY <1>1, CommonDirFacts
<1> HIDE DEF g
<1>4. QED
  BY <1>1, <1>2, <1>3 DEF IsFound

\* Discovery: the git directory of a worktree is apart from what is shared.
LEMMA DiscoverFacts ==
  ASSUME IsFileSystem(files), NEW start \in Path, NEW env, env # << >> =>
           env[1].abs \in BOOLEAN /\ env[1].to \in Path
  PROVE  IsFound(Discover(start, env))
<1>1. CASE env = << >>
  <2> DEFINE here(k)  == SubSeq(start, 1, k)
             dot(k) == here(k) \o << ".git" >>
             hits   == { k \in 0 .. Len(start) : dot(k) \in DOMAIN files \/ IsRepo(here(k), here(k)) }
             hit    == Max(hits)
  <2>1. Len(start) \in Nat /\ ".git" \in Component
    <3>1. ".git" \in Component
      BY Zenon DEF Component
    <3>2. QED
      BY <3>1, PathFacts
  <2>2. \A k \in 0 .. Len(start) : here(k) \in Path
    <3> SUFFICES ASSUME NEW k \in 0 .. Len(start) PROVE SubSeq(start, 1, k) \in Path
      OBVIOUS
    <3>1. 1 \in 1 .. Len(start) + 1 /\ 1 <= k + 1
      BY <2>1
    <3>2. QED
      BY <3>1, PartFacts
  <2>3. \A k \in 0 .. Len(start) : dot(k) \in Path
    BY <2>1, <2>2, OneMore
  <2>4. hits # {} => hit \in 0 .. Len(start)
    <3> HIDE DEF here, dot
    <3> SUFFICES ASSUME hits # {} PROVE Max(hits) \in 0 .. Len(start)
      OBVIOUS
    <3>1. hits \subseteq 0 .. Len(start)
      OBVIOUS
    <3> HIDE DEF hits
    <3>2. \E k \in hits : \A j \in hits : k >= j
      BY <2>1, <3>1, GreatestElement
    <3>3. Max(hits) \in hits
      BY <3>2, Zenon DEF Max
    <3>4. QED
      BY <3>1, <3>3
  <2>5. Upwards(start) = CASE hits = {} -> << >>
            [] hits # {} /\ dot(hit) \in DOMAIN files -> RepoAt(dot(hit), here(hit))
            [] OTHER -> << [gitDir |-> here(hit), commonGitDir |-> here(hit)] >>
    BY Zenon DEF Upwards
  <2> HIDE DEF hits, hit, here, dot
  <2>6. CASE hits = {}
    BY <1>1, <2>5, <2>6 DEF Discover, IsFound
  <2>7. CASE hits # {} /\ dot(hit) \in DOMAIN files
    <3>1. IsFound(RepoAt(dot(hit), here(hit)))
      BY <2>2, <2>3, <2>4, <2>7, RepoAtFacts
    <3>2. QED
      BY <1>1, <2>5, <2>7, <3>1 DEF Discover
  <2>8. CASE hits # {} /\ dot(hit) \notin DOMAIN files
    <3>1. Discover(start, env) = << [gitDir |-> here(hit), commonGitDir |-> here(hit)] >>
      BY <1>1, <2>5, <2>8 DEF Discover
    <3>2. here(hit) \in Path /\ IsApart(here(hit), here(hit))
      BY <2>2, <2>4, <2>8 DEF IsApart
    <3>3. QED
      BY <3>1, <3>2 DEF IsFound
  <2>9. QED
    BY <2>6, <2>7, <2>8
<1>2. CASE env # << >>
  <2> DEFINE g == Target(env[1], start)
  <2>1. g \in Path /\ SubSeq(g, 1, Len(g) - 1) \in Path
    <3>1. g \in Path
      BY <1>2, TargetIsPath
    <3> HIDE DEF g
    <3>2. CASE g = << >>
      <4>1. Len(g) = 0
        BY <3>2
      <4>2. SubSeq(g, 1, 0 - 1) \in Seq(Component)
        <5>1. g \in Seq(Component) /\ \A i \in 1 .. 0 - 1 : g[i] \in Component
          BY <3>1 DEF Path
        <5>2. QED
          BY <5>1, SubSeqProperties
      <4>3. QED
        BY <3>1, <4>1, <4>2 DEF Path
    <3>3. CASE g # << >>
      BY <3>1, <3>3, FrontFacts DEF Front
    <3>4. QED
      BY <3>1, <3>2, <3>3
  <2>2. Discover(start, env) = RepoAt(g, SubSeq(g, 1, Len(g) - 1))
    BY <1>2 DEF Discover
  <2> HIDE DEF g
  <2>3. QED
    BY <2>1, <2>2, RepoAtFacts
<1>3. QED
  BY <1>1, <1>2

-----------------------------------------------------------------------------
(* The command line.                                                       *)

\* A configuration, as far as branches are concerned.
IsCfg(c) == /\ "Branches" \in DOMAIN c /\ IsSeq(c["Branches"])
            /\ \E X : c \in [DOMAIN c -> X]

\* The fields that say how letter case counts.
CaseFields == {"CaseMode", "CaseSensitive", "IgnoreCase", "SmartCase"}

\* The flags that set a field.
LEMMA NamedFacts ==
  ASSUME NEW fl
  PROVE  /\ \A x : x \in DOMAIN Named(fl) <=> \E f \in DOMAIN fl : x \in fl[f]
         /\ \A x \in DOMAIN Named(fl) : Named(fl)[x] \in DOMAIN fl /\ x \in fl[Named(fl)[x]]
<1>1. DOMAIN Named(fl) = UNION { fl[f] : f \in DOMAIN fl }
  BY DEF Named
<1>2. ASSUME NEW x \in DOMAIN Named(fl)
      PROVE  Named(fl)[x] \in DOMAIN fl /\ x \in fl[Named(fl)[x]]
  <2>1. PICK f \in DOMAIN fl : x \in fl[f]
    BY <1>1, <1>2
  <2>2. Named(fl)[x] = CHOOSE g \in DOMAIN fl : x \in fl[g]
    BY <1>1, <1>2 DEF Named
  <2>3. QED
    BY <2>1, <2>2
<1>3. QED
  BY <1>1, <1>2

\* The boolean flags that set a field, none of which is about branches.
LEMMA SetsFacts ==
  /\ DOMAIN Sets = {"fixed-strings", "F", "word-regexp", "w", "invert-match", "v", "line-number",
       "n", "files-with-matches", "l", "count", "c", "quiet", "q", "text", "a", "heading", "H",
       "all", "first-parent", "uncommitted", "unordered", "expand-commits", "all-commits"}
  /\ \A x \in DOMAIN Sets : Sets[x] # "Branches" /\ Sets[x] \notin CaseFields
<1> DEFINE fl ==
        [FixedStrings |-> {"fixed-strings", "F"},    WordRegexp |-> {"word-regexp", "w"},
         InvertMatch |-> {"invert-match", "v"},      LineNumber |-> {"line-number", "n"},
         FilesWithMatches |-> {"files-with-matches", "l"}, Count |-> {"count", "c"},
         Quiet |-> {"quiet", "q"},  Text |-> {"text", "a"},  Heading |-> {"heading", "H"},
         All |-> {"all"},           FirstParent |-> {"first-parent"},
         Uncommitted |-> {"uncommitted"}, Unordered |-> {"unordered"},
         ExpandCommits |-> {"expand-commits", "all-commits"}]
<1>1. Sets = Named(fl)
  BY Zenon DEF Sets
<1>2. "Branches" \notin DOMAIN fl /\ CaseFields \cap DOMAIN fl = {}
  BY DEF CaseFields
<1>3. \A x : (\E f \in DOMAIN fl : x \in fl[f]) <=>
        x \in {"fixed-strings", "F", "word-regexp", "w", "invert-match", "v", "line-number",
       "n", "files-with-matches", "l", "count", "c", "quiet", "q", "text", "a", "heading", "H",
       "all", "first-parent", "uncommitted", "unordered", "expand-commits", "all-commits"}
  OBVIOUS
<1> HIDE DEF fl
<1>4. QED
  BY <1>1, <1>2, <1>3, NamedFacts

\* The other flags without a value.
LEMMA ClearsFacts ==
  /\ DOMAIN Clears = {"no-line-number", "N", "no-heading"}
  /\ \A x \in DOMAIN Clears : Clears[x] # "Branches" /\ Clears[x] \notin CaseFields
<1> DEFINE fl == [LineNumber |-> {"no-line-number", "N"}, Heading |-> {"no-heading"}]
<1>1. Clears = Named(fl)
  BY Zenon DEF Clears
<1>2. "Branches" \notin DOMAIN fl /\ CaseFields \cap DOMAIN fl = {}
  BY DEF CaseFields
<1>3. \A x : (\E f \in DOMAIN fl : x \in fl[f]) <=> x \in {"no-line-number", "N", "no-heading"}
  OBVIOUS
<1> HIDE DEF fl
<1>4. QED
  BY <1>1, <1>2, <1>3, NamedFacts

\* The flags about letter case.
LEMMA CaseFlagFacts ==
  /\ DOMAIN CaseFlag = {"i", "ignore-case", "s", "case-sensitive", "S", "smart-case"}
  /\ \A x \in DOMAIN CaseFlag : CaseFlag[x] \in {"ignore", "sensitive", "smart"}
  /\ \A x \in DOMAIN CaseFlag : CaseFlag[x] = "ignore" <=> x \in {"i", "ignore-case"}
<1> DEFINE fl == [ignore |-> {"i", "ignore-case"}, sensitive |-> {"s", "case-sensitive"},
                  smart |-> {"S", "smart-case"}]
<1>1. CaseFlag = Named(fl)
  BY Zenon DEF CaseFlag
<1>2. DOMAIN fl = {"ignore", "sensitive", "smart"}
  OBVIOUS
<1>3. \A x : (\E f \in DOMAIN fl : x \in fl[f]) <=>
        x \in {"i", "ignore-case", "s", "case-sensitive", "S", "smart-case"}
  OBVIOUS
<1>4. \A f \in DOMAIN fl : \A x : x \in fl[f] => (f = "ignore" <=> x \in {"i", "ignore-case"})
  OBVIOUS
<1> HIDE DEF fl
<1>5. QED
  BY <1>1, <1>2, <1>3, <1>4, NamedFacts

\* The flags with a value that replaces the one before.
LEMMA TakesFacts ==
  /\ DOMAIN Takes = {"since", "until", "author", "committer"}
  /\ \A x \in DOMAIN Takes : Takes[x] # "Branches" /\ Takes[x] \notin CaseFields
<1> DEFINE fl == [Since |-> {"since"}, Until |-> {"until"}, Author |-> {"author"},
                  Committer |-> {"committer"}]
<1>1. Takes = Named(fl)
  BY Zenon DEF Takes
<1>2. "Branches" \notin DOMAIN fl /\ CaseFields \cap DOMAIN fl = {}
  BY DEF CaseFields
<1>3. \A x : (\E f \in DOMAIN fl : x \in fl[f]) <=> x \in {"since", "until", "author", "committer"}
  OBVIOUS
<1> HIDE DEF fl
<1>4. QED
  BY <1>1, <1>2, <1>3, NamedFacts

\* The flags with a value that is added to the ones before.
LEMMA AddsFacts ==
  /\ DOMAIN Adds = {"glob", "g", "type", "t", "regexp", "e", "branch"}
  /\ \A x \in DOMAIN Adds : Adds[x] \notin CaseFields
<1> DEFINE fl == [Globs |-> {"glob", "g"}, Types |-> {"type", "t"},
                  Patterns |-> {"regexp", "e"}, Branches |-> {"branch"}]
<1>1. Adds = Named(fl)
  BY Zenon DEF Adds
<1>2. \A x : (\E f \in DOMAIN fl : x \in fl[f]) <=>
        x \in {"glob", "g", "type", "t", "regexp", "e", "branch"}
  OBVIOUS
<1>3. CaseFields \cap DOMAIN fl = {}
  BY DEF CaseFields
<1> HIDE DEF fl
<1>4. QED
  BY <1>1, <1>2, <1>3, NamedFacts

\* The letters that are switches.
LEMMA LetterFacts ==
  Letter \ Valued \subseteq {"h", "V"} \cup Switches
BY SetsFacts, ClearsFacts, CaseFlagFacts, AddsFacts DEF Letter, Valued, Counts, Switches

\* No flag belongs to two kinds.
LEMMA FlagsApart ==
  /\ DOMAIN Sets \cap DOMAIN Clears = {} /\ DOMAIN Sets \cap DOMAIN CaseFlag = {}
  /\ DOMAIN Clears \cap DOMAIN CaseFlag = {} /\ DOMAIN Takes \cap DOMAIN Adds = {}
  /\ Counts \cap DOMAIN Takes = {} /\ Counts \cap DOMAIN Adds = {}
BY SetsFacts, ClearsFacts, CaseFlagFacts, TakesFacts, AddsFacts DEF Counts

\* A field that has nothing to do with branches is set.
LEMMA SetField ==
  ASSUME NEW c, IsCfg(c), NEW a, a # "Branches", NEW v
  PROVE  IsCfg([c EXCEPT ![a] = v])
<1> DEFINE d == [c EXCEPT ![a] = v]
<1>1. PICK X : c \in [DOMAIN c -> X]
  BY DEF IsCfg
<1>2. d \in [DOMAIN c -> X \cup {v}]
  BY <1>1
<1>3. d["Branches"] = c["Branches"]
  BY <1>1 DEF IsCfg
<1>4. QED
  BY <1>2, <1>3 DEF IsCfg

\* A set of configurations that switches do not leave.
CfgSet(D, X, b) == { c \in [D -> X] : c["Branches"] = b }

\* A switch keeps the branches.
LEMMA SwitchStays ==
  ASSUME NEW D, NEW X, BOOLEAN \cup {"sensitive", "ignore", "smart"} \subseteq X, NEW b,
         NEW c \in CfgSet(D, X, b), NEW name \in Switches, NEW on \in BOOLEAN, "Branches" \in D
  PROVE  Switch(c, name, on) \in CfgSet(D, X, b)
<1>1. c \in [D -> X] /\ c["Branches"] = b
  BY DEF CfgSet
<1>2. CASE name \in DOMAIN Sets
  <2>1. Switch(c, name, on) = [c EXCEPT ![Sets[name]] = on]
    BY <1>2, FlagsApart, SMT DEF Switch
  <2>2. Sets[name] # "Branches"
    BY <1>2, SetsFacts
  <2>3. QED
    BY <1>1, <2>1, <2>2 DEF CfgSet
<1>3. CASE name \in DOMAIN Clears
  <2>1. Switch(c, name, on) = [c EXCEPT ![Clears[name]] = ~on]
    BY <1>3, FlagsApart, SMT DEF Switch
  <2>2. Clears[name] # "Branches"
    BY <1>3, ClearsFacts
  <2>3. (~on) \in X
    OBVIOUS
  <2>4. QED
    BY <1>1, <2>1, <2>2, <2>3 DEF CfgSet
<1>4. CASE name \in DOMAIN CaseFlag
  <2>1. CaseFlag[name] \in {"ignore", "sensitive", "smart"}
    BY <1>4, CaseFlagFacts
  <2>2. Switch(c, name, on) = IF on THEN SetCase(c, CaseFlag[name]) ELSE ClearCase(c, CaseFlag[name])
    BY <1>4, FlagsApart, SMT DEF Switch
  <2>3. ASSUME NEW mode \in {"ignore", "sensitive", "smart"}
        PROVE  SetCase(c, mode) \in CfgSet(D, X, b) /\ ClearCase(c, mode) \in CfgSet(D, X, b)
    <3>1. (mode = "sensitive") \in X /\ (mode = "ignore") \in X /\ (mode = "smart") \in X
          /\ TRUE \in X /\ FALSE \in X /\ "sensitive" \in X /\ mode \in X
      OBVIOUS
    <3>2. SetCase(c, mode) \in CfgSet(D, X, b)
      BY <1>1, <3>1 DEF CfgSet, SetCase
    <3>3. ClearCase(c, mode) \in CfgSet(D, X, b)
      BY <1>1, <3>1 DEF CfgSet, ClearCase
    <3>4. QED
      BY <3>2, <3>3
  <2>4. QED
    BY <2>1, <2>2, <2>3
<1>5. QED
  BY <1>2, <1>3, <1>4 DEF Switches

\* A configuration in such a set.
LEMMA CfgOfSet ==
  ASSUME NEW D, NEW X, NEW b, IsSeq(b), "Branches" \in D, NEW c \in CfgSet(D, X, b)
  PROVE  IsCfg(c)
<1>1. c \in [D -> X] /\ c["Branches"] = b /\ DOMAIN c = D
  BY DEF CfgSet
<1>2. QED
  BY <1>1 DEF IsCfg

\* One letter of a bundle.
LEMMA LetterStays ==
  ASSUME NEW D, NEW X, BOOLEAN \cup {"sensitive", "ignore", "smart"} \subseteq X, NEW b,
         NEW c \in CfgSet(D, X, b), NEW f \in Letter \ Valued, "Branches" \in D
  PROVE  SetLetter(c, f) \in CfgSet(D, X, b)
<1>1. c \in [D -> X] /\ c["Branches"] = b /\ TRUE \in X
  BY DEF CfgSet
<1>2. CASE f = "h"
  <2>1. SetLetter(c, f) = [c EXCEPT !.Help = TRUE]
    BY <1>2 DEF SetLetter
  <2>2. QED
    BY <1>1, <2>1 DEF CfgSet
<1>3. CASE f = "V"
  <2>1. SetLetter(c, f) = [c EXCEPT !.Version = TRUE]
    BY <1>3 DEF SetLetter
  <2>2. QED
    BY <1>1, <2>1 DEF CfgSet
<1>4. CASE f \notin {"h", "V"}
  <2>1. SetLetter(c, f) = Switch(c, f, TRUE) /\ f \in Switches
    BY <1>4, LetterFacts DEF SetLetter
  <2>2. QED
    BY <2>1, SwitchStays
<1>5. QED
  BY <1>2, <1>3, <1>4

\* What a bundle of switches makes of a configuration.
Bundle(c, switches) ==
  LET set[k \in 0 .. Len(switches)] ==
        IF k = 0 THEN c ELSE SetLetter(set[k - 1], switches[k])
  IN  set[Len(switches)]

\* It is computed letter by letter.
LEMMA BundleUnfolds ==
  ASSUME NEW c, IsCfg(c), NEW switches, Len(switches) \in Nat,
         \A k \in 1 .. Len(switches) : switches[k] \in Letter \ Valued
  PROVE  \E f : /\ f[0] = c /\ Bundle(c, switches) = f[Len(switches)]
                /\ \A k \in 1 .. Len(switches) : f[k] = SetLetter(f[k - 1], switches[k])
                /\ \A k \in 0 .. Len(switches) : IsCfg(f[k])
<1>1. PICK Y : c \in [DOMAIN c -> Y]
  BY DEF IsCfg
<1> DEFINE X == Y \cup BOOLEAN \cup {"sensitive", "ignore", "smart"}
           b == c["Branches"]
           V == CfgSet(DOMAIN c, X, b)
           N == Len(switches)
           Step(v, k) == SetLetter(v, switches[k])
           Def(g) == [k \in 0 .. N |-> IF k = 0 THEN c ELSE Step(g[k - 1], k)]
           S == [k \in 1 .. N |-> [v \in V |-> Step(v, k)]]
           f == CHOOSE g : g = Def(g)
<1>2. c \in V /\ "Branches" \in DOMAIN c /\ IsSeq(b)
  <2>1. c \in [DOMAIN c -> X]
    BY <1>1
  <2>2. QED
    BY <2>1 DEF CfgSet, IsCfg
<1>3. ASSUME NEW k \in 1 .. N, NEW v \in V PROVE Step(v, k) \in V
  <2>1. BOOLEAN \cup {"sensitive", "ignore", "smart"} \subseteq X
    OBVIOUS
  <2>2. QED
    BY <1>2, <2>1, LetterStays
<1> HIDE DEF V, X, b, Step
<1>4. \A k \in 1 .. N, v \in V : S[k][v] = Step(v, k) /\ S[k][v] \in V
  BY <1>3
<1>5. PICK g \in [0 .. N -> V] : Runs(g, N, c, S)
  <2> HIDE DEF S
  <2>1. QED
    BY <1>2, <1>4, RunExists
<1>6. g = Def(g)
  <2>1. g = [k \in 0 .. N |-> IF k = 0 THEN c ELSE S[k][g[k - 1]]]
    BY <1>5 DEF Runs
  <2> HIDE DEF S
  <2>2. ASSUME NEW k \in 0 .. N, k # 0 PROVE S[k][g[k - 1]] = Step(g[k - 1], k)
    <3>1. k \in 1 .. N /\ g[k - 1] \in V
      BY <2>2
    <3>2. QED
      BY <1>4, <3>1
  <2>3. QED
    BY <2>1, <2>2
<1>7. f = Def(f)
  BY <1>6
<1> HIDE DEF f
<1>8. f[0] = c /\ \A k \in 1 .. N : f[k] = Step(f[k - 1], k)
  BY <1>7
<1>9. \A k \in 0 .. N : f[k] \in V
  <2>1. \A k \in 1 .. N : f[k - 1] \in V => f[k] \in V
    BY <1>3, <1>8
  <2>2. QED
    BY <1>2, <1>8, <2>1, StaysWithin
<1>10. \A k \in 0 .. N : IsCfg(f[k])
  BY <1>2, <1>9, CfgOfSet DEF V
<1>11. Bundle(c, switches) = f[N]
  BY DEF Bundle, f, Step
<1>12. \A k \in 1 .. N : f[k] = SetLetter(f[k - 1], switches[k])
  BY <1>8 DEF Step
<1>13. QED
  BY <1>8, <1>10, <1>11, <1>12

\* So does a bundle of switches.
LEMMA BundleFacts ==
  ASSUME NEW c, IsCfg(c), NEW switches, Len(switches) \in Nat,
         \A k \in 1 .. Len(switches) : switches[k] \in Letter \ Valued
  PROVE  IsCfg(Bundle(c, switches))
<1>1. PICK f : /\ Bundle(c, switches) = f[Len(switches)]
               /\ \A k \in 0 .. Len(switches) : IsCfg(f[k])
  BY BundleUnfolds
<1>2. Len(switches) \in 0 .. Len(switches)
  OBVIOUS
<1>3. QED
  BY <1>1, <1>2

\* What is known of the command line.
CmdInv ==
  /\ args \in Seq(ToSet(args)) /\ (\A i \in DOMAIN args : IsArg(args[i])) /\ at \in Nat \ {0}
  /\ IsCfg(cfg)
  /\ stage = "accepted" =>
       \A i \in DOMAIN cfg["Branches"] : Len(Revision(cfg["Branches"][i])) = 1

\* A flag with a value.
LEMMA SetValueFacts ==
  ASSUME NEW c, IsCfg(c), NEW name \in Valued, NEW v
  PROVE  IsCfg(SetValue(c, name, v))
<1>1. PICK X : c \in [DOMAIN c -> X]
  BY DEF IsCfg
<1>2. CASE name \in Counts
  <2>1. name \notin DOMAIN Takes /\ name \notin DOMAIN Adds
    BY <1>2, FlagsApart
  <2>2. \/ SetValue(c, name, v) = [c EXCEPT !.BeforeContext = Atoi[v.text], !.AfterContext = Atoi[v.text]]
        \/ SetValue(c, name, v) = [c EXCEPT !.AfterContext = Atoi[v.text]]
        \/ SetValue(c, name, v) = [c EXCEPT !.BeforeContext = Atoi[v.text]]
        \/ SetValue(c, name, v) = [c EXCEPT !.MaxCount = Atoi[v.text]]
    BY <1>2, <2>1, SMT DEF SetValue, Counts
  <2>3. IsCfg([c EXCEPT !.BeforeContext = Atoi[v.text], !.AfterContext = Atoi[v.text]])
    <3>1. IsCfg([c EXCEPT !.BeforeContext = Atoi[v.text]])
      BY SetField
    <3>2. IsCfg([[c EXCEPT !.BeforeContext = Atoi[v.text]] EXCEPT !.AfterContext = Atoi[v.text]])
      BY <3>1, SetField
    <3>3. QED
      BY <3>2
  <2>4. IsCfg([c EXCEPT !.AfterContext = Atoi[v.text]]) /\ IsCfg([c EXCEPT !.BeforeContext = Atoi[v.text]])
        /\ IsCfg([c EXCEPT !.MaxCount = Atoi[v.text]])
    BY SetField
  <2>5. QED
    BY <2>2, <2>3, <2>4
<1>3. CASE name \in DOMAIN Takes
  <2>1. SetValue(c, name, v) = [c EXCEPT ![Takes[name]] = << v >>]
    BY <1>3, FlagsApart, SMT DEF SetValue, Counts
  <2>2. Takes[name] # "Branches"
    BY <1>3, TakesFacts
  <2>3. \A a, w : a # "Branches" => IsCfg([c EXCEPT ![a] = w])
    BY SetField
  <2>4. IsCfg([c EXCEPT ![Takes[name]] = << v >>])
    BY <2>2, <2>3
  <2>5. QED
    BY <2>1, <2>4
<1>4. CASE name \in DOMAIN Adds
  <2> DEFINE a == Adds[name]
  <2>1. SetValue(c, name, v) = [c EXCEPT ![a] = Append(c[a], v)]
    BY <1>4, FlagsApart, SMT DEF SetValue, Counts
  <2>2. CASE a # "Branches"
    <3> DEFINE w == Append(c[a], v)
    <3>1. SetValue(c, name, v) = [c EXCEPT ![a] = w]
      BY <2>1
    <3>2. \A f, x : f # "Branches" => IsCfg([c EXCEPT ![f] = x])
      BY SetField
    <3> HIDE DEF a, w
    <3>3. IsCfg([c EXCEPT ![a] = w])
      BY <2>2, <3>2
    <3>4. QED
      BY <3>1, <3>3
  <2>3. CASE a = "Branches"
    <3>1. PICK Y : c["Branches"] \in Seq(Y)
      BY DEF IsCfg, IsSeq
    <3>2. Y \subseteq Y \cup {v}
      OBVIOUS
    <3>3. c["Branches"] \in Seq(Y \cup {v}) /\ v \in Y \cup {v}
      BY <3>1, <3>2, SeqMonotonic
    <3>4. Append(c["Branches"], v) \in Seq(Y \cup {v})
      BY <3>3, AppendProperties
    <3> DEFINE w == Append(c["Branches"], v)
               d == [c EXCEPT !["Branches"] = w]
    <3>5. IsSeq(w)
      BY <3>4 DEF IsSeq
    <3> HIDE DEF w
    <3>6. d \in [DOMAIN c -> X \cup {w}] /\ d["Branches"] = w
      BY <1>1 DEF IsCfg
    <3>7. SetValue(c, name, v) = d
      BY <2>1, <2>3 DEF w
    <3>8. IsCfg(d)
      BY <3>5, <3>6 DEF IsCfg
    <3>9. QED
      BY <3>7, <3>8
  <2>4. QED
    BY <2>2, <2>3
<1>5. QED
  BY <1>2, <1>3, <1>4 DEF Valued

\* A boolean flag.
LEMMA SwitchFacts ==
  ASSUME NEW c, IsCfg(c), NEW name \in Switches, NEW on \in BOOLEAN
  PROVE  IsCfg(Switch(c, name, on))
<1>1. PICK Y : c \in [DOMAIN c -> Y]
  BY DEF IsCfg
<1> DEFINE X == Y \cup BOOLEAN \cup {"sensitive", "ignore", "smart"}
<1>2. c \in [DOMAIN c -> X] /\ BOOLEAN \cup {"sensitive", "ignore", "smart"} \subseteq X
  BY <1>1
<1> HIDE DEF X
<1>3. c \in CfgSet(DOMAIN c, X, c["Branches"])
  BY <1>2 DEF CfgSet
<1>4. "Branches" \in DOMAIN c /\ IsSeq(c["Branches"])
  BY DEF IsCfg
<1>5. Switch(c, name, on) \in CfgSet(DOMAIN c, X, c["Branches"])
  BY <1>2, <1>3, <1>4, SwitchStays
<1>6. QED
  BY <1>4, <1>5, CfgOfSet

\* An argument with a long flag is parsed.
LEMMA LongFlagStep ==
  ASSUME CmdInv, LongFlag
  PROVE  IsCfg(cfg') /\ at' \in Nat \ {0} /\ stage' # "accepted" /\ args' = args
<1> DEFINE name == args[at].name
           own  == args[at].val
           v    == Operand(own)
<1>1. ASSUME NEW c, NEW n \in {1, 2}, IsCfg(c), Use(n, c)
      PROVE  IsCfg(cfg') /\ at' \in Nat \ {0} /\ stage' # "accepted" /\ args' = args
  BY <1>1 DEF Use, CmdInv, LongFlag, HasArg
<1>2. CASE Reject
  BY <1>2 DEF Reject, CmdInv
<1>3. IsCfg([cfg EXCEPT !.Help = TRUE, !.LongHelp = TRUE])
  <2>1. IsCfg([cfg EXCEPT !.Help = TRUE])
    BY SetField DEF CmdInv
  <2>2. IsCfg([[cfg EXCEPT !.Help = TRUE] EXCEPT !.LongHelp = TRUE])
    BY <2>1, SetField
  <2>3. QED
    BY <2>2
<1>4. IsCfg([cfg EXCEPT !.Version = TRUE]) /\ IsCfg([cfg EXCEPT !.Color = v[1].text])
      /\ IsCfg([cfg EXCEPT !.Color = "always"])
  BY SetField DEF CmdInv
<1>5. UsedWith(own) \in {1, 2} /\ Bool(own) \in BOOLEAN
  BY DEF UsedWith, Bool
<1>6. \/ Use(1, [cfg EXCEPT !.Help = TRUE, !.LongHelp = TRUE])
      \/ Use(1, [cfg EXCEPT !.Version = TRUE])
      \/ name \in Switches /\ IsBool(own) /\ Use(1, Switch(cfg, name, Bool(own)))
      \/ name \in Valued /\ Use(UsedWith(own), SetValue(cfg, name, v[1]))
      \/ Use(UsedWith(own), [cfg EXCEPT !.Color = v[1].text])
      \/ Use(1, [cfg EXCEPT !.Color = "always"])
      \/ Reject
  BY Zenon DEF LongFlag
<1>7. QED
  BY <1>1, <1>2, <1>3, <1>4, <1>5, <1>6, SwitchFacts, SetValueFacts DEF CmdInv

\* So is one with short flags.
LEMMA ShortFlagsStep ==
  ASSUME CmdInv, ShortFlags
  PROVE  IsCfg(cfg') /\ at' \in Nat \ {0} /\ stage' # "accepted" /\ args' = args
<1> DEFINE flags    == args[at].flags
           own      == args[at].val
           last     == flags[Len(flags)]
           hasValue == last \in Valued \cap Letter
           switches == IF hasValue THEN SubSeq(flags, 1, Len(flags) - 1) ELSE flags
           v        == IF last \in Counts /\ Operand(own) # << >>
                       THEN << Unassigned(Operand(own)[1]) >> ELSE Operand(own)
           c        == Bundle(cfg, switches)
<1>1. /\ at \in DOMAIN args /\ args[at].kind = "short" /\ IsArg(args[at]) /\ stage = "args"
  <2>1. at <= Len(args) /\ stage = "args" /\ args[at].kind = "short"
    BY DEF ShortFlags, HasArg
  <2>2. at \in DOMAIN args
    BY <2>1 DEF CmdInv
  <2>3. QED
    BY <2>1, <2>2 DEF CmdInv
<1>2. flags \in Seq(STRING) /\ flags # << >>
  BY <1>1 DEF IsArg
<1>3. switches \in Seq(STRING)
  <2>1. Len(flags) \in Nat /\ Len(flags) > 0
    BY <1>2
  <2> DEFINE m == Len(flags) - 1
  <2>2. m \in Nat /\ m <= Len(flags)
    BY <2>1
  <2>3. \A i \in 1 .. m : flags[i] \in STRING
    BY <1>2, <2>2
  <2> HIDE DEF m
  <2>4. SubSeq(flags, 1, m) \in Seq(STRING)
    BY <1>2, <2>2, <2>3, SubSeqProperties
  <2>5. QED
    BY <1>2, <2>4 DEF m
<1>4. \/ /\ ToSet(switches) \subseteq Letter \ Valued /\ ~hasValue
         /\ Use(1, c)
      \/ /\ ToSet(switches) \subseteq Letter \ Valued /\ hasValue
         /\ Use(UsedWith(own), SetValue(c, last, v[1]))
      \/ Reject
  BY Zenon DEF ShortFlags, Bundle
<1>5. ASSUME ToSet(switches) \subseteq Letter \ Valued PROVE IsCfg(c)
  <2>1. Len(switches) \in Nat /\ DOMAIN switches = 1 .. Len(switches)
    BY <1>3
  <2>2. \A k \in 1 .. Len(switches) : switches[k] \in Letter \ Valued
    BY <1>5, <2>1 DEF ToSet
  <2>3. QED
    BY <2>1, <2>2, BundleFacts DEF CmdInv
<1>6. UsedWith(own) \in {1, 2}
  BY DEF UsedWith
<1> HIDE DEF c, v, switches
<1>7. QED
  BY <1>1, <1>4, <1>5, <1>6, SetValueFacts DEF Use, Reject, CmdInv

\* The command line is parsed, validated and then left alone.
LEMMA CmdStep ==
  ASSUME CmdInv, CmdNext
  PROVE  CmdInv' /\ stage # "accepted"
<1>1. CASE TakePath \/ TakeDashes \/ TakeWord
  <2>1. UNCHANGED << args, cfg, stage >> /\ at' = at + 1 /\ stage = "args"
    BY <1>1 DEF TakePath, TakeDashes, TakeWord, HasArg
  <2>2. QED
    BY <2>1 DEF CmdInv
<1>2. CASE LongFlag
  BY <1>2, LongFlagStep DEF CmdInv, LongFlag, HasArg
<1>3. CASE ShortFlags
  BY <1>3, ShortFlagsStep DEF CmdInv, ShortFlags, HasArg
<1>4. CASE EndOfArgs
  <2> DEFINE hasPattern == cfg.Patterns # << >>
             rest == IF hasPattern \/ positional = << >> THEN positional ELSE Tail(positional)
             patterns == IF hasPattern THEN cfg.Patterns ELSE First(positional)
             a0 == First(patterns)
             c0 == First(rest)
             d0 == SubSeq(rest, 2, Len(rest)) \o dashedPaths
  <2>1. \/ cfg' = cfg
        \/ cfg' = [cfg EXCEPT !.Pattern = a0, !.Patterns = patterns, !.RevRange = c0, !.Paths = d0]
    BY <1>4, Zenon DEF EndOfArgs
  <2>2. ASSUME NEW a, NEW b, NEW c, NEW d,
               cfg' = [cfg EXCEPT !.Pattern = a, !.Patterns = b, !.RevRange = c, !.Paths = d]
        PROVE  IsCfg(cfg')
    <3>1. \A e, f, x : IsCfg(e) /\ f # "Branches" => IsCfg([e EXCEPT ![f] = x])
      BY SetField
    <3> DEFINE e1 == [cfg EXCEPT !["Pattern"] = a]
               e2 == [e1 EXCEPT !["Patterns"] = b]
               e3 == [e2 EXCEPT !["RevRange"] = c]
               e4 == [e3 EXCEPT !["Paths"] = d]
    <3>2. cfg' = e4
      BY <2>2
    <3>3. IsCfg(e1)
      BY <3>1 DEF CmdInv
    <3> HIDE DEF e1
    <3>4. IsCfg(e2)
      BY <3>1, <3>3
    <3> HIDE DEF e2
    <3>5. IsCfg(e3)
      BY <3>1, <3>4
    <3> HIDE DEF e3
    <3>6. IsCfg(e4)
      BY <3>1, <3>5
    <3> HIDE DEF e4
    <3>7. QED
      BY <3>2, <3>6
  <2>3. IsCfg(cfg')
    <3> HIDE DEF a0, patterns, c0, d0
    <3>1. CASE cfg' = cfg
      BY <3>1 DEF CmdInv
    <3>2. CASE cfg' = [cfg EXCEPT !.Pattern = a0, !.Patterns = patterns, !.RevRange = c0,
                                  !.Paths = d0]
      BY <2>2, <3>2, Zenon
    <3>3. QED
      BY <2>1, <3>1, <3>2
  <2>4. stage = "args" /\ stage' # "accepted" /\ UNCHANGED << args, at >>
    BY <1>4 DEF EndOfArgs
  <2>5. QED
    BY <2>3, <2>4 DEF CmdInv
<1>5. CASE Validate
  <2>1. UNCHANGED << args, at, cfg >> /\ stage = "parsed"
    BY <1>5 DEF Validate
  <2>2. stage' = "accepted" => \A v \in ToSet(cfg.Branches) : Len(Revision(v)) = 1
    BY <1>5 DEF Validate, BranchIsValid
  <2>3. \A i \in DOMAIN cfg["Branches"] : cfg["Branches"][i] \in ToSet(cfg.Branches)
    BY DEF ToSet
  <2>4. QED
    BY <2>1, <2>2, <2>3 DEF CmdInv, IsCfg, Revision
<1>6. QED
  BY <1>1, <1>2, <1>3, <1>4, <1>5 DEF CmdNext

-----------------------------------------------------------------------------
(* The names that are to be resolved.                                      *)

\* Names with paths that are sequences.
Nameable(ts) == IsSeq(ts) /\ \A i \in DOMAIN ts : IsSeq(ts[i].rev.base)

\* Sequences of one or two.
LEMMA ShortSeqs ==
  ASSUME NEW a, NEW b
  PROVE  /\ IsSeq(<< >>) /\ IsSeq(<< a >>) /\ IsSeq(<< a, b >>)
<1>1. << >> \in Seq({a}) /\ << a >> \in Seq({a}) /\ << a, b >> \in Seq({a, b})
  OBVIOUS
<1>2. QED
  BY <1>1 DEF IsSeq

\* What a text is as a revision.
LEMMA RevisionFacts ==
  ASSUME NEW v
  PROVE  \A i \in 1 .. Len(Revision(v)) : IsSeq(Revision(v)[i].base)
<1>1. CASE v.kind = "word" /\ v.text \in DOMAIN RevOf
  <2>1. Revision(v) \in Seq(RevPart)
    BY <1>1, TextAssumption DEF Revision
  <2>2. ASSUME NEW i \in 1 .. Len(Revision(v)) PROVE Revision(v)[i].base \in Seq(STRING)
    <3>1. Revision(v)[i] \in RevPart
      BY <2>1
    <3>2. QED
      BY <3>1 DEF RevPart
  <2>3. QED
    BY <2>2 DEF IsSeq
<1>2. CASE ~(v.kind = "word" /\ v.text \in DOMAIN RevOf)
  <2> DEFINE x == IF v.kind = "word" THEN v.text ELSE "-"
  <2>1. Revision(v) = << [base |-> << x >>, ops |-> << >>] >>
    BY <1>2 DEF Revision
  <2> HIDE DEF x
  <2>2. IsSeq(<< x >>)
    BY ShortSeqs
  <2>3. QED
    BY <2>1, <2>2
<1>3. QED
  BY <1>1, <1>2

\* The revision of the command line.
LEMMA RevGoalsFacts ==
  Nameable(RevGoals)
<1> DEFINE parts == IF cfg.RevRange = << >> THEN << >> ELSE Revision(cfg.RevRange[1])
<1>1. \A i \in 1 .. Len(parts) : IsSeq(parts[i].base)
  <2>1. CASE cfg.RevRange = << >>
    BY <2>1
  <2>2. CASE cfg.RevRange # << >>
    BY <2>2, RevisionFacts
  <2>3. QED
    BY <2>1, <2>2
<1>2. IsSeq(HeadRev.base)
  BY ShortSeqs DEF HeadRev
<1>3. \A r : IsSeq(r.base) => IsSeq(OrHead(r).base)
  BY <1>2 DEF OrHead
<1>4. \A role, r : Goal(role, r).rev = r
  BY DEF Goal
<1>5. ASSUME NEW g, IsSeq(g.rev.base) PROVE Nameable(<< g >>)
  <2>1. \A i \in DOMAIN << g >> : << g >>[i] = g
    OBVIOUS
  <2>2. QED
    BY <1>5, <2>1, ShortSeqs DEF Nameable
<1>6. ASSUME NEW g, IsSeq(g.rev.base), NEW h, IsSeq(h.rev.base) PROVE Nameable(<< g, h >>)
  <2>1. \A i \in DOMAIN << g, h >> : << g, h >>[i] \in {g, h}
    OBVIOUS
  <2>2. QED
    BY <1>6, <2>1, ShortSeqs DEF Nameable
<1>7. RevGoals = CASE Len(parts) = 0 -> << Goal("include", HeadRev) >>
        [] Len(parts) = 2 -> << Goal("include", OrHead(parts[2])),
                                Goal("exclude", OrHead(parts[1])) >>
        [] OTHER -> << Goal("include", parts[1]) >>
  BY Zenon DEF RevGoals
<1> HIDE DEF parts
<1>8. CASE Len(parts) = 0
  <2>1. RevGoals = << Goal("include", HeadRev) >>
    BY <1>7, <1>8
  <2>2. QED
    BY <1>2, <1>4, <1>5, <2>1
<1>9. CASE Len(parts) = 2
  <2>1. RevGoals = << Goal("include", OrHead(parts[2])), Goal("exclude", OrHead(parts[1])) >>
    BY <1>7, <1>9
  <2>2. IsSeq(OrHead(parts[1]).base) /\ IsSeq(OrHead(parts[2]).base)
    BY <1>1, <1>3, <1>9
  <2>3. QED
    BY <1>4, <1>6, <2>1, <2>2
<1>10. CASE Len(parts) # 0 /\ Len(parts) # 2
  <2>1. RevGoals = << Goal("include", parts[1]) >>
    BY <1>7, <1>10
  <2>2. IsSeq(parts[1].base)
    BY <1>1, <1>10
  <2>3. QED
    BY <1>4, <1>5, <2>1, <2>2
<1>11. QED
  BY <1>8, <1>9, <1>10

-----------------------------------------------------------------------------
(* What git does between two reads.                                        *)

\* A repository was found, and its files are as they should be.
Located ==
  /\ repo.gitDir \in Path /\ repo.commonGitDir \in Path
  /\ IsApart(repo.gitDir, repo.commonGitDir)
  /\ GoodFiles(files, repo.commonGitDir)
  /\ unpruned \subseteq LooseRefs \cap DOMAIN PackedRefs

\* The definitions of the model are those above, for the repository found.
IsLinked ==
  LET c == repo.commonGitDir
  IN  /\ LooseRefs = LooseIn(files, c) /\ PackedRefs = PackedIn(files, c)
      /\ Refs = RefsIn(files, c)
      /\ \A r : Value(r) = ValueIn(files, c, r)
      /\ \A r : Own(r) = OwnIn(files, repo.gitDir, c, r)

\* They are so in a repository that was found ...
LEMMA RefsLink ==
  Located => IsLinked
<1> SUFFICES ASSUME Located PROVE IsLinked
  OBVIOUS
<1> DEFINE c == repo.commonGitDir
           g == repo.gitDir
<1>1. c \in Path /\ DOMAIN files \subseteq Path
  BY DEF Located, GoodFiles
<1>2. LooseRefs = LooseIn(files, c)
  BY <1>1, LooseFacts, Zenon DEF LooseRefs, Loose
<1>3. PackedRefs = PackedIn(files, c)
  BY DEF PackedRefs, PackedFile, PackedIn, IsFile
<1>4. Refs = RefsIn(files, c)
  BY <1>2, <1>3 DEF Refs, RefsIn
<1>5. \A r : Value(r) = ValueIn(files, c, r)
  BY <1>3 DEF Value, ValueIn, IsFile, Loose
<1>6. ASSUME NEW r PROVE Own(r) = OwnIn(files, g, c, r)
  <2>1. ToSet(Dirs) = {g, c}
    BY DEF ToSet, Dirs
  <2>2. \A p : p \notin { Loose(s) : s \in Refs } <=> \A s \in RefsIn(files, c) : p # c \o s
    BY <1>4 DEF Loose
  <2> DEFINE S == { p \in { d \o r : d \in ToSet(Dirs) } :
                      IsFile(p) /\ files[p].kind = "oid" /\ p \notin { Loose(s) : s \in Refs } }
  <2>3. ASSUME NEW p
        PROVE  p \in S <=> /\ p \in {g \o r, c \o r} \cap DOMAIN files /\ files[p].kind = "oid"
                           /\ \A s \in RefsIn(files, c) : p # c \o s
    <3>1. p \in { d \o r : d \in ToSet(Dirs) } <=> p \in {g \o r, c \o r}
      BY <2>1
    <3>2. QED
      BY <2>2, <3>1 DEF IsFile
  <2>4. Own(r) = { files[p].oid : p \in S }
    BY Zenon DEF Own
  <2> HIDE DEF S
  <2>5. ASSUME NEW x \in Own(r) PROVE x \in OwnIn(files, g, c, r)
    <3>1. PICK p \in S : x = files[p].oid
      BY <2>4, <2>5
    <3>2. p \in {g \o r, c \o r} \cap DOMAIN files /\ files[p].kind = "oid"
          /\ \A s \in RefsIn(files, c) : p # c \o s
      BY <2>3, <3>1
    <3>3. x \in { files[q].oid : q \in DOMAIN files }
      BY <3>1, <3>2
    <3>4. QED
      BY <3>1, <3>2, <3>3 DEF OwnIn
  <2>6. ASSUME NEW x \in OwnIn(files, g, c, r) PROVE x \in Own(r)
    <3>1. PICK p \in {g \o r, c \o r} \cap DOMAIN files :
            x = files[p].oid /\ files[p].kind = "oid" /\ \A s \in RefsIn(files, c) : p # c \o s
      BY <2>6 DEF OwnIn
    <3>2. p \in S
      BY <2>3, <3>1
    <3>3. QED
      BY <2>4, <3>1, <3>2
  <2>7. QED
    BY <2>5, <2>6
<1>7. QED
  BY <1>2, <1>3, <1>4, <1>5, <1>6 DEF IsLinked

\* ... and after a step, if it is still there.
LEMMA RefsLinkNext ==
  Located' => IsLinked'
BY RefsLink, PTL

\* Whoever reads knows what the references have been.
WatchInv ==
  reading # "none" => DOMAIN had = Refs /\ \A r \in Refs : Value(r) \in had[r]

\* If this is a reference, packed-refs has it.
Passed(r) == r \in Refs => r \in DOMAIN PackedRefs /\ PackedRefs[r] \in had[r]

\* What git leaves to be found.
GitKeeps(r) ==
  /\ had[r] \subseteq had'[r] /\ Own(r) \subseteq Own(r)' /\ (Passed(r) => Passed(r)')
  /\ r \in LooseRefs => r \in LooseRefs' \/ r \in pruned'

\* git keeps the references, what is known of them, and the shape of the files.
LEMMA GitFacts ==
  ASSUME Located, WatchInv, Git
  PROVE  /\ Located' /\ WatchInv' /\ Refs' = Refs /\ \A r \in Refs : GitKeeps(r)
         /\ pruned \subseteq pruned' /\ reading # "none"
         /\ UNCHANGED << repo, reading, call, answer, listed, scan >>
<1> DEFINE c == repo.commonGitDir
           g == repo.gitDir
<1>1. IsLinked
  BY RefsLink
<1>2. /\ reading # "none" /\ UNCHANGED << repo, reading, call, answer, listed, scan >>
      /\ DOMAIN had = Refs /\ \A r \in Refs : Value(r) \in had[r]
  BY DEF Git, UpdateRef, PackRefs, PruneRef, WatchInv, look
<1>3. g \in Path /\ c \in Path /\ IsApart(g, c) /\ GoodFiles(files, c)
  BY DEF Located
<1>4. ASSUME GitMoves(files, files', c),
             unpruned' \subseteq LooseIn(files', c) \cap DOMAIN PackedIn(files', c)
      PROVE  /\ Located' /\ IsLinked' /\ Refs' = Refs
             /\ \A r \in Refs : Own(r) \subseteq Own(r)'
  <2>1. GoodFiles(files', c) /\ DOMAIN files' \subseteq Path /\ RefsIn(files', c) = RefsIn(files, c)
    BY <1>4 DEF GitMoves, GoodFiles
  <2>2. LooseRefs' = LooseIn(files', c) /\ PackedRefs' = PackedIn(files', c)
    <3>1. LooseRefs' = LooseIn(files', c)
      BY <1>2, <1>3, <2>1, LooseFacts, Zenon DEF LooseRefs, Loose
    <3>2. PackedRefs' = PackedIn(files', c)
      BY <1>2 DEF PackedRefs, PackedFile, PackedIn, IsFile
    <3>3. QED
      BY <3>1, <3>2
  <2>3. Located'
    BY <1>2, <1>3, <1>4, <2>1, <2>2 DEF Located
  <2>4. IsLinked'
    BY <2>3, RefsLinkNext
  <2>5. Refs' = Refs
    BY <1>1, <1>2, <2>1, <2>4 DEF IsLinked
  <2>6. ASSUME NEW r \in Refs PROVE Own(r) \subseteq Own(r)'
    <3>1. OwnIn(files, g, c, r) \subseteq OwnIn(files', g, c, r)
      BY <1>1, <1>3, <1>4, OwnStays DEF IsLinked
    <3>2. QED
      BY <1>1, <1>2, <2>4, <3>1 DEF IsLinked
  <2>7. QED
    BY <2>3, <2>4, <2>5, <2>6
<1>5. CASE PackRefs
  <2>1. IsPackedUp(files, files', c) /\ unpruned' = LooseRefs /\ UNCHANGED << had, pruned >>
    <3>1. [r \in Refs |-> Value(r)] = [r \in RefsIn(files, c) |-> ValueIn(files, c, r)]
      BY <1>1 DEF IsLinked
    <3>2. files' = PackedUp(files, c)
      BY <1>5, <3>1 DEF PackRefs, PackedUp, PackedFile
    <3>3. QED
      BY <1>5, <3>2, PackedUpAt DEF PackRefs
  <2>2. /\ GitMoves(files, files', c) /\ LooseIn(files', c) = LooseIn(files, c)
        /\ PackedIn(files', c) = [r \in RefsIn(files, c) |-> ValueIn(files, c, r)]
        /\ \A s \in RefsIn(files, c) : ValueIn(files', c, s) = ValueIn(files, c, s)
    BY <1>3, <2>1, PackedUpFacts
  <2>3. unpruned' \subseteq LooseIn(files', c) \cap DOMAIN PackedIn(files', c)
    BY <1>1, <2>1, <2>2 DEF IsLinked, RefsIn
  <2>4. Located' /\ IsLinked' /\ Refs' = Refs /\ \A r \in Refs : Own(r) \subseteq Own(r)'
    BY <1>4, <2>2, <2>3
  <2>5. \A r \in Refs : Value(r)' = Value(r) /\ r \in DOMAIN PackedRefs' /\ PackedRefs'[r] = Value(r)
    BY <1>1, <1>2, <2>2, <2>4 DEF IsLinked
  <2>6. WatchInv'
    BY <1>2, <2>1, <2>4, <2>5 DEF WatchInv
  <2>7. ASSUME NEW r \in Refs PROVE GitKeeps(r)
    <3>1. Passed(r)'
      BY <1>2, <2>1, <2>5 DEF Passed
    <3>2. r \in LooseRefs => r \in LooseRefs'
      BY <1>1, <1>2, <2>2, <2>4 DEF IsLinked
    <3>3. QED
      BY <2>1, <2>4, <3>1, <3>2 DEF GitKeeps
  <2>8. QED
    BY <1>2, <2>1, <2>4, <2>6, <2>7
<1>6. CASE \E r \in unpruned : PruneRef(r)
  <2>1. PICK q \in unpruned : PruneRef(q)
    BY <1>6
  <2>2. q \in LooseIn(files, c) /\ q \in DOMAIN PackedIn(files, c) /\ unpruned' = unpruned \ {q}
        /\ had' = had
    BY <1>1, <2>1 DEF Located, IsLinked, PruneRef
  <2>3. CASE Value(q) = PackedRefs[q]
    <3>1. files' = Pruned(files, c, q) /\ pruned' = pruned \cup {q}
      BY <2>1, <2>3 DEF PruneRef, Pruned, Loose
    <3>2. IsPruned(files, files', c, q)
      BY <3>1 DEF IsPruned, Pruned
    <3>3. /\ GitMoves(files, files', c) /\ LooseIn(files', c) = LooseIn(files, c) \ {q}
          /\ PackedIn(files', c) = PackedIn(files, c)
          /\ \A s \in RefsIn(files, c) : ValueIn(files', c, s) = ValueIn(files, c, s)
      <4>1. PackedIn(files, c)[q] = ValueIn(files, c, q)
        BY <1>1, <2>3 DEF IsLinked
      <4>2. QED
        BY <1>3, <2>2, <3>2, <4>1, PrunedFacts
    <3>4. unpruned' \subseteq LooseIn(files', c) \cap DOMAIN PackedIn(files', c)
      BY <1>1, <2>2, <3>3 DEF Located, IsLinked
    <3>5. Located' /\ IsLinked' /\ Refs' = Refs /\ \A r \in Refs : Own(r) \subseteq Own(r)'
      BY <1>4, <3>3, <3>4
    <3>6. PackedRefs' = PackedRefs /\ \A r \in Refs : Value(r)' = Value(r)
      BY <1>1, <1>2, <3>3, <3>5 DEF IsLinked
    <3>7. WatchInv'
      BY <1>2, <2>2, <3>5, <3>6 DEF WatchInv
    <3>8. ASSUME NEW r \in Refs PROVE GitKeeps(r)
      <4>1. Passed(r) => Passed(r)'
        BY <2>2, <3>5, <3>6 DEF Passed
      <4>2. r \in LooseRefs => r \in LooseRefs' \/ r \in pruned'
        BY <1>1, <1>2, <3>1, <3>3, <3>5 DEF IsLinked
      <4>3. QED
        BY <2>2, <3>5, <4>1, <4>2 DEF GitKeeps
    <3>9. QED
      BY <1>2, <3>1, <3>5, <3>7, <3>8
  <2>4. CASE Value(q) # PackedRefs[q]
    <3>1. UNCHANGED << files, pruned >>
      BY <2>1, <2>4 DEF PruneRef
    <3>2. LooseRefs' = LooseRefs /\ PackedRefs' = PackedRefs
      BY <1>2, <3>1 DEF LooseRefs, PackedRefs, Loose, PackedFile, IsFile
    <3>3. Refs' = Refs /\ \A r : Value(r)' = Value(r)
      BY <1>2, <3>1, <3>2 DEF Refs, Value, IsFile, Loose
    <3>4. Located'
      BY <1>2, <2>2, <3>1, <3>2 DEF Located
    <3>5. \A r : Own(r)' = Own(r)
      BY <1>1, <1>2, <3>1, <3>4, RefsLinkNext DEF IsLinked
    <3>6. WatchInv'
      BY <1>2, <2>2, <3>3 DEF WatchInv
    <3>7. \A r \in Refs : GitKeeps(r)
      BY <2>2, <3>2, <3>3, <3>5 DEF GitKeeps, Passed
    <3>8. QED
      BY <1>2, <3>1, <3>3, <3>4, <3>6, <3>7
  <2>5. QED
    BY <2>3, <2>4
<1>7. CASE \E r \in Refs, o \in Fresh : UpdateRef(r, o)
  <2>1. PICK q \in Refs, o \in Fresh : UpdateRef(q, o)
    BY <1>7
  <2>2. had' = [had EXCEPT ![q] = @ \cup {o}] /\ UNCHANGED << unpruned, pruned >>
    BY <2>1 DEF UpdateRef
  <2>3. /\ GitMoves(files, files', c)
        /\ LooseIn(files', c) = LooseIn(files, c) \cup {q}
        /\ PackedIn(files', c) = PackedIn(files, c)
        /\ \A s \in RefsIn(files, c) :
             ValueIn(files', c, s) = IF s = q THEN o ELSE ValueIn(files, c, s)
    <3>1. q \in RefsIn(files, c)
      BY <1>1 DEF IsLinked
    <3>2. files' = Updated(files, c, q, o)
      BY <2>1, Zenon DEF UpdateRef, Updated, Above, AboveIn, Loose
    <3>3. IsUpdated(files, files', c, q, o)
      BY <1>3, <3>1, <3>2, UpdatedAt
    <3>4. QED
      BY <1>3, <3>1, <3>3, UpdatedFacts
  <2>4. unpruned' \subseteq LooseIn(files', c) \cap DOMAIN PackedIn(files', c)
    BY <1>1, <2>2, <2>3 DEF Located, IsLinked
  <2>5. Located' /\ IsLinked' /\ Refs' = Refs /\ \A r \in Refs : Own(r) \subseteq Own(r)'
    BY <1>4, <2>3, <2>4
  <2>6. PackedRefs' = PackedRefs /\ \A r \in Refs : Value(r)' = IF r = q THEN o ELSE Value(r)
    BY <1>1, <1>2, <2>3, <2>5 DEF IsLinked
  <2>7. DOMAIN had' = DOMAIN had /\ \A r \in Refs :
          had'[r] = IF r = q THEN had[r] \cup {o} ELSE had[r]
    BY <1>2, <2>2
  <2>8. WatchInv'
    BY <1>2, <2>5, <2>6, <2>7 DEF WatchInv
  <2>9. ASSUME NEW r \in Refs PROVE GitKeeps(r)
    <3>1. Passed(r) => Passed(r)'
      BY <2>5, <2>6, <2>7 DEF Passed
    <3>2. r \in LooseRefs => r \in LooseRefs'
      BY <1>1, <1>2, <2>3, <2>5 DEF IsLinked
    <3>3. QED
      BY <2>5, <2>7, <3>1, <3>2 DEF GitKeeps
  <2>10. QED
    BY <1>2, <2>2, <2>5, <2>8, <2>9
<1>8. QED
  BY <1>5, <1>6, <1>7 DEF Git

-----------------------------------------------------------------------------
(* A name is resolved.                                                     *)

\* A call that looks for candidates.
IsCall(c) ==
  /\ c = [cands |-> c.cands, k |-> c.k, dir |-> c.dir, depth |-> c.depth]
  /\ Len(c.cands) \in Nat /\ DOMAIN c.cands = 1 .. Len(c.cands)
  /\ \A j \in 1 .. Len(c.cands) : IsSeq(c.cands[j])
  /\ c.k \in 1 .. Len(c.cands) /\ c.dir \in 1 .. Len(Dirs)

\* No candidate before is a reference that only a file has.
CallInv ==
  /\ reading = "loose" => IsCall(call) /\ \A j \in 1 .. call.k - 1 : Passed(call.cands[j])
  /\ reading = "packed" => /\ Len(call.cands) \in Nat /\ DOMAIN call.cands = 1 .. Len(call.cands)
                           /\ \A j \in 1 .. Len(call.cands) : Passed(call.cands[j])

\* The candidates for a name.
LEMMA CandidatesFacts ==
  ASSUME NEW p, IsSeq(p)
  PROVE  LET q == Candidates(p)
         IN  /\ Len(q) \in Nat /\ DOMAIN q = 1 .. Len(q) /\ Len(q) >= 1
             /\ \A j \in 1 .. Len(q) : IsSeq(q[j])
<1> DEFINE a1 == << "refs" >> \o p
           a2 == << "refs", "heads" >> \o p
           a3 == << "refs", "tags" >> \o p
           a4 == << "refs", "remotes" >> \o p
           a5 == << "refs", "remotes", "origin" >> \o p
<1>1. IsSeq(<< "refs" >>) /\ IsSeq(<< "refs", "heads" >>) /\ IsSeq(<< "refs", "tags" >>)
      /\ IsSeq(<< "refs", "remotes" >>) /\ IsSeq(<< "refs", "remotes", "origin" >>)
  <2>1. << "refs", "remotes", "origin" >> \in Seq({"refs", "remotes", "origin"})
    OBVIOUS
  <2>2. IsSeq(<< "refs", "remotes", "origin" >>)
    BY <2>1 DEF IsSeq
  <2>3. QED
    BY <2>2, ShortSeqs
<1>2. IsSeq(a1) /\ IsSeq(a2) /\ IsSeq(a3) /\ IsSeq(a4) /\ IsSeq(a5)
  BY <1>1, SeqFacts
<1>3. Candidates(p) = << p >> \/ Candidates(p) = << p, a1, a2, a3, a4, a5 >>
  BY Zenon DEF Candidates
<1> HIDE DEF a1, a2, a3, a4, a5
<1>4. CASE Candidates(p) = << p >>
  BY <1>4
<1>5. CASE Candidates(p) = << p, a1, a2, a3, a4, a5 >>
  BY <1>2, <1>5
<1>6. QED
  BY <1>3, <1>4, <1>5

\* The directories where a reference may be.
LEMMA DirsFacts ==
  /\ Len(Dirs) \in {1, 2} /\ DOMAIN Dirs = 1 .. Len(Dirs)
  /\ \A d \in 1 .. Len(Dirs) : Dirs[d] \in {repo.gitDir, repo.commonGitDir}
  /\ Dirs[Len(Dirs)] = repo.commonGitDir
  /\ ToSet(Dirs) = {repo.gitDir, repo.commonGitDir}
<1>1. CASE repo.gitDir = repo.commonGitDir
  <2>1. Dirs = << repo.commonGitDir >>
    BY <1>1 DEF Dirs
  <2>2. QED
    BY <1>1, <2>1 DEF ToSet
<1>2. CASE repo.gitDir # repo.commonGitDir
  <2>1. Dirs = << repo.gitDir, repo.commonGitDir >>
    BY <1>2 DEF Dirs
  <2>2. ToSet(Dirs) = {repo.gitDir, repo.commonGitDir}
    <3>1. DOMAIN Dirs = {1, 2}
      BY <2>1
    <3>2. QED
      BY <2>1, <3>1 DEF ToSet
  <2>3. QED
    BY <2>1, <2>2
<1>3. QED
  BY <1>1, <1>2

\* What comes of the beginning of a search: an answer, or something to read.
Begun ==
  \/ /\ reading' = "none"
     /\ answer'[1].is = "failed" \/ (answer'[1].is = "found" /\ call'.cands = << >>)
  \/ /\ reading' = "loose" /\ answer' = << >> /\ IsCall(call)' /\ call'.k = 1

\* That is all that comes of it.
LEMMA ResolveFacts ==
  ASSUME NEW r, IsSeq(r.base), NEW depth, Resolve(r, depth), repo' = repo
  PROVE  Begun
<1> DEFINE new == [cands |-> Candidates(r.base), k |-> 1, dir |-> 1, depth |-> depth]
<1>1. \/ Answer(Failed)
      \/ Answer(Found(r.base[1])) /\ call' = [cands |-> << >>]
      \/ reading' = "loose" /\ answer' = << >> /\ call' = new
  BY Zenon DEF Resolve
<1>2. CASE Answer(Failed)
  BY <1>2 DEF Answer, Failed, Begun
<1>3. CASE Answer(Found(r.base[1])) /\ call' = [cands |-> << >>]
  BY <1>3 DEF Answer, Found, Begun
<1>4. CASE reading' = "loose" /\ answer' = << >> /\ call' = new
  <2>1. Dirs' = Dirs
    BY DEF Dirs
  <2> DEFINE cs == Candidates(r.base)
  <2>2. Len(cs) \in Nat /\ DOMAIN cs = 1 .. Len(cs) /\ Len(cs) >= 1
        /\ \A j \in 1 .. Len(cs) : IsSeq(cs[j])
    BY CandidatesFacts
  <2>3. call'.cands = cs /\ call'.k = 1 /\ call'.dir = 1 /\ call'.depth = depth
    BY <1>4
  <2> HIDE DEF cs
  <2>4. call' = [cands |-> call'.cands, k |-> call'.k, dir |-> call'.dir, depth |-> call'.depth]
    BY <1>4, <2>3 DEF cs
  <2>5. IsCall(call)'
    BY <2>1, <2>2, <2>3, <2>4, DirsFacts DEF IsCall
  <2>6. QED
    BY <1>4, <2>3, <2>5 DEF Begun
<1>5. QED
  BY <1>1, <1>2, <1>3, <1>4

\* What is left of a path after its beginning is a path.
LEMMA RestIsPath ==
  ASSUME NEW g \in Path, NEW q, IsSeq(q), g \o q \in Path
  PROVE  q \in Path
<1>1. IsPrefix(g, g \o q)
  <2>1. PICK X : q \in Seq(X)
    BY DEF IsSeq
  <2>2. PICK Y : g \in Seq(Y) /\ q \in Seq(Y)
    BY OneSet, SeqFacts
  <2>3. Len(g) \in Nat /\ Len(q) \in Nat /\ Len(g \o q) = Len(g) + Len(q)
        /\ \A i \in 1 .. Len(g) : (g \o q)[i] = g[i]
    BY <2>2
  <2> DEFINE w == g \o q
  <2>4. w \in Path /\ Len(g) <= Len(w) /\ \A i \in 1 .. Len(g) : g[i] = w[i]
    BY <2>3
  <2> HIDE DEF w
  <2>5. IsPrefix(g, w)
    BY <2>4, PrefixFacts
  <2>6. QED
    BY <2>5 DEF w
<1> DEFINE s == SubSeq(g \o q, Len(g) + 1, Len(g \o q))
<1>2. s \in Path /\ g \o q = g \o s
  BY <1>1, SplitFacts
<1> HIDE DEF s
<1>3. q = s
  BY <1>2, CancelLeft, SeqFacts
<1>4. QED
  BY <1>2, <1>3

\* What is known of the repository while nobody writes.
Same ==
  /\ Located' /\ LooseRefs' = LooseRefs /\ PackedRefs' = PackedRefs /\ Refs' = Refs /\ Dirs' = Dirs
  /\ \A r : Value(r)' = Value(r) /\ Own(r)' = Own(r) /\ Loose(r)' = Loose(r)
  /\ had' = had => \A r : Passed(r) <=> Passed(r)'

\* While no file is written, it is all the same.
LEMMA NothingMoves ==
  ASSUME Located, UNCHANGED << files, repo, unpruned >>
  PROVE  Same
<1>1. LooseRefs' = LooseRefs /\ PackedRefs' = PackedRefs /\ Dirs' = Dirs
  BY DEF LooseRefs, PackedRefs, Loose, PackedFile, IsFile, Dirs
<1>2. Refs' = Refs /\ \A r : Value(r)' = Value(r) /\ Loose(r)' = Loose(r)
  BY <1>1 DEF Refs, Value, IsFile, Loose
<1>3. Located'
  BY <1>1 DEF Located
<1>4. \A r : Own(r)' = Own(r)
  BY <1>3, RefsLink, RefsLinkNext DEF IsLinked
<1>5. had' = had => \A r : Passed(r) <=> Passed(r)'
  BY <1>1, <1>2 DEF Passed
<1>6. QED
  BY <1>1, <1>2, <1>3, <1>4, <1>5 DEF Same

\* What a file says that is found for a candidate.
LEMMA FileIsAlive ==
  ASSUME Located, WatchInv, reading # "none", NEW d \in {repo.gitDir, repo.commonGitDir},
         NEW r, IsSeq(r), d \o r \in DOMAIN files, files[d \o r].kind = "oid"
  PROVE  (r \in Refs /\ files[d \o r].oid \in had[r]) \/ files[d \o r].oid \in Own(r)
<1> DEFINE c == repo.commonGitDir
           g == repo.gitDir
           p == d \o r
<1>1. IsLinked /\ g \in Path /\ c \in Path /\ d \in Path /\ DOMAIN files \subseteq Path
      /\ IsApart(g, c)
  BY RefsLink DEF Located, GoodFiles
<1>2. \A s \in Refs : s \in Path /\ IsRefName(s)
  BY <1>1 DEF Located, GoodFiles, IsLinked
<1>3. CASE \E s \in Refs : p = c \o s
  <2>1. PICK s \in Refs : p = c \o s
    BY <1>3
  <2>2. d = c
    <3> SUFFICES ASSUME d # c PROVE FALSE
      OBVIOUS
    <3>1. d = g /\ g # c /\ r \in Path
      BY <1>1, RestIsPath
    <3>2. g \o r = c \o s /\ s \in Path
      BY <1>2, <2>1, <3>1
    <3>3. ~IsRefName(s)
      BY <1>1, <3>1, <3>2, WorktreeIsApart
    <3>4. QED
      BY <1>2, <3>3
  <2>3. r = s
    BY <1>1, <1>2, <2>1, <2>2, SeqFacts, CancelLeft
  <2>4. Value(r) = files[p].oid
    BY <2>2 DEF Value, IsFile, Loose
  <2>5. QED
    BY <2>3, <2>4 DEF WatchInv
<1>4. CASE \A s \in Refs : p # c \o s
  <2>1. p \in {g \o r, c \o r} \cap DOMAIN files
    OBVIOUS
  <2>2. files[p].oid \in OwnIn(files, g, c, r)
    BY <1>1, <1>4, <2>1 DEF OwnIn, IsLinked
  <2>3. QED
    BY <1>1, <2>2 DEF IsLinked
<1>5. QED
  BY <1>3, <1>4

\* A search that has just begun, or failed at once, is as it should be.
LEMMA BegunFacts ==
  ASSUME Begun, reading' # "none" => WatchInv'
  PROVE  CallInv' /\ ResolvesToALiveValue' /\ reading' \in {"none", "loose"}
<1>1. CASE reading' = "none" /\ (answer'[1].is = "failed" \/ (answer'[1].is = "found" /\ call'.cands = << >>))
  <2>1. ResolvesToALiveValue'
    BY <1>1, SMT DEF ResolvesToALiveValue
  <2>2. QED
    BY <1>1, <2>1 DEF CallInv
<1>2. CASE reading' = "loose" /\ answer' = << >> /\ IsCall(call)' /\ call'.k = 1
  <2>1. CallInv'
    BY <1>2 DEF CallInv, IsCall
  <2>2. QED
    BY <1>2, <2>1 DEF ResolvesToALiveValue
<1>3. QED
  BY <1>1, <1>2 DEF Begun

\* A file is read, or is not there.
LEMMA ReadLooseStep ==
  ASSUME Located, WatchInv, CallInv, ReadLoose
  PROVE  /\ Located' /\ WatchInv' /\ CallInv' /\ ResolvesToALiveValue'
         /\ reading' \in {"none", "loose", "packed"}
<1> DEFINE c == repo.commonGitDir
           r == call.cands[call.k]
           p == Dirs[call.dir] \o r
<1>1. /\ reading = "loose" /\ UNCHANGED << files, repo, listed, scan, gitVars, had, pruned >>
      /\ IsCall(call) /\ \A j \in 1 .. call.k - 1 : Passed(call.cands[j])
  BY DEF ReadLoose, CallInv
<1>2. Same
  BY <1>1, NothingMoves DEF gitVars
<1>3. Located'
  BY <1>2 DEF Same
<1>4. WatchInv'
  BY <1>1, <1>2 DEF WatchInv, Same
<1>5. IsSeq(r) /\ Dirs[call.dir] \in {repo.gitDir, c}
  BY <1>1, DirsFacts DEF IsCall
<1>6. \/ IsFile(p) /\ files[p].kind = "sym"
         /\ Resolve([base |-> files[p].to, ops |-> << >>], call.depth + 1)
      \/ IsFile(p) /\ files[p].kind # "sym" /\ UNCHANGED call
         /\ Answer(Found(IF files[p].kind = "oid" THEN files[p].oid ELSE Junk))
      \/ Answer(Failed) /\ UNCHANGED call
      \/ /\ ~IsFile(p) /\ ~IsDir(p)
         /\ call' = NextPlace /\ UNCHANGED answer
         /\ reading' = IF NextPlace.k > Len(call.cands) THEN "packed" ELSE "loose"
  BY SMT DEF ReadLoose
<1>7. CASE IsFile(p) /\ files[p].kind = "sym"
           /\ Resolve([base |-> files[p].to, ops |-> << >>], call.depth + 1)
  <2>1. IsSeq(files[p].to)
    BY <1>7, SeqFacts DEF Located, GoodFiles, IsFile
  <2> DEFINE n == [base |-> files[p].to, ops |-> << >>]
  <2>2. IsSeq(n.base)
    BY <2>1
  <2>3. Resolve(n, call.depth + 1)
    BY <1>7
  <2> HIDE DEF n
  <2>4. Begun
    BY <1>1, <2>2, <2>3, ResolveFacts
  <2>5. QED
    BY <1>3, <1>4, <2>4, BegunFacts
<1>8. CASE Answer(Failed) /\ UNCHANGED call
  <2>1. Begun
    BY <1>8 DEF Answer, Failed, Begun
  <2>2. QED
    BY <1>3, <1>4, <2>1, BegunFacts
<1>9. CASE IsFile(p) /\ files[p].kind # "sym" /\ UNCHANGED call
           /\ Answer(Found(IF files[p].kind = "oid" THEN files[p].oid ELSE Junk))
  <2> DEFINE o == IF files[p].kind = "oid" THEN files[p].oid ELSE Junk
  <2>1. reading' = "none" /\ answer'[1].is = "found" /\ answer'[1].oid = o
    BY <1>9 DEF Answer, Found
  <2>2. o = Junk \/ (r \in Refs /\ o \in had[r]) \/ o \in Own(r)
    <3>1. CASE files[p].kind = "oid"
      <4>1. (r \in Refs /\ files[p].oid \in had[r]) \/ files[p].oid \in Own(r)
        BY <1>1, <1>5, <1>9, <3>1, FileIsAlive DEF IsFile
      <4>2. QED
        BY <3>1, <4>1
    <3>2. CASE files[p].kind # "oid"
      BY <3>2
    <3>3. QED
      BY <3>1, <3>2
  <2> HIDE DEF o, p
  <2> DEFINE live == UNION { had[s] : s \in ToSet(call.cands) \cap DOMAIN had }
             own  == UNION { Own(s) : s \in ToSet(call.cands) }
  <2>3. r \in ToSet(call.cands) /\ DOMAIN had = Refs
    BY <1>1 DEF ToSet, IsCall, WatchInv
  <2>4. o \in live \cup own \cup {Junk}
    BY <2>2, <2>3
  <2>5. ResolvesToALiveValue' <=> (reading' = "none" /\ answer' # << >> =>
          CASE answer'[1].is = "unknown" -> live = {}
            [] answer'[1].is = "found" /\ call.cands # << >> ->
                 answer'[1].oid \in live \cup own \cup {Junk}
            [] OTHER -> TRUE)
    BY <1>1, <1>2, <1>9 DEF ResolvesToALiveValue, Same
  <2> HIDE DEF live, own
  <2>6. ResolvesToALiveValue'
    BY <2>1, <2>4, <2>5, SMT
  <2>7. CallInv'
    BY <2>1 DEF CallInv
  <2>8. QED
    BY <1>3, <1>4, <2>1, <2>6, <2>7
<1>10. CASE /\ ~IsFile(p) /\ ~IsDir(p)
            /\ call' = NextPlace /\ UNCHANGED answer
            /\ reading' = IF NextPlace.k > Len(call.cands) THEN "packed" ELSE "loose"
  <2>1. call.k \in 1 .. Len(call.cands) /\ Len(call.cands) \in Nat
        /\ call.dir \in 1 .. Len(Dirs) /\ Len(Dirs) \in {1, 2}
    BY <1>1, DirsFacts DEF IsCall
  <2>2. ResolvesToALiveValue' /\ reading' \in {"loose", "packed"}
    BY <1>10 DEF ResolvesToALiveValue
  <2>3. CASE call.dir < Len(Dirs)
    <3>1. call' = [call EXCEPT !.dir = @ + 1]
      BY <1>10, <2>3 DEF NextPlace
    <3>2. call'.cands = call.cands /\ call'.k = call.k /\ call'.dir = call.dir + 1
          /\ call' = [cands |-> call'.cands, k |-> call'.k, dir |-> call'.dir, depth |-> call'.depth]
      BY <1>1, <3>1 DEF IsCall
    <3>3. reading' = "loose"
      BY <1>10, <2>1, <2>3, <3>2
    <3>4. IsCall(call)'
      BY <1>1, <1>2, <2>1, <2>3, <3>2 DEF IsCall, Same
    <3>5. \A j \in 1 .. call'.k - 1 : Passed(call.cands[j])'
      BY <1>1, <1>2, <3>2 DEF Same, Passed
    <3>6. CallInv'
      BY <3>3, <3>4, <3>5 DEF CallInv
    <3>7. QED
      BY <1>3, <1>4, <2>2, <3>6
  <2>4. CASE call.dir = Len(Dirs)
    <3>1. Passed(r)
      <4>1. p = Loose(r) /\ p \notin DOMAIN files
        BY <1>10, <2>4, DirsFacts DEF Loose, IsFile, IsDir
      <4>2. ASSUME r \in Refs PROVE r \in DOMAIN PackedRefs /\ Value(r) = PackedRefs[r]
        <5>1. r \notin LooseRefs
          BY <4>1, RefsLink DEF IsLinked, LooseIn, Loose
        <5>2. QED
          BY <4>1, <4>2, <5>1 DEF Refs, Value, IsFile
      <4>3. QED
        BY <1>1, <4>2 DEF Passed, WatchInv
    <3>2. \A j \in 1 .. call.k : Passed(call.cands[j])
      BY <1>1, <2>1, <3>1
    <3>3. call' = [call EXCEPT !.dir = 1, !.k = @ + 1]
      BY <1>10, <2>4, <2>1 DEF NextPlace
    <3>4. call'.cands = call.cands /\ call'.k = call.k + 1 /\ call'.dir = 1
          /\ call' = [cands |-> call'.cands, k |-> call'.k, dir |-> call'.dir, depth |-> call'.depth]
      BY <1>1, <3>3 DEF IsCall
    <3>5. \A j \in 1 .. call.k : Passed(call.cands[j])'
      BY <1>1, <1>2, <3>2, <3>4 DEF Same, Passed
    <3>6. CASE call.k = Len(call.cands)
      <4>1. reading' = "packed"
        BY <1>10, <2>1, <3>4, <3>6
      <4>2. CallInv'
        BY <1>1, <3>4, <3>5, <3>6, <4>1 DEF CallInv, IsCall
      <4>3. QED
        BY <1>3, <1>4, <2>2, <4>2
    <3>7. CASE call.k < Len(call.cands)
      <4>1. reading' = "loose"
        BY <1>10, <2>1, <3>4, <3>7
      <4>2. IsCall(call)'
        BY <1>1, <1>2, <2>1, <3>4, <3>7 DEF IsCall, Same
      <4>3. CallInv'
        BY <2>1, <3>4, <3>5, <4>1, <4>2 DEF CallInv
      <4>4. QED
        BY <1>3, <1>4, <2>2, <4>3
    <3>8. QED
      BY <2>1, <3>6, <3>7
  <2>5. QED
    BY <2>1, <2>3, <2>4
<1>11. QED
  BY <1>6, <1>7, <1>8, <1>9, <1>10

\* What no file had is in packed-refs, or is no reference.
LEMMA ReadPackedStep ==
  ASSUME Located, WatchInv, CallInv, ReadPacked
  PROVE  Located' /\ WatchInv' /\ CallInv' /\ ResolvesToALiveValue' /\ reading' = "none"
<1> DEFINE hits == { k \in DOMAIN call.cands : call.cands[k] \in DOMAIN PackedRefs }
           live == UNION { had[s] : s \in ToSet(call.cands) \cap DOMAIN had }
           own  == UNION { Own(s) : s \in ToSet(call.cands) }
           r    == call.cands[Min(hits)]
<1>1. /\ reading = "packed" /\ UNCHANGED << files, repo, call, listed, scan, gitVars, had, pruned >>
      /\ Len(call.cands) \in Nat /\ DOMAIN call.cands = 1 .. Len(call.cands)
      /\ \A j \in 1 .. Len(call.cands) : Passed(call.cands[j])
      /\ DOMAIN had = Refs
  BY DEF ReadPacked, CallInv, WatchInv
<1>2. Same
  BY <1>1, NothingMoves DEF gitVars
<1>3. Located' /\ WatchInv' /\ CallInv' /\ reading' = "none"
  BY <1>1, <1>2 DEF Same, WatchInv, CallInv, ReadPacked, Answer
<1>4. ResolvesToALiveValue' <=> (reading' = "none" /\ answer' # << >> =>
          CASE answer'[1].is = "unknown" -> live = {}
            [] answer'[1].is = "found" /\ call.cands # << >> ->
                 answer'[1].oid \in live \cup own \cup {Junk}
            [] OTHER -> TRUE)
  BY <1>1, <1>2 DEF ResolvesToALiveValue, Same
<1>5. Answer(IF hits = {} THEN Unknown ELSE Found(PackedRefs[r]))
  BY Zenon DEF ReadPacked
<1>6. CASE hits = {}
  <2>1. answer'[1].is = "unknown"
    BY <1>5, <1>6 DEF Answer, Unknown
  <2>2. ASSUME NEW s \in ToSet(call.cands) \cap DOMAIN had PROVE FALSE
    <3>1. PICK j \in DOMAIN call.cands : s = call.cands[j]
      BY <2>2 DEF ToSet
    <3>2. s \in DOMAIN PackedRefs
      BY <1>1, <2>2, <3>1 DEF Passed
    <3>3. QED
      BY <1>6, <3>1, <3>2
  <2>3. live = {}
    BY <2>2
  <2> HIDE DEF live, own
  <2>4. QED
    BY <1>3, <1>4, <2>1, <2>3, SMT
<1>7. CASE hits # {}
  <2>1. Min(hits) \in hits
    <3>1. hits \in SUBSET Nat
      BY <1>1
    <3>2. \E k \in hits : \A j \in hits : k <= j
      <4> HIDE DEF hits
      <4>1. QED
        BY <1>7, <3>1, LeastElement
    <3>3. QED
      BY <3>2, Zenon DEF Min
  <2>2. r \in Refs /\ PackedRefs[r] \in had[r] /\ r \in ToSet(call.cands)
    <3>1. r \in DOMAIN PackedRefs
      BY <2>1
    <3>2. r \in Refs
      BY <3>1 DEF Refs
    <3>3. QED
      BY <1>1, <2>1, <3>2 DEF Passed, ToSet
  <2>3. answer'[1].is = "found" /\ answer'[1].oid = PackedRefs[r]
    BY <1>5, <1>7 DEF Answer, Found
  <2> HIDE DEF r
  <2>4. PackedRefs[r] \in live
    BY <1>1, <2>2
  <2> HIDE DEF live, own
  <2>5. QED
    BY <1>3, <1>4, <2>3, <2>4, SMT
<1>8. QED
  BY <1>6, <1>7

-----------------------------------------------------------------------------
(* All references are listed.                                              *)

\* A reference whose entry is still to be looked at.
Covers(e, r) ==
  /\ e.dir = repo.commonGitDir /\ Len(e.path) \in 1 .. Len(r)
  /\ e.path = SubSeq(r, 1, Len(e.path)) /\ (e.isDir <=> Len(e.path) < Len(r))
Covered(r) == r \in LooseRefs /\ \E e \in ToSet(scan) : Covers(e, r)

\* A reference that is listed.
Settled(r) == r \in DOMAIN listed /\ listed[r] \in had[r] \cup Own(r)

\* An entry of a directory of references.
IsEntry(e) ==
  /\ e.dir \in {repo.gitDir, repo.commonGitDir} /\ e.path \in Path /\ IsRefName(e.path)

ScanInv ==
  reading = "scan" =>
    /\ IsSeq(scan) /\ \A e \in ToSet(scan) : IsEntry(e)
    /\ \A r \in Refs \ pruned : Settled(r) \/ Covered(r)

\* A loose reference, and the directories on the way to it.
LEMMA LooseIsThere ==
  ASSUME Located, NEW r \in LooseRefs
  PROVE  /\ r \in Path /\ IsRefName(r) /\ Len(r) \in Nat /\ Len(r) >= 1
         /\ Loose(r) \in DOMAIN files /\ files[Loose(r)].kind = "oid"
         /\ \A k \in 1 .. Len(r) - 1 :
              /\ Loose(SubSeq(r, 1, k)) \in DOMAIN files
              /\ files[Loose(SubSeq(r, 1, k))].kind = "dir"
<1>1. IsLinked
  BY RefsLink
<1>2. /\ r \in Path /\ IsRefName(r)
      /\ Loose(r) \in DOMAIN files /\ files[Loose(r)].kind = "oid"
  BY <1>1 DEF IsLinked, LooseIn, Loose
<1>3. IsClear(files, repo.commonGitDir, r)
  BY <1>1 DEF IsLinked, Located, GoodFiles, RefsIn
<1>4. \A k \in 1 .. Len(r) - 1 : /\ Loose(SubSeq(r, 1, k)) \in DOMAIN files
                                 /\ files[Loose(SubSeq(r, 1, k))].kind = "dir"
  BY <1>1, <1>3, Zenon DEF IsLinked, IsClear, Loose
<1>5. QED
  BY <1>2, <1>4, PathFacts DEF IsRefName

\* An entry for a start of the path of a reference covers it.
LEMMA StartCovers ==
  ASSUME Located, NEW r \in LooseRefs, NEW k \in 1 .. Len(r)
  PROVE  Covers(Entry(repo.commonGitDir, SubSeq(r, 1, k)), r)
<1> DEFINE q == SubSeq(r, 1, k)
           e == Entry(repo.commonGitDir, q)
<1>1. r \in Path /\ Len(r) \in Nat
  BY LooseIsThere
<1>2. Len(q) = k
  BY <1>1, StartFacts
<1>3. IsDir(Loose(q)) <=> k < Len(r)
  <2>1. CASE k < Len(r)
    <3>1. k \in 1 .. Len(r) - 1
      BY <1>1, <2>1
    <3>2. QED
      BY <2>1, <3>1, LooseIsThere DEF IsDir
  <2>2. CASE k = Len(r)
    <3>1. q = r
      BY <1>1, <2>2, SubSeqFull DEF Path
    <3> HIDE DEF q
    <3>2. files[Loose(q)].kind = "oid"
      BY <3>1, LooseIsThere
    <3>3. QED
      BY <2>2, <3>2 DEF IsDir
  <2>3. QED
    BY <1>1, <2>1, <2>2
<1> HIDE DEF q
<1>4. e.dir = repo.commonGitDir /\ e.path = q /\ (e.isDir <=> k < Len(r))
  BY <1>3 DEF Entry, Loose
<1> HIDE DEF e
<1>5. Len(e.path) = k /\ k \in 1 .. Len(r)
  BY <1>2, <1>4
<1>6. e.path = SubSeq(r, 1, Len(e.path))
  BY <1>4, <1>5 DEF q
<1>7. Covers(e, r)
  BY <1>4, <1>5, <1>6 DEF Covers
<1>8. QED
  BY <1>7 DEF e, q

\* What is packed is listed, the rest is to be found from refs on.
LEMMA ListPackedStep ==
  ASSUME Located, WatchInv, ListPacked
  PROVE  Located' /\ WatchInv' /\ CallInv' /\ ScanInv' /\ reading' = "scan"
<1> DEFINE c == repo.commonGitDir
           b == << "refs" >>
<1>1. /\ reading = "list" /\ reading' = "scan" /\ listed' = PackedRefs
      /\ scan' = [i \in DOMAIN Dirs |-> Entry(Reverse(Dirs)[i], b)]
      /\ UNCHANGED << files, repo, call, answer, gitVars, had, pruned >>
  BY DEF ListPacked
<1>2. Same
  BY <1>1, NothingMoves DEF gitVars
<1>3. Located' /\ WatchInv' /\ CallInv'
  BY <1>1, <1>2 DEF Same, WatchInv, CallInv
<1>4. \A i \in 1 .. Len(Dirs) : Reverse(Dirs)[i] = Dirs[Len(Dirs) + 1 - i]
      /\ Reverse(Dirs)[i] \in {repo.gitDir, c}
  BY DirsFacts DEF Reverse
<1>5. Reverse(Dirs)[1] = c /\ 1 \in DOMAIN Dirs
  BY <1>4, DirsFacts
<1>6. b \in Path /\ IsRefName(b) /\ Len(b) = 1 /\ b[1] = "refs"
  BY RefsName DEF IsRefName
<1> HIDE DEF b
<1>7. \A i \in DOMAIN Dirs : scan'[i].dir = Reverse(Dirs)[i] /\ scan'[i].path = b
  BY <1>1 DEF Entry
<1>8. IsSeq(scan') /\ DOMAIN scan' = DOMAIN Dirs
  <2>1. scan' \in Seq({ Entry(Reverse(Dirs)[i], b) : i \in DOMAIN Dirs })
    BY <1>1, DirsFacts
  <2>2. QED
    BY <1>1, <2>1 DEF IsSeq
<1>9. \A e \in ToSet(scan') : IsEntry(e)'
  BY <1>1, <1>4, <1>6, <1>7, <1>8, DirsFacts DEF IsEntry, ToSet
<1>10. ASSUME NEW r \in Refs PROVE Settled(r)' \/ Covered(r)'
  <2>1. CASE r \in LooseRefs
    <3>1. r \in Path /\ IsRefName(r) /\ Len(r) \in Nat /\ Len(r) >= 1
      BY <2>1, LooseIsThere
    <3>2. SubSeq(r, 1, 1) = b
      <4>1. 1 \in 1 .. Len(r)
        BY <3>1
      <4>2. SubSeq(r, 1, 1) \in Path /\ Len(SubSeq(r, 1, 1)) = 1 /\ SubSeq(r, 1, 1)[1] = r[1]
        BY <3>1, <4>1, StartFacts
      <4> DEFINE q == SubSeq(r, 1, 1)
      <4>3. q \in Path /\ Len(q) = Len(b) /\ \A i \in 1 .. Len(q) : q[i] = b[i]
        BY <1>6, <3>1, <4>2 DEF IsRefName
      <4> HIDE DEF q
      <4>4. q = b
        BY <1>6, <4>3, PathEqual
      <4>5. QED
        BY <4>4 DEF q
    <3>3. Covers(Entry(c, b), r)
      <4>1. 1 \in 1 .. Len(r)
        BY <3>1
      <4>2. QED
        BY <2>1, <3>2, <4>1, StartCovers
    <3>4. Entry(c, b) \in ToSet(scan')
      BY <1>1, <1>5, <1>8 DEF ToSet
    <3>5. r \in LooseRefs'
      BY <1>2, <2>1 DEF Same
    <3>6. QED
      BY <1>1, <3>3, <3>4, <3>5 DEF Covered, Covers
  <2>2. CASE r \notin LooseRefs
    <3>1. r \in DOMAIN PackedRefs /\ Value(r) = PackedRefs[r]
      <4>1. r \in Path /\ IsRefName(r) /\ IsClear(files, c, r) /\ IsLinked
        BY RefsLink DEF Located, GoodFiles, IsLinked
      <4>2. Loose(r) \notin DOMAIN files
        BY <2>2, <4>1 DEF IsClear, IsLinked, LooseIn, Loose
      <4>3. QED
        BY <2>2, <4>2 DEF Refs, Value, IsFile
    <3>2. QED
      BY <1>1, <3>1 DEF Settled, WatchInv
  <2>3. QED
    BY <2>1, <2>2
<1>11. QED
  BY <1>1, <1>2, <1>3, <1>8, <1>9, <1>10 DEF ScanInv, Same

\* The elements of sequences.
LEMMA ElementFacts ==
  /\ \A q, t : IsSeq(q) /\ IsSeq(t) => ToSet(q \o t) = ToSet(q) \cup ToSet(t)
  /\ \A q : IsSeq(q) /\ q # << >> => IsSeq(Tail(q)) /\ ToSet(q) = {Head(q)} \cup ToSet(Tail(q))
<1>1. ASSUME NEW q, NEW t, IsSeq(q), IsSeq(t) PROVE ToSet(q \o t) = ToSet(q) \cup ToSet(t)
  <2>1. PICK X : q \in Seq(X) /\ t \in Seq(X)
    BY <1>1, OneSet
  <2>2. /\ Len(q) \in Nat /\ Len(t) \in Nat /\ DOMAIN q = 1 .. Len(q) /\ DOMAIN t = 1 .. Len(t)
        /\ DOMAIN (q \o t) = 1 .. Len(q) + Len(t)
        /\ \A i \in 1 .. Len(q) + Len(t) :
             (q \o t)[i] = IF i <= Len(q) THEN q[i] ELSE t[i - Len(q)]
    BY <2>1
  <2> DEFINE w == q \o t
  <2> HIDE DEF w
  <2>3. ASSUME NEW i \in DOMAIN w PROVE w[i] \in ToSet(q) \cup ToSet(t)
    BY <2>2 DEF ToSet, w
  <2>4. ASSUME NEW i \in DOMAIN q PROVE q[i] \in ToSet(w)
    BY <2>2 DEF ToSet, w
  <2>5. ASSUME NEW i \in DOMAIN t PROVE t[i] \in ToSet(w)
    <3>1. Len(q) + i \in DOMAIN w /\ w[Len(q) + i] = t[i]
      BY <2>2 DEF w
    <3>2. QED
      BY <3>1 DEF ToSet
  <2>6. QED
    BY <2>3, <2>4, <2>5 DEF ToSet, w
<1>2. ASSUME NEW q, IsSeq(q), q # << >>
      PROVE  IsSeq(Tail(q)) /\ ToSet(q) = {Head(q)} \cup ToSet(Tail(q))
  <2>1. PICK X : q \in Seq(X)
    BY <1>2 DEF IsSeq
  <2>2. /\ Tail(q) \in Seq(X) /\ Len(q) \in Nat /\ Len(q) > 0 /\ DOMAIN q = 1 .. Len(q)
        /\ DOMAIN Tail(q) = 1 .. Len(q) - 1 /\ Head(q) = q[1]
        /\ \A i \in 1 .. Len(q) - 1 : Tail(q)[i] = q[i + 1]
    BY <1>2, <2>1
  <2> DEFINE w == Tail(q)
  <2> HIDE DEF w
  <2>3. ASSUME NEW i \in DOMAIN w PROVE w[i] \in ToSet(q)
    BY <2>2 DEF ToSet, w
  <2>4. ASSUME NEW i \in DOMAIN q PROVE q[i] = Head(q) \/ q[i] \in ToSet(w)
    <3>1. i # 1 => i - 1 \in DOMAIN w /\ w[i - 1] = q[i]
      BY <2>2 DEF w
    <3>2. QED
      BY <2>2, <3>1 DEF ToSet
  <2>5. Head(q) \in ToSet(q)
    BY <2>2 DEF ToSet
  <2>6. ToSet(q) = {Head(q)} \cup ToSet(w)
    BY <2>3, <2>4, <2>5 DEF ToSet
  <2>7. QED
    BY <2>2, <2>6 DEF IsSeq, w
<1>3. QED
  BY <1>1, <1>2

\* A set in some order.
LEMMA SetToSeqFacts ==
  ASSUME NEW S, IsFiniteSet(S)
  PROVE  IsSeq(SetToSeq(S)) /\ ToSet(SetToSeq(S)) = S
<1> DEFINE n == Cardinality(S)
           g == SetToSeq(S)
<1>1. n \in Nat /\ ExistsBijection(1 .. n, S)
  BY FS_CardinalityType
<1>2. \E f \in [1 .. n -> S] : IsInjective(f)
  BY <1>1 DEF ExistsBijection, Bijection, Injection
<1>3. g \in [1 .. n -> S] /\ IsInjective(g)
  BY <1>2, Zenon DEF SetToSeq
<1> HIDE DEF g
<1>4. g \in Injection(1 .. n, S)
  BY <1>3 DEF Injection
<1>5. Cardinality(1 .. n) = n
  BY <1>1, FS_Interval
<1>6. g \in Surjection(1 .. n, S)
  BY <1>4, <1>5, FS_Injection
<1>7. ToSet(g) = S
  BY <1>3, <1>6 DEF ToSet, Surjection
<1>8. g \in Seq(S)
  BY <1>1, <1>3
<1>9. QED
  BY <1>7, <1>8 DEF IsSeq, g

\* A directory is read.
LEMMA ReadDirFacts ==
  ASSUME Located, NEW e, IsEntry(e)
  PROVE  /\ IsSeq(ReadDir(e)) /\ \A x \in ToSet(ReadDir(e)) : IsEntry(x)
         /\ IsDir(e.dir \o e.path) =>
              \A p \in DOMAIN files :
                Len(p) = Len(e.dir) + Len(e.path) + 1 /\ IsPrefix(e.dir \o e.path, p) =>
                  Entry(e.dir, Append(e.path, p[Len(p)])) \in ToSet(ReadDir(e))
<1> DEFINE below == { p \in DOMAIN files : Len(p) = Len(e.dir) + Len(e.path) + 1
                                           /\ IsPrefix(e.dir \o e.path, p) }
           new == { Entry(e.dir, Append(e.path, p[Len(p)])) : p \in below }
<1>1. /\ IsFiniteSet(DOMAIN files) /\ DOMAIN files \subseteq Path
      /\ e.path \in Path /\ e.dir \in Path
  BY DEF Located, GoodFiles, IsEntry
<1>2. IsFiniteSet(new)
  <2>1. IsFiniteSet(below)
    BY <1>1, FS_Subset
  <2> DEFINE f == [p \in below |-> Entry(e.dir, Append(e.path, p[Len(p)]))]
  <2>2. f \in Surjection(below, new)
    BY DEF Surjection
  <2> HIDE DEF f, new, below
  <2>3. QED
    BY <2>1, <2>2, FS_Surjection
<1>3. ReadDir(e) = IF IsDir(e.dir \o e.path) THEN SetToSeq(new) ELSE << >>
  BY Zenon DEF ReadDir
<1>4. ASSUME NEW x \in new PROVE IsEntry(x)
  <2>1. PICK p \in below : x = Entry(e.dir, Append(e.path, p[Len(p)]))
    BY <1>4
  <2> DEFINE q == Append(e.path, p[Len(p)])
  <2>2. p \in Path /\ Len(p) >= 1 /\ Len(p) \in Nat
    <3>1. p \in Path /\ Len(p) = Len(e.dir) + Len(e.path) + 1
      BY <1>1, <2>1
    <3>2. Len(e.dir) \in Nat /\ Len(e.path) \in Nat
      BY <1>1, PathFacts
    <3>3. p \in Path /\ Len(p) \in Nat
      BY <3>1, PathFacts
    <3> DEFINE a == e.dir
               b == e.path
    <3> HIDE DEF a, b
    <3>4. Len(p) = Len(a) + Len(b) + 1 /\ Len(a) \in Nat /\ Len(b) \in Nat
      BY <3>1, <3>2, Zenon DEF a, b
    <3>5. Len(p) # 0
      BY <3>4
    <3>6. QED
      BY <3>3, <3>5
  <2>3. p[Len(p)] \in Component
    <3>1. Len(p) \in 1 .. Len(p)
      BY <2>2
    <3>2. QED
      BY <2>2, <3>1, PathFacts
  <2>4. q \in Path /\ IsRefName(q)
    <3> DEFINE a == e.path
               y == p[Len(p)]
    <3>1. a \in Seq(Component) /\ y \in Component /\ a # << >> /\ a[1] = "refs"
      BY <1>1, <2>3 DEF Path, IsEntry, IsRefName
    <3> HIDE DEF a, y
    <3>2. Append(a, y) \in Seq(Component) /\ Append(a, y) # << >> /\ Append(a, y)[1] = a[1]
      BY <3>1
    <3>3. QED
      BY <3>1, <3>2 DEF Path, IsRefName, a, y
  <2> HIDE DEF q
  <2>5. x.dir = e.dir /\ x.path = q
    BY <2>1 DEF Entry, q
  <2>6. QED
    BY <2>4, <2>5 DEF IsEntry
<1>5. CASE IsDir(e.dir \o e.path)
  <2>1. IsSeq(SetToSeq(new)) /\ ToSet(SetToSeq(new)) = new
    <3> HIDE DEF new
    <3>1. QED
      BY <1>2, SetToSeqFacts
  <2>2. ReadDir(e) = SetToSeq(new)
    BY <1>3, <1>5
  <2>3. \A p \in DOMAIN files :
          Len(p) = Len(e.dir) + Len(e.path) + 1 /\ IsPrefix(e.dir \o e.path, p) =>
            Entry(e.dir, Append(e.path, p[Len(p)])) \in new
    OBVIOUS
  <2> HIDE DEF new
  <2>4. QED
    BY <1>4, <2>1, <2>2, <2>3
<1>6. CASE ~IsDir(e.dir \o e.path)
  <2>1. ReadDir(e) = << >> /\ ToSet(<< >>) = {}
    BY <1>3, <1>6 DEF ToSet
  <2>2. QED
    BY <1>6, <2>1, ShortSeqs
<1>7. QED
  BY <1>5, <1>6

\* One more name of a path.
LEMMA NextStart ==
  ASSUME NEW c \in Path, NEW r \in Path, NEW k \in 1 .. Len(r) - 1
  PROVE  LET a == SubSeq(r, 1, k)
             q == SubSeq(r, 1, k + 1)
             p == c \o q
         IN  /\ Len(p) = Len(c) + Len(a) + 1 /\ IsPrefix(c \o a, p)
             /\ Append(a, p[Len(p)]) = q
<1> DEFINE a == SubSeq(r, 1, k)
           q == SubSeq(r, 1, k + 1)
           p == c \o q
           w == c \o a
           z == Append(a, p[Len(p)])
<1>1. Len(r) \in Nat /\ Len(c) \in Nat /\ k \in 1 .. Len(r) /\ k + 1 \in 1 .. Len(r) /\ k \in Nat
  BY PathFacts
<1>2. a \in Path /\ Len(a) = k /\ \A i \in 1 .. k : a[i] = r[i]
  BY <1>1, StartFacts
<1>3. q \in Path /\ Len(q) = k + 1 /\ \A i \in 1 .. k + 1 : q[i] = r[i]
  BY <1>1, StartFacts
<1> HIDE DEF a, q
<1>4. /\ p \in Path /\ Len(p) = Len(c) + k + 1 /\ \A i \in 1 .. Len(c) : p[i] = c[i]
      /\ \A i \in 1 .. k + 1 : p[Len(c) + i] = r[i]
  <2>1. /\ p \in Path /\ Len(p) = Len(c) + Len(q) /\ \A i \in 1 .. Len(c) : p[i] = c[i]
        /\ \A i \in 1 .. Len(q) : p[Len(c) + i] = q[i]
    BY <1>3, PathFacts
  <2> HIDE DEF p
  <2>2. QED
    BY <1>1, <1>3, <2>1
<1>5. /\ w \in Path /\ Len(w) = Len(c) + k /\ \A i \in 1 .. Len(c) : w[i] = c[i]
      /\ \A i \in 1 .. k : w[Len(c) + i] = r[i]
  <2>1. /\ w \in Path /\ Len(w) = Len(c) + Len(a) /\ \A i \in 1 .. Len(c) : w[i] = c[i]
        /\ \A i \in 1 .. Len(a) : w[Len(c) + i] = a[i]
    BY <1>2, PathFacts
  <2> HIDE DEF w
  <2>2. QED
    BY <1>1, <1>2, <2>1
<1> HIDE DEF p, w
<1>6. IsPrefix(w, p)
  <2>1. ASSUME NEW i \in 1 .. Len(c) + k PROVE w[i] = p[i]
    <3>1. CASE i <= Len(c)
      BY <1>1, <1>4, <1>5, <3>1
    <3>2. CASE i > Len(c)
      <4>1. i - Len(c) \in 1 .. k /\ i - Len(c) \in 1 .. k + 1 /\ i = Len(c) + (i - Len(c))
        BY <1>1, <3>2
      <4>2. QED
        BY <1>4, <1>5, <4>1
    <3>3. QED
      BY <1>1, <3>1, <3>2
  <2>2. Len(w) <= Len(p) /\ \A i \in 1 .. Len(w) : w[i] = p[i]
    BY <1>1, <1>4, <1>5, <2>1
  <2>3. QED
    BY <1>4, <1>5, <2>2, PrefixFacts
<1>7. z = q
  <2>1. p[Len(p)] = r[k + 1] /\ r[k + 1] \in Component
    <3>1. k + 1 \in 1 .. k + 1 /\ Len(p) = Len(c) + (k + 1)
      BY <1>1, <1>4
    <3>2. r[k + 1] \in Component
      BY <1>1, PathFacts
    <3>3. QED
      BY <1>4, <3>1, <3>2
  <2>2. z = Append(a, r[k + 1])
    BY <2>1
  <2>3. a \in Seq(Component)
    BY <1>2 DEF Path
  <2>4. z \in Path /\ Len(z) = k + 1 /\ (\A i \in 1 .. k : z[i] = a[i]) /\ z[k + 1] = r[k + 1]
    BY <1>1, <1>2, <2>1, <2>2, <2>3, AppendProperties DEF Path
  <2> HIDE DEF z
  <2>5. \A i \in 1 .. k + 1 : z[i] = q[i]
    BY <1>1, <1>2, <1>3, <2>4
  <2>6. QED
    BY <1>3, <2>4, <2>5, PathEqual
<1>8. Len(p) = Len(c) + Len(a) + 1
  BY <1>2, <1>4
<1>9. QED
  BY <1>6, <1>7, <1>8 DEF a, q, p, w

\* A directory on the way to a reference is replaced by entries of which one goes on.
LEMMA DirGoesOn ==
  ASSUME Located, NEW e, IsEntry(e), NEW r \in LooseRefs, Covers(e, r), e.isDir
  PROVE  \E x \in ToSet(ReadDir(e)) : Covers(x, r)
<1> DEFINE c == repo.commonGitDir
           k == Len(e.path)
           a == SubSeq(r, 1, k)
           q == SubSeq(r, 1, k + 1)
           p == c \o q
<1>1. e.dir = c /\ k \in 1 .. Len(r) /\ e.path = a /\ k < Len(r)
  BY DEF Covers
<1>2. r \in Path /\ Len(r) \in Nat /\ c \in Path
  BY LooseIsThere DEF Located
<1>3. k \in 1 .. Len(r) - 1 /\ k + 1 \in 1 .. Len(r)
  BY <1>1, <1>2
<1>4. IsDir(e.dir \o e.path)
  <2>1. Loose(a) \in DOMAIN files /\ files[Loose(a)].kind = "dir"
    BY <1>3, LooseIsThere
  <2>2. QED
    BY <1>1, <2>1 DEF IsDir, Loose
<1>5. p \in DOMAIN files
  <2>1. CASE k + 1 < Len(r)
    <3>1. k + 1 \in 1 .. Len(r) - 1
      BY <1>2, <1>3, <2>1
    <3>2. Loose(q) \in DOMAIN files
      BY <3>1, LooseIsThere
    <3>3. QED
      BY <3>2 DEF Loose
  <2>2. CASE k + 1 = Len(r)
    <3>1. q = r
      BY <1>2, <2>2, SubSeqFull DEF Path
    <3>2. QED
      BY <3>1, LooseIsThere DEF Loose
  <2>3. QED
    BY <1>2, <1>3, <2>1, <2>2
<1>6. Len(p) = Len(c) + Len(a) + 1 /\ IsPrefix(c \o a, p) /\ Append(a, p[Len(p)]) = q
  BY <1>2, <1>3, NextStart
<1> HIDE DEF k, a, q, p
<1>7. Entry(e.dir, Append(e.path, p[Len(p)])) \in ToSet(ReadDir(e))
  <2>1. Len(p) = Len(e.dir) + Len(e.path) + 1 /\ IsPrefix(e.dir \o e.path, p)
    BY <1>1, <1>6
  <2>2. QED
    BY <1>4, <1>5, <2>1, ReadDirFacts
<1>8. Entry(c, q) \in ToSet(ReadDir(e))
  BY <1>1, <1>6, <1>7
<1>9. Covers(Entry(c, q), r)
  BY <1>3, StartCovers DEF q
<1>10. QED
  BY <1>8, <1>9

\* An entry is looked at.
LEMMA ScanEntryStep ==
  ASSUME Located, WatchInv, ScanInv, ScanEntry
  PROVE  Located' /\ WatchInv' /\ CallInv' /\ ScanInv' /\ reading' = "scan"
<1> DEFINE c == repo.commonGitDir
           e == Head(scan)
           p == e.dir \o e.path
<1>1. /\ reading = "scan" /\ reading' = "scan" /\ scan # << >>
      /\ UNCHANGED << files, repo, look, gitVars, had, pruned >>
  BY DEF ScanEntry, look
<1>2. Same
  BY <1>1, NothingMoves DEF gitVars
<1>3. Located' /\ WatchInv' /\ CallInv'
  BY <1>1, <1>2 DEF Same, WatchInv, CallInv
<1>4. /\ IsSeq(scan) /\ (\A x \in ToSet(scan) : IsEntry(x))
      /\ \A r \in Refs \ pruned : Settled(r) \/ Covered(r)
  BY <1>1 DEF ScanInv
<1>5. IsSeq(Tail(scan)) /\ ToSet(scan) = {e} \cup ToSet(Tail(scan))
  BY <1>1, <1>4, ElementFacts
<1>6. IsEntry(e)
  BY <1>4, <1>5
<1>7. \A x : IsEntry(x)' <=> IsEntry(x)
  BY <1>1 DEF IsEntry
<1>8. \A x, r : Covers(x, r)' <=> Covers(x, r)
  BY <1>1 DEF Covers
<1>9. \/ e.isDir /\ scan' = ReadDir(e) \o Tail(scan) /\ UNCHANGED listed
      \/ ~e.isDir /\ scan' = Tail(scan)
         /\ listed' = IF IsFile(p) /\ files[p].kind = "oid"
                      THEN List(e.path, files[p].oid) ELSE listed
  BY Zenon DEF ScanEntry
<1> HIDE DEF e, p
<1>10. CASE e.isDir /\ scan' = ReadDir(e) \o Tail(scan) /\ UNCHANGED listed
  <2>1. IsSeq(ReadDir(e)) /\ \A x \in ToSet(ReadDir(e)) : IsEntry(x)
    BY <1>6, ReadDirFacts
  <2>2. IsSeq(scan') /\ ToSet(scan') = ToSet(ReadDir(e)) \cup ToSet(Tail(scan))
    BY <1>5, <1>10, <2>1, ElementFacts, SeqFacts
  <2>3. \A x \in ToSet(scan') : IsEntry(x)'
    BY <1>4, <1>5, <1>7, <2>1, <2>2
  <2>4. ASSUME NEW r \in Refs \ pruned PROVE Settled(r)' \/ Covered(r)'
    <3>1. CASE Settled(r)
      BY <1>1, <1>2, <1>10, <3>1 DEF Settled, Same
    <3>2. CASE Covered(r)
      <4>1. PICK x \in ToSet(scan) : Covers(x, r)
        BY <3>2 DEF Covered
      <4>2. r \in LooseRefs /\ r \in LooseRefs'
        BY <1>2, <3>2 DEF Covered, Same
      <4>3. \E y \in ToSet(scan') : Covers(y, r)
        BY <1>5, <1>6, <1>10, <2>2, <4>1, <4>2, DirGoesOn
      <4>4. QED
        BY <1>8, <4>2, <4>3 DEF Covered
    <3>3. QED
      BY <1>4, <3>1, <3>2
  <2>5. QED
    BY <1>1, <1>2, <1>3, <2>2, <2>3, <2>4 DEF ScanInv, Same
<1>11. CASE ~e.isDir /\ scan' = Tail(scan)
            /\ listed' = IF IsFile(p) /\ files[p].kind = "oid"
                         THEN List(e.path, files[p].oid) ELSE listed
  <2>1. IsSeq(scan') /\ ToSet(scan') = ToSet(Tail(scan))
    BY <1>5, <1>11
  <2>2. \A x \in ToSet(scan') : IsEntry(x)'
    BY <1>4, <1>5, <1>7, <2>1
  <2>3. ASSUME NEW r \in Refs \ pruned PROVE Settled(r)' \/ Covered(r)'
    <3>1. ASSUME Covers(e, r), r \in LooseRefs
          PROVE  r = e.path /\ IsFile(p) /\ files[p].kind = "oid"
      <4>1. r \in Path /\ Len(r) \in Nat /\ Loose(r) \in DOMAIN files /\ files[Loose(r)].kind = "oid"
        BY <3>1, LooseIsThere
      <4>2. e.dir = c /\ Len(e.path) = Len(r) /\ e.path = SubSeq(r, 1, Len(r))
        BY <1>11, <3>1, <4>1 DEF Covers
      <4>3. e.path = r
        BY <4>1, <4>2, SubSeqFull DEF Path
      <4>4. p = Loose(r)
        BY <4>2, <4>3 DEF p, Loose
      <4>5. QED
        BY <4>1, <4>3, <4>4 DEF IsFile
    <3>2. CASE r = e.path /\ IsFile(p) /\ files[p].kind = "oid"
      <4>1. listed'[r] = files[p].oid /\ r \in DOMAIN listed'
        BY <1>11, <3>2 DEF List, With
      <4>2. files[p].oid \in had[r] \/ files[p].oid \in Own(r)
        <5>1. IsSeq(r) /\ e.dir \in {repo.gitDir, c} /\ e.dir \o r = p
          BY <1>6, <3>2, SeqFacts DEF IsEntry, p
        <5>2. QED
          BY <1>1, <3>2, <5>1, FileIsAlive DEF IsFile
      <4>3. QED
        BY <1>1, <1>2, <4>1, <4>2 DEF Settled, Same
    <3>3. CASE ~(r = e.path /\ IsFile(p) /\ files[p].kind = "oid")
      <4>1. CASE Settled(r)
        <5>1. r \in DOMAIN listed' /\ listed'[r] = listed[r]
          BY <1>11, <3>3, <4>1 DEF List, With, Settled
        <5>2. QED
          BY <1>1, <1>2, <4>1, <5>1 DEF Settled, Same
      <4>2. CASE Covered(r)
        <5>1. PICK x \in ToSet(scan) : Covers(x, r)
          BY <4>2 DEF Covered
        <5>2. r \in LooseRefs /\ r \in LooseRefs'
          BY <1>2, <4>2 DEF Covered, Same
        <5>3. x \in ToSet(scan')
          BY <1>5, <2>1, <3>1, <3>3, <5>1, <5>2
        <5>4. QED
          BY <1>8, <5>1, <5>2, <5>3 DEF Covered
      <4>3. QED
        BY <1>4, <4>1, <4>2
    <3>4. QED
      BY <3>2, <3>3
  <2>4. QED
    BY <1>1, <1>2, <1>3, <2>1, <2>2, <2>3 DEF ScanInv, Same
<1>12. QED
  BY <1>9, <1>10, <1>11

\* HEAD is next, and the references are watched anew.
LEMMA ScanDoneStep ==
  ASSUME Located, ScanDone
  PROVE  /\ Located' /\ WatchInv' /\ CallInv' /\ ResolvesToALiveValue'
         /\ reading' \in {"none", "loose"}
<1>1. /\ Resolve(HeadRev, 0) /\ Watch /\ UNCHANGED << files, repo, listed, scan, gitVars >>
  BY DEF ScanDone, HeadRev
<1>2. Same
  BY <1>1, NothingMoves DEF gitVars
<1>3. Located' /\ WatchInv'
  BY <1>1, <1>2 DEF Same, Watch, WatchInv
<1>4. IsSeq(HeadRev.base)
  BY ShortSeqs DEF HeadRev
<1>5. Begun
  BY <1>1, <1>4, ResolveFacts
<1>6. QED
  BY <1>3, <1>5, BegunFacts

-----------------------------------------------------------------------------
(* The invariant.                                                          *)

\* Before the repository is looked for.
StartInv ==
  phase = "start" =>
    /\ reading = "none" /\ answer = << >> /\ unpruned = {}
    /\ IsFileSystem(files) /\ in.start \in Path
    /\ in.gitDir # << >> => in.gitDir[1].abs \in BOOLEAN /\ in.gitDir[1].to \in Path

Inv ==
  /\ CmdInv /\ Nameable(todo) /\ StartInv
  /\ phase # "start" => stage = "accepted"
  /\ phase \in {"resolve", "more"} \/ reading # "none" \/ answer # << >> => Located
  /\ WatchInv /\ CallInv /\ ScanInv
  /\ ResolvesToALiveValue

\* The invariant holds before anything is done ...
LEMMA InitInv ==
  Init => Inv
<1> SUFFICES ASSUME Init PROVE Inv
  OBVIOUS
<1>1. PICK g \in Input : CmdInit(g.args) /\ files = g.files
                         /\ in = [start |-> g.start, gitDir |-> g.gitDir, busy |-> g.busy]
  BY DEF Init
<1>2. IsInput(g) /\ IsFileSystem(files)
  BY <1>1, InputAssumption, FilesAssumption
<1>3. phase = "start" /\ reading = "none" /\ answer = << >> /\ unpruned = {} /\ todo = << >>
  BY DEF Init
<1>4. CmdInv
  <2>1. IsCfg(Defaults)
    <3>1. "Branches" \in DOMAIN Defaults /\ Defaults["Branches"] = << >>
      BY DEF Defaults
    <3>2. Defaults = [f \in DOMAIN Defaults |-> Defaults[f]]
      BY DEF Defaults
    <3>3. Defaults \in [DOMAIN Defaults -> { Defaults[f] : f \in DOMAIN Defaults }]
      BY <3>2
    <3>4. QED
      BY <3>1, <3>3, ShortSeqs DEF IsCfg
  <2>2. args = g.args /\ at = 1 /\ cfg = Defaults /\ stage = "args"
    BY <1>1 DEF CmdInit
  <2>3. QED
    BY <1>2, <2>1, <2>2 DEF CmdInv, IsInput
<1>5. StartInv
  <2>1. g.start \in Path
    BY <1>2, StringPaths DEF IsInput
  <2>2. g.gitDir # << >> => g.gitDir[1].abs \in BOOLEAN /\ g.gitDir[1].to \in Seq(STRING)
    <3>1. g.gitDir \in Seq([abs : BOOLEAN, to : Seq(STRING)])
      BY <1>2 DEF IsInput
    <3> DEFINE d == g.gitDir
    <3>2. d # << >> => d[1] \in [abs : BOOLEAN, to : Seq(STRING)]
      <4>1. d \in Seq([abs : BOOLEAN, to : Seq(STRING)])
        BY <3>1
      <4> HIDE DEF d
      <4>2. d # << >> => 1 \in 1 .. Len(d)
        BY <4>1
      <4>3. QED
        BY <4>1, <4>2, ElementOfSeq
    <3>3. QED
      BY <3>2, Zenon
  <2>3. in.start = g.start /\ in.gitDir = g.gitDir
    BY <1>1
  <2>4. in.gitDir # << >> => in.gitDir[1].abs \in BOOLEAN /\ in.gitDir[1].to \in Path
    BY <2>2, <2>3, StringPaths
  <2>5. in.start \in Path
    BY <2>1, <2>3
  <2>6. QED
    BY <1>2, <1>3, <2>4, <2>5 DEF StartInv
<1>6. Nameable(todo)
  <2>1. IsSeq(<< >>)
    BY ShortSeqs, Zenon
  <2>2. DOMAIN << >> = {}
    OBVIOUS
  <2>3. QED
    BY <1>3, <2>1, <2>2 DEF Nameable
<1>7. WatchInv /\ CallInv /\ ScanInv /\ ResolvesToALiveValue
  BY <1>3 DEF WatchInv, CallInv, ScanInv, ResolvesToALiveValue
<1>8. QED
  BY <1>3, <1>4, <1>5, <1>6, <1>7 DEF Inv

\* Nothing is read or written.
LEMMA Frame ==
  ASSUME Inv, UNCHANGED << files, repo, reading, call, listed, scan, unpruned, had, pruned >>
  PROVE  /\ Located => Located'
         /\ WatchInv' /\ CallInv' /\ ScanInv'
         /\ answer' = answer => ResolvesToALiveValue'
<1>1. Located => Same
  BY NothingMoves
<1>2. Located => Located'
  BY <1>1 DEF Same
<1>3. CASE reading # "none" \/ answer # << >>
  <2>1. Located /\ Same
    BY <1>1, <1>3 DEF Inv
  <2>2. WatchInv'
    BY <2>1 DEF Inv, WatchInv, Same
  <2>3. CallInv'
    BY <2>1 DEF Inv, CallInv, IsCall, Same, Passed
  <2>4. ScanInv'
    <3>1. \A x, r : Covers(x, r)' <=> Covers(x, r)
      BY DEF Covers
    <3>2. \A x : IsEntry(x)' <=> IsEntry(x)
      BY DEF IsEntry
    <3>3. \A r : (Settled(r) => Settled(r)') /\ (Covered(r) => Covered(r)')
      BY <2>1, <3>1 DEF Settled, Covered, Same
    <3>4. QED
      BY <2>1, <3>2, <3>3 DEF Inv, ScanInv, Same
  <2>5. answer' = answer => ResolvesToALiveValue'
    <3> DEFINE live == UNION { had[s] : s \in ToSet(call.cands) \cap DOMAIN had }
               own  == UNION { Own(s) : s \in ToSet(call.cands) }
    <3>1. own' = own /\ live' = live
      BY <2>1 DEF Same
    <3>2. QED
      BY <2>1, <3>1 DEF Inv, ResolvesToALiveValue, Same
  <2>6. QED
    BY <1>2, <2>2, <2>3, <2>4, <2>5
<1>4. CASE reading = "none" /\ answer = << >>
  BY <1>2, <1>4 DEF WatchInv, CallInv, ScanInv, ResolvesToALiveValue
<1>5. QED
  BY <1>3, <1>4

\* git moves, packs or removes.
LEMMA GitStepInv ==
  ASSUME Inv, GitStep
  PROVE  Inv'
<1>1. Git /\ UNCHANGED << cmdVars, in, phase, todo, include, exclude, dates >>
  BY DEF GitStep
<1>2. reading # "none" /\ phase # "start" /\ Located
  BY <1>1 DEF Git, Inv, StartInv
<1>3. /\ Located' /\ WatchInv' /\ Refs' = Refs /\ \A r \in Refs : GitKeeps(r)
      /\ pruned \subseteq pruned'
      /\ UNCHANGED << repo, reading, call, answer, listed, scan >>
  BY <1>1, <1>2, GitFacts DEF Inv
<1>4. \A r : Passed(r) => Passed(r)'
  BY <1>3 DEF GitKeeps, Passed
<1>5. CallInv'
  <2>1. Dirs' = Dirs
    BY <1>3 DEF Dirs
  <2>2. reading = "loose" => IsCall(call)'
    BY <1>3, <2>1 DEF Inv, CallInv, IsCall
  <2>3. reading = "loose" => \A j \in 1 .. call.k - 1 : Passed(call.cands[j])'
    BY <1>3, <1>4 DEF Inv, CallInv, Passed
  <2>4. reading = "packed" => \A j \in 1 .. Len(call.cands) : Passed(call.cands[j])'
    BY <1>3, <1>4 DEF Inv, CallInv, Passed
  <2>5. QED
    BY <1>3, <2>2, <2>3, <2>4 DEF Inv, CallInv
<1>6. ScanInv'
  <2>1. \A x, r : Covers(x, r)' <=> Covers(x, r)
    BY <1>3 DEF Covers
  <2>2. \A x : IsEntry(x)' <=> IsEntry(x)
    BY <1>3 DEF IsEntry
  <2>3. ASSUME NEW r \in Refs \ pruned' PROVE (Settled(r) => Settled(r)') /\ (Covered(r) => Covered(r)')
    <3>1. GitKeeps(r)
      BY <1>3
    <3>2. QED
      BY <1>3, <2>1, <3>1 DEF GitKeeps, Settled, Covered
  <2>4. QED
    BY <1>3, <2>2, <2>3 DEF Inv, ScanInv
<1>7. ResolvesToALiveValue'
  BY <1>2, <1>3 DEF ResolvesToALiveValue
<1>8. CmdInv' /\ Nameable(todo)' /\ StartInv' /\ (phase' # "start" => stage' = "accepted")
  BY <1>1, <1>2 DEF Inv, cmdVars, CmdInv, Nameable, StartInv, IsCfg
<1>9. QED
  BY <1>3, <1>5, <1>6, <1>7, <1>8 DEF Inv

\* The command line is read before anything else.
LEMMA ParseStepInv ==
  ASSUME Inv, ParseStep
  PROVE  Inv'
<1>1. /\ phase = "start" /\ CmdNext
      /\ UNCHANGED << refVars, in, phase, todo, include, exclude, dates >>
  BY DEF ParseStep
<1>2. CmdInv'
  BY <1>1, CmdStep DEF Inv
<1>3. reading' = "none" /\ answer' = << >> /\ phase' = "start"
  BY <1>1 DEF Inv, StartInv, refVars, look
<1>4. StartInv'
  BY <1>1 DEF Inv, StartInv, refVars, look, gitVars, IsFileSystem, IsNode
<1>5. Nameable(todo)'
  BY <1>1 DEF Inv, Nameable
<1>6. WatchInv' /\ CallInv' /\ ScanInv' /\ ResolvesToALiveValue'
  BY <1>3 DEF WatchInv, CallInv, ScanInv, ResolvesToALiveValue
<1>7. QED
  BY <1>2, <1>3, <1>4, <1>5, <1>6 DEF Inv

\* The repository is found, or not.
LEMMA FindRepositoryInv ==
  ASSUME Inv, FindRepository
  PROVE  Inv'
<1> DEFINE found == Discover(in.start, in.gitDir)
<1>1. /\ phase = "start" /\ stage = "accepted"
      /\ \/ phase' = "failed" /\ UNCHANGED todo
         \/ found # << >> /\ phase' = "resolve" /\ repo' = found[1] /\ todo' = RevGoals
      /\ UNCHANGED << cmdVars, files, look, listed, scan, gitVars, had, pruned, in >>
  BY DEF FindRepository
<1>2. /\ reading' = "none" /\ answer' = << >> /\ unpruned' = {} /\ stage' = "accepted"
      /\ IsFileSystem(files)
  BY <1>1 DEF Inv, StartInv, look, gitVars, cmdVars
<1>3. CmdInv'
  BY <1>1 DEF Inv, CmdInv, cmdVars, IsCfg
<1>4. Nameable(todo)'
  <2>1. CASE UNCHANGED todo
    BY <2>1 DEF Inv, Nameable
  <2>2. CASE todo' = RevGoals
    BY <2>2, RevGoalsFacts DEF Nameable
  <2>3. QED
    BY <1>1, <2>1, <2>2
<1>5. phase' = "resolve" => Located'
  <2> SUFFICES ASSUME phase' = "resolve" PROVE Located'
    OBVIOUS
  <2>1. IsFound(found)
    BY <1>1, <1>2, DiscoverFacts DEF Inv, StartInv
  <2>2. found # << >> /\ repo' = found[1]
    BY <1>1
  <2> HIDE DEF found
  <2>3. /\ repo'.gitDir \in Path /\ repo'.commonGitDir \in Path
        /\ IsApart(repo'.gitDir, repo'.commonGitDir)
    BY <2>1, <2>2 DEF IsFound
  <2>4. GoodFiles(files', repo'.commonGitDir)
    BY <1>1, <1>2, <2>3, FileSystemIsGood
  <2>5. QED
    BY <1>2, <2>3, <2>4 DEF Located
<1>6. WatchInv' /\ CallInv' /\ ScanInv' /\ ResolvesToALiveValue'
  BY <1>2 DEF WatchInv, CallInv, ScanInv, ResolvesToALiveValue
<1>7. phase' \in {"failed", "resolve"}
  BY <1>1
<1>8. QED
  BY <1>2, <1>3, <1>4, <1>5, <1>6, <1>7 DEF Inv, StartInv

\* What the command line and the names to be resolved keep while neither is touched.
LEMMA RestIsKept ==
  ASSUME Inv, UNCHANGED << cmdVars, todo >>, phase # "start", phase' # "start"
  PROVE  CmdInv' /\ Nameable(todo)' /\ StartInv' /\ stage' = "accepted"
  BY DEF Inv, cmdVars, CmdInv, Nameable, StartInv, IsCfg

\* A name is looked up.
LEMMA ResolveNextInv ==
  ASSUME Inv, ResolveNext
  PROVE  Inv'
<1> DEFINE g == Head(todo)
           r == IF g.role = "branch" THEN g.rev ELSE Name(g.rev)
<1>1. /\ phase \in {"resolve", "more"} /\ reading = "none" /\ answer = << >> /\ todo # << >>
      /\ \/ Answer(Failed) /\ call' = [cands |-> << >>]
         \/ Resolve(r, 0)
      /\ Watch
      /\ UNCHANGED << cmdVars, files, repo, listed, scan, gitVars, in, phase, todo >>
  BY DEF ResolveNext
<1>2. Located /\ Same
  BY <1>1, NothingMoves DEF Inv, gitVars
<1>3. Located' /\ WatchInv'
  BY <1>1, <1>2 DEF Same, Watch, WatchInv
<1>4. IsSeq(r.base)
  <2>1. PICK X : todo \in Seq(X)
    BY DEF Inv, Nameable, IsSeq
  <2>2. 1 \in DOMAIN todo /\ g = todo[1]
    BY <1>1, <2>1
  <2>3. IsSeq(g.rev.base)
    BY <2>2 DEF Inv, Nameable
  <2> HIDE DEF g
  <2>4. QED
    BY <2>3 DEF Name
<1> HIDE DEF r
<1>5. Begun
  <2>1. CASE Answer(Failed) /\ call' = [cands |-> << >>]
    BY <2>1 DEF Answer, Failed, Begun
  <2>2. CASE Resolve(r, 0)
    BY <1>1, <1>4, <2>2, ResolveFacts
  <2>3. QED
    BY <1>1, <2>1, <2>2
<1>6. CallInv' /\ ResolvesToALiveValue' /\ reading' \in {"none", "loose"}
  BY <1>3, <1>5, BegunFacts
<1>7. ScanInv'
  BY <1>6 DEF ScanInv
<1>8. phase' \in {"resolve", "more"}
  BY <1>1
<1>9. QED
  BY <1>1, <1>3, <1>6, <1>7, <1>8, RestIsKept DEF Inv

\* An answer is used.
LEMMA TakeAnswerInv ==
  ASSUME Inv, TakeAnswer
  PROVE  Inv'
<1>1. /\ phase \in {"resolve", "more"} /\ todo # << >> /\ phase' \in {"failed", phase}
      /\ answer' = << >> /\ todo' = Tail(todo)
      /\ UNCHANGED << cmdVars, files, repo, reading, call, listed, scan, gitVars, had, pruned, in >>
  BY DEF TakeAnswer
<1>2. Located' /\ WatchInv' /\ CallInv' /\ ScanInv'
  BY <1>1, Frame DEF Inv, gitVars
<1>3. ResolvesToALiveValue'
  BY <1>1 DEF ResolvesToALiveValue
<1>4. Nameable(todo)'
  <2>1. PICK X : todo \in Seq(X)
    BY DEF Inv, Nameable, IsSeq
  <2>2. /\ Tail(todo) \in Seq(X)
        /\ \A i \in DOMAIN Tail(todo) : i + 1 \in DOMAIN todo /\ Tail(todo)[i] = todo[i + 1]
    BY <1>1, <2>1
  <2>3. QED
    BY <1>1, <2>2 DEF Inv, Nameable, IsSeq
<1>5. CmdInv' /\ StartInv' /\ stage' = "accepted"
  BY <1>1 DEF Inv, cmdVars, CmdInv, StartInv, IsCfg
<1>6. QED
  BY <1>2, <1>3, <1>4, <1>5 DEF Inv

\* The branches, or all references, come next.
LEMMA MoreTipsInv ==
  ASSUME Inv, MoreTips
  PROVE  Inv'
<1> DEFINE goals == [i \in DOMAIN cfg.Branches |-> Goal("branch", Revision(cfg.Branches[i])[1])]
<1>1. /\ phase = "resolve" /\ phase' = "more"
      /\ \/ reading' = "list" /\ Watch /\ UNCHANGED todo
         \/ todo' = goals /\ UNCHANGED << reading, had, pruned >>
      /\ UNCHANGED << cmdVars, files, repo, call, answer, listed, scan, gitVars, in >>
  BY DEF MoreTips
<1>2. Located /\ Same /\ stage = "accepted"
  BY <1>1, NothingMoves DEF Inv, gitVars
<1>3. Located'
  BY <1>2 DEF Same
<1>4. CmdInv' /\ StartInv' /\ stage' = "accepted"
  BY <1>1, <1>2 DEF Inv, cmdVars, CmdInv, StartInv, IsCfg
<1>5. CASE reading' = "list" /\ Watch /\ UNCHANGED todo
  <2>1. WatchInv'
    BY <1>2, <1>5 DEF Same, Watch, WatchInv
  <2>2. CallInv' /\ ScanInv' /\ ResolvesToALiveValue'
    BY <1>5 DEF CallInv, ScanInv, ResolvesToALiveValue
  <2>3. Nameable(todo)'
    BY <1>5 DEF Inv, Nameable
  <2>4. QED
    BY <1>1, <1>3, <1>4, <2>1, <2>2, <2>3 DEF Inv
<1>6. CASE todo' = goals /\ UNCHANGED << reading, had, pruned >>
  <2>1. Located' /\ WatchInv' /\ CallInv' /\ ScanInv' /\ ResolvesToALiveValue'
    BY <1>1, <1>2, <1>6, Frame DEF gitVars
  <2>2. IsSeq(cfg.Branches) /\ \A i \in DOMAIN cfg.Branches : Len(Revision(cfg.Branches[i])) = 1
    BY <1>2 DEF Inv, CmdInv, IsCfg
  <2>3. \A i \in DOMAIN cfg.Branches : IsSeq(goals[i].rev.base)
    <3>1. \A i \in DOMAIN cfg.Branches : IsSeq(Revision(cfg.Branches[i])[1].base)
      BY <2>2, RevisionFacts
    <3>2. \A i \in DOMAIN cfg.Branches : goals[i].rev = Revision(cfg.Branches[i])[1]
      BY Zenon DEF Goal
    <3>3. QED
      BY <3>1, <3>2
  <2>4. IsSeq(goals)
    <3> DEFINE b == cfg.Branches
               n == Len(b)
               R == { goals[i] : i \in DOMAIN b }
    <3>1. n \in Nat /\ DOMAIN b = 1 .. n
      <4> HIDE DEF b
      <4>1. QED
        BY <2>2 DEF IsSeq, b
    <3>2. \A i \in DOMAIN b : goals[i] \in R
      OBVIOUS
    <3>3. goals = [i \in 1 .. n |-> goals[i]]
      BY <3>1
    <3> HIDE DEF goals
    <3>4. goals \in [1 .. n -> R]
      BY <3>1, <3>2, <3>3
    <3> HIDE DEF n, R
    <3>5. goals \in Seq(R)
      BY <3>1, <3>4
    <3>6. QED
      BY <3>5 DEF IsSeq
  <2>5. DOMAIN goals = DOMAIN cfg.Branches
    OBVIOUS
  <2> HIDE DEF goals
  <2>6. Nameable(todo)'
    BY <1>6, <2>3, <2>4, <2>5 DEF Nameable
  <2>7. QED
    BY <1>1, <1>4, <2>1, <2>6 DEF Inv
<1>7. QED
  BY <1>1, <1>5, <1>6

\* All references become tips.
LEMMA TakeListedInv ==
  ASSUME Inv, TakeListed
  PROVE  Inv'
<1>1. /\ phase = "more" /\ answer' = << >> /\ phase' = "filter"
      /\ UNCHANGED << cmdVars, files, repo, reading, call, listed, scan, gitVars, had, pruned,
                      in, todo >>
  BY DEF TakeListed
<1>2. Located' /\ WatchInv' /\ CallInv' /\ ScanInv'
  BY <1>1, Frame DEF Inv, gitVars
<1>3. ResolvesToALiveValue'
  BY <1>1 DEF ResolvesToALiveValue
<1>4. QED
  BY <1>1, <1>2, <1>3, RestIsKept DEF Inv

\* The dates are parsed.
LEMMA SetFiltersInv ==
  ASSUME Inv, SetFilters
  PROVE  Inv'
<1>1. phase # "start" /\ phase' = "done" /\ UNCHANGED << cmdVars, refVars, in, todo >>
  BY DEF SetFilters
<1>2. (Located => Located') /\ WatchInv' /\ CallInv' /\ ScanInv' /\ ResolvesToALiveValue'
  BY <1>1, Frame DEF refVars, look, gitVars
<1>3. reading' = reading /\ answer' = answer
  BY <1>1 DEF refVars, look
<1>4. QED
  BY <1>1, <1>2, <1>3, RestIsKept DEF Inv

\* A file or a directory is read.
LEMMA RefStepInv ==
  ASSUME Inv, RefStep, UNCHANGED << cmdVars, in, phase, todo >>
  PROVE  Inv'
<1>1. reading # "none"
  BY DEF RefStep, ReadLoose, ReadPacked, ListPacked, ScanEntry, ScanDone
<1>2. Located /\ WatchInv /\ CallInv /\ ScanInv /\ phase # "start" /\ phase' # "start"
  BY <1>1 DEF Inv, StartInv
<1>3. Located' /\ WatchInv' /\ CallInv' /\ ScanInv' /\ ResolvesToALiveValue'
  <2>1. CASE ReadLoose
    BY <1>2, <2>1, ReadLooseStep DEF ScanInv
  <2>2. CASE ReadPacked
    BY <1>2, <2>2, ReadPackedStep DEF ScanInv
  <2>3. CASE ListPacked
    BY <1>2, <2>3, ListPackedStep DEF ResolvesToALiveValue
  <2>4. CASE ScanEntry
    BY <1>2, <2>4, ScanEntryStep DEF ResolvesToALiveValue
  <2>5. CASE ScanDone
    BY <1>2, <2>5, ScanDoneStep DEF ScanInv
  <2>6. QED
    BY <2>1, <2>2, <2>3, <2>4, <2>5 DEF RefStep
<1>4. QED
  BY <1>2, <1>3, RestIsKept DEF Inv

-----------------------------------------------------------------------------
(* The theorems.                                                           *)

\* ... and every step keeps it.
LEMMA NextInv ==
  Inv /\ [Next]_vars => Inv'
<1> SUFFICES ASSUME Inv, [Next]_vars PROVE Inv'
  OBVIOUS
<1>1. CASE ParseStep
  BY <1>1, ParseStepInv
<1>2. CASE FindRepository
  BY <1>2, FindRepositoryInv
<1>3. CASE ResolveNext
  BY <1>3, ResolveNextInv
<1>4. CASE TakeAnswer
  BY <1>4, TakeAnswerInv
<1>5. CASE RefStep /\ UNCHANGED << cmdVars, in, phase, todo, include, exclude, dates >>
  BY <1>5, RefStepInv
<1>6. CASE MoreTips
  BY <1>6, MoreTipsInv
<1>7. CASE TakeListed
  BY <1>7, TakeListedInv
<1>8. CASE SetFilters
  BY <1>8, SetFiltersInv
<1>9. CASE GitStep
  BY <1>9, GitStepInv
<1>10. CASE UNCHANGED vars
  <2>1. UNCHANGED << cmdVars, refVars, in, phase, todo >>
    BY <1>10 DEF vars
  <2>2. (Located => Located') /\ WatchInv' /\ CallInv' /\ ScanInv' /\ ResolvesToALiveValue'
    BY <2>1, Frame DEF refVars, look, gitVars
  <2>3. reading' = reading /\ answer' = answer
    BY <2>1 DEF refVars, look
  <2>4. CASE phase # "start"
    BY <2>1, <2>2, <2>3, <2>4, RestIsKept DEF Inv
  <2>5. CASE phase = "start"
    <3>1. StartInv'
      BY <2>1, <2>3 DEF Inv, StartInv, refVars, gitVars, IsFileSystem, IsNode
    <3>2. CmdInv' /\ Nameable(todo)' /\ (phase' # "start" => stage' = "accepted")
      BY <2>1, <2>5 DEF Inv, cmdVars, CmdInv, Nameable, IsCfg
    <3>3. QED
      BY <2>1, <2>2, <2>3, <3>1, <3>2 DEF Inv
  <2>6. QED
    BY <2>4, <2>5
<1>11. QED
  BY <1>1, <1>2, <1>3, <1>4, <1>5, <1>6, <1>7, <1>8, <1>9, <1>10 DEF Next

(* What is known of a call, of the references it has passed and of those   *)
(* it has still to look at, holds from the first read to the last.         *)
THEOREM CallsAreWatched == Spec => []Inv
<1>1. Init => Inv
  BY InitInv
<1>2. QED
  BY <1>1, NextInv, PTL DEF Spec

(* A name is resolved to a value that the reference has had since the call *)
(* began, whatever git moves, packs and removes meanwhile, and is unknown  *)
(* only if there is no such reference.  (ResolveRef, refs.go)              *)
THEOREM NamesResolveToLiveValues == Spec => []ResolvesToALiveValue
<1>1. Inv => ResolvesToALiveValue
  BY DEF Inv
<1>2. QED
  BY <1>1, CallsAreWatched, PTL

(* All references are listed with values that they have had since the call *)
(* began, but for those whose file was removed behind the reader's back.   *)
(* (ListAllRefs, refs.go)                                                  *)
THEOREM ListingMissesNothing == Spec => []ListsEveryRef
<1>1. Inv => ListsEveryRef
  <2> SUFFICES ASSUME Inv, reading = "scan", scan = << >>, NEW r \in DOMAIN had \ pruned
               PROVE  r \in DOMAIN listed /\ listed[r] \in had[r] \cup Own(r)
    BY DEF ListsEveryRef
  <2>1. r \in Refs \ pruned
    BY DEF Inv, WatchInv
  <2>2. ToSet(scan) = {}
    BY DEF ToSet
  <2>3. ~Covered(r)
    BY <2>2 DEF Covered
  <2>4. Settled(r)
    BY <2>1, <2>3 DEF Inv, ScanInv
  <2>5. QED
    BY <2>4 DEF Settled
<1>2. QED
  BY <1>1, CallsAreWatched, PTL

-----------------------------------------------------------------------------
(* The last flag about letter case.                                        *)

\* The configuration says so about case.
CaseIs(c, mode) ==
  /\ CaseFields \subseteq DOMAIN c /\ \E X : c \in [DOMAIN c -> X]
  /\ CASE mode = "ignore"    -> c["IgnoreCase"] = TRUE
       [] mode = "sensitive" -> c["IgnoreCase"] = FALSE /\ c["CaseSensitive"] = TRUE
       [] mode = "smart"     -> /\ c["IgnoreCase"] = FALSE /\ c["CaseSensitive"] = FALSE
                                /\ c["SmartCase"] = TRUE
       [] OTHER -> FALSE

\* Other fields do not matter.
LEMMA CaseStays ==
  ASSUME NEW c, NEW mode, CaseIs(c, mode), NEW a, a \notin CaseFields, NEW v
  PROVE  CaseIs([c EXCEPT ![a] = v], mode)
<1> DEFINE d == [c EXCEPT ![a] = v]
<1>1. PICK X : c \in [DOMAIN c -> X]
  BY DEF CaseIs
<1>2. d \in [DOMAIN c -> X \cup {v}] /\ DOMAIN d = DOMAIN c
  BY <1>1
<1>3. \A f \in CaseFields : d[f] = c[f]
  BY <1>1 DEF CaseIs
<1> HIDE DEF d
<1>4. \E Y : d \in [DOMAIN d -> Y]
  BY <1>2
<1>5. d["IgnoreCase"] = c["IgnoreCase"] /\ d["CaseSensitive"] = c["CaseSensitive"]
      /\ d["SmartCase"] = c["SmartCase"]
  BY <1>3 DEF CaseFields
<1>6. CaseIs(d, mode)
  BY <1>2, <1>4, <1>5 DEF CaseIs
<1>7. QED
  BY <1>6 DEF d

\* A flag about case is given, or taken back.
LEMMA CaseIsSet ==
  ASSUME NEW c, NEW m, CaseIs(c, m), NEW mode \in {"ignore", "sensitive", "smart"}
  PROVE  /\ CaseIs(SetCase(c, mode), mode)
         /\ CaseIs(ClearCase(c, mode), IF mode = "ignore" THEN "sensitive" ELSE m)
<1> DEFINE d == SetCase(c, mode)
           e == ClearCase(c, "ignore")
<1>1. PICK X : c \in [DOMAIN c -> X]
  BY DEF CaseIs
<1>2. "CaseMode" \in DOMAIN c /\ "CaseSensitive" \in DOMAIN c /\ "IgnoreCase" \in DOMAIN c
      /\ "SmartCase" \in DOMAIN c
  BY DEF CaseIs, CaseFields
<1>3. CaseIs(d, mode)
  <2>1. d \in [DOMAIN c -> X \cup BOOLEAN \cup {mode}] /\ DOMAIN d = DOMAIN c
    BY <1>1, <1>2 DEF SetCase
  <2>2. /\ d["CaseSensitive"] = (mode = "sensitive") /\ d["IgnoreCase"] = (mode = "ignore")
        /\ d["SmartCase"] = (mode = "smart")
    BY <1>1, <1>2 DEF SetCase
  <2>3. CaseFields \subseteq DOMAIN d /\ \E Y : d \in [DOMAIN d -> Y]
    BY <2>1 DEF CaseIs
  <2> HIDE DEF d
  <2>4. QED
    BY <2>2, <2>3 DEF CaseIs
<1>4. CaseIs(e, "sensitive")
  <2>1. e \in [DOMAIN c -> X \cup BOOLEAN \cup {"sensitive"}] /\ DOMAIN e = DOMAIN c
    BY <1>1, <1>2 DEF ClearCase
  <2>2. e["CaseSensitive"] = TRUE /\ e["IgnoreCase"] = FALSE
    BY <1>1, <1>2 DEF ClearCase
  <2>3. CaseFields \subseteq DOMAIN e /\ \E Y : e \in [DOMAIN e -> Y]
    BY <2>1 DEF CaseIs
  <2> HIDE DEF e
  <2>4. QED
    BY <2>2, <2>3 DEF CaseIs
<1>5. mode # "ignore" => ClearCase(c, mode) = c
  BY DEF ClearCase
<1>6. QED
  BY <1>3, <1>4, <1>5

\* What a boolean flag makes of it.
CaseAfter(m, name, on) ==
  IF name \notin DOMAIN CaseFlag THEN m
  ELSE IF on THEN CaseFlag[name] ELSE IF CaseFlag[name] = "ignore" THEN "sensitive" ELSE m

\* A boolean flag, as far as case is concerned.
LEMMA SwitchCase ==
  ASSUME NEW c, NEW m, CaseIs(c, m), NEW name \in Switches, NEW on \in BOOLEAN
  PROVE  CaseIs(Switch(c, name, on), CaseAfter(m, name, on))
<1>1. \A a, v : a \notin CaseFields => CaseIs([c EXCEPT ![a] = v], m)
  BY CaseStays
<1>2. CASE name \in DOMAIN Sets
  <2>1. Switch(c, name, on) = [c EXCEPT ![Sets[name]] = on]
    BY <1>2, FlagsApart, SMT DEF Switch
  <2>2. Sets[name] \notin CaseFields
    BY <1>2, SetsFacts
  <2>3. name \notin DOMAIN CaseFlag
    BY <1>2, FlagsApart
  <2>4. CaseIs([c EXCEPT ![Sets[name]] = on], m)
    BY <1>1, <2>2
  <2>5. QED
    BY <2>1, <2>3, <2>4 DEF CaseAfter
<1>3. CASE name \in DOMAIN Clears
  <2> DEFINE off == ~on
  <2>1. Switch(c, name, on) = [c EXCEPT ![Clears[name]] = off]
    BY <1>3, FlagsApart, SMT DEF Switch
  <2>2. Clears[name] \notin CaseFields
    BY <1>3, ClearsFacts
  <2>3. name \notin DOMAIN CaseFlag
    BY <1>3, FlagsApart
  <2> HIDE DEF off
  <2>4. CaseIs([c EXCEPT ![Clears[name]] = off], m)
    BY <1>1, <2>2
  <2>5. QED
    BY <2>1, <2>3, <2>4 DEF CaseAfter
<1>4. CASE name \in DOMAIN CaseFlag
  <2>1. CaseFlag[name] \in {"ignore", "sensitive", "smart"}
    BY <1>4, CaseFlagFacts
  <2>2. Switch(c, name, on) = IF on THEN SetCase(c, CaseFlag[name]) ELSE ClearCase(c, CaseFlag[name])
    BY <1>4, FlagsApart, SMT DEF Switch
  <2>3. QED
    BY <1>4, <2>1, <2>2, CaseIsSet DEF CaseAfter
<1>5. QED
  BY <1>2, <1>3, <1>4 DEF Switches

\* A flag with a value says nothing about case.
LEMMA SetValueCase ==
  ASSUME NEW c, NEW m, CaseIs(c, m), NEW name \in Valued, NEW v
  PROVE  CaseIs(SetValue(c, name, v), m)
<1>1. \A e, a, x : CaseIs(e, m) /\ a \notin CaseFields => CaseIs([e EXCEPT ![a] = x], m)
  BY CaseStays
<1>2. CASE name \in Counts
  <2> DEFINE n == Atoi[v.text]
             b == [c EXCEPT !["BeforeContext"] = n]
  <2>1. name \notin DOMAIN Takes /\ name \notin DOMAIN Adds
    BY <1>2, FlagsApart
  <2>2. \/ SetValue(c, name, v) = [b EXCEPT !["AfterContext"] = n]
        \/ SetValue(c, name, v) = [c EXCEPT !["AfterContext"] = n]
        \/ SetValue(c, name, v) = b
        \/ SetValue(c, name, v) = [c EXCEPT !["MaxCount"] = n]
    <3>1. \/ SetValue(c, name, v) = [c EXCEPT !.BeforeContext = Atoi[v.text],
                                             !.AfterContext = Atoi[v.text]]
          \/ SetValue(c, name, v) = [c EXCEPT !.AfterContext = Atoi[v.text]]
          \/ SetValue(c, name, v) = [c EXCEPT !.BeforeContext = Atoi[v.text]]
          \/ SetValue(c, name, v) = [c EXCEPT !.MaxCount = Atoi[v.text]]
      <4> HIDE DEF b, n
      <4>1. QED
        BY <1>2, <2>1, SMT DEF SetValue, Counts
    <3>2. QED
      BY <3>1
  <2>3. "BeforeContext" \notin CaseFields /\ "AfterContext" \notin CaseFields
        /\ "MaxCount" \notin CaseFields
    BY DEF CaseFields
  <2> HIDE DEF n
  <2>4. CaseIs(b, m)
    BY <1>1, <2>3
  <2> HIDE DEF b
  <2>5. CaseIs([b EXCEPT !["AfterContext"] = n], m) /\ CaseIs([c EXCEPT !["AfterContext"] = n], m)
        /\ CaseIs([c EXCEPT !["MaxCount"] = n], m)
    BY <1>1, <2>3, <2>4
  <2>6. QED
    BY <2>2, <2>4, <2>5
<1>3. CASE name \in DOMAIN Takes
  <2> DEFINE w == << v >>
  <2>1. SetValue(c, name, v) = [c EXCEPT ![Takes[name]] = w]
    BY <1>3, FlagsApart, SMT DEF SetValue, Counts
  <2>2. Takes[name] \notin CaseFields
    BY <1>3, TakesFacts
  <2> HIDE DEF w
  <2>3. CaseIs([c EXCEPT ![Takes[name]] = w], m)
    BY <1>1, <2>2
  <2>4. QED
    BY <2>1, <2>3
<1>4. CASE name \in DOMAIN Adds
  <2> DEFINE a == Adds[name]
             w == Append(c[a], v)
  <2>1. SetValue(c, name, v) = [c EXCEPT ![a] = w]
    BY <1>4, FlagsApart, SMT DEF SetValue, Counts
  <2>2. a \notin CaseFields
    BY <1>4, AddsFacts
  <2> HIDE DEF a, w
  <2>3. CaseIs([c EXCEPT ![a] = w], m)
    BY <1>1, <2>2
  <2>4. QED
    BY <2>1, <2>3
<1>5. QED
  BY <1>2, <1>3, <1>4 DEF Valued

\* The letters about case.
CaseLetter == {"i", "s", "S"}

\* One letter of a bundle.
LEMMA LetterCase ==
  ASSUME NEW c, NEW m, CaseIs(c, m), NEW f \in Letter \ Valued
  PROVE  CaseIs(SetLetter(c, f), IF f \in CaseLetter THEN CaseFlag[f] ELSE m)
<1>1. \A a, v : a \notin CaseFields => CaseIs([c EXCEPT ![a] = v], m)
  BY CaseStays
<1>2. CASE f \in {"h", "V"}
  <2>1. f \notin CaseLetter /\ "Help" \notin CaseFields /\ "Version" \notin CaseFields
    BY <1>2 DEF CaseLetter, CaseFields
  <2>2. SetLetter(c, f) = [c EXCEPT !["Help"] = TRUE] \/ SetLetter(c, f) = [c EXCEPT !["Version"] = TRUE]
    BY <1>2 DEF SetLetter
  <2>3. CaseIs([c EXCEPT !["Help"] = TRUE], m) /\ CaseIs([c EXCEPT !["Version"] = TRUE], m)
    BY <1>1, <2>1
  <2>4. QED
    BY <2>1, <2>2, <2>3
<1>3. CASE f \notin {"h", "V"}
  <2>1. SetLetter(c, f) = Switch(c, f, TRUE) /\ f \in Switches
    BY <1>3, LetterFacts DEF SetLetter
  <2>2. f \in DOMAIN CaseFlag <=> f \in CaseLetter
    BY CaseFlagFacts DEF Letter, CaseLetter
  <2>3. CaseAfter(m, f, TRUE) = IF f \in CaseLetter THEN CaseFlag[f] ELSE m
    BY <2>2 DEF CaseAfter
  <2>4. QED
    BY <2>1, <2>3, SwitchCase
<1>4. QED
  BY <1>2, <1>3

\* The last letter about case among the first k is at j.
IsLatest(switches, j, k) ==
  switches[j] \in CaseLetter /\ \A i \in j + 1 .. k : switches[i] \notin CaseLetter

\* In a bundle, the last one wins.
LEMMA BundleCase ==
  ASSUME NEW c, IsCfg(c), NEW m, CaseIs(c, m), NEW switches, Len(switches) \in Nat,
         \A k \in 1 .. Len(switches) : switches[k] \in Letter \ Valued
  PROVE  /\ (\A k \in 1 .. Len(switches) : switches[k] \notin CaseLetter)
              => CaseIs(Bundle(c, switches), m)
         /\ \A j \in 1 .. Len(switches) :
              IsLatest(switches, j, Len(switches))
                => CaseIs(Bundle(c, switches), CaseFlag[switches[j]])
<1> DEFINE N == Len(switches)
           Told(d, k) == /\ (\A i \in 1 .. k : switches[i] \notin CaseLetter) => CaseIs(d, m)
                         /\ \A j \in 1 .. k : IsLatest(switches, j, k) => CaseIs(d, CaseFlag[switches[j]])
<1> HIDE DEF Told
<1>1. PICK f : /\ f[0] = c /\ Bundle(c, switches) = f[Len(switches)]
               /\ \A k \in 1 .. Len(switches) : f[k] = SetLetter(f[k - 1], switches[k])
               /\ \A k \in 0 .. Len(switches) : IsCfg(f[k])
  BY BundleUnfolds
<1> USE DEF Told
<1> DEFINE G == { k \in 0 .. N : Told(f[k], k) /\ \E x : CaseIs(f[k], x) }
<1>2. ASSUME NEW n \in 0 .. N, \A k \in 0 .. N : k < n => k \in G PROVE n \in G
  <2>1. CASE n = 0
    BY <1>1, <2>1
  <2>2. CASE n # 0
    <3>1. n - 1 \in 0 .. N /\ n - 1 < n /\ n \in 1 .. N
      BY <2>2
    <3> DEFINE d == f[n - 1]
    <3>2. Told(d, n - 1) /\ \E x : CaseIs(d, x)
      BY <1>2, <3>1
    <3>3. f[n] = SetLetter(d, switches[n]) /\ switches[n] \in Letter \ Valued
      BY <1>1, <3>1
    <3>4. \A x : CaseIs(d, x) =>
            CaseIs(f[n], IF switches[n] \in CaseLetter THEN CaseFlag[switches[n]] ELSE x)
      BY <3>3, LetterCase
    <3> HIDE DEF d
    <3>5. CASE switches[n] \in CaseLetter
      <4>1. CaseIs(f[n], CaseFlag[switches[n]])
        BY <3>2, <3>4, <3>5
      <4>2. \A j \in 1 .. n : IsLatest(switches, j, n) => j = n
        <5>1. \A j \in 1 .. n : j # n => n \in j + 1 .. n
          BY <3>1
        <5>2. QED
          BY <3>5, <5>1 DEF IsLatest
      <4>3. n \in 1 .. n
        BY <3>1
      <4>4. QED
        BY <3>5, <4>1, <4>2, <4>3
    <3>6. CASE switches[n] \notin CaseLetter
      <4>1. \A x : CaseIs(d, x) => CaseIs(f[n], x)
        BY <3>4, <3>6
      <4>2. \A i \in 1 .. n - 1 : i \in 1 .. n
        BY <3>1
      <4>3. ASSUME NEW j \in 1 .. n, IsLatest(switches, j, n)
            PROVE  j \in 1 .. n - 1 /\ IsLatest(switches, j, n - 1)
        <5>1. j # n
          BY <3>6, <4>3 DEF IsLatest
        <5>2. \A i \in j + 1 .. n - 1 : i \in j + 1 .. n
          BY <3>1
        <5>3. QED
          BY <3>1, <4>3, <5>1, <5>2 DEF IsLatest
      <4>4. QED
        BY <3>2, <4>1, <4>2, <4>3
    <3>7. QED
      BY <3>5, <3>6
  <2>3. QED
    BY <2>1, <2>2
<1> HIDE DEF G
<1>3. \A n \in 0 .. N : n \in G
  <2>1. 0 .. N \in SUBSET Nat
    OBVIOUS
  <2>2. QED
    BY <1>2, <2>1, InductionFromBelow
<1>4. N \in G
  BY <1>3
<1>5. QED
  BY <1>1, <1>4 DEF G

\* Which arguments are values of the one before, unfolded.
LEMMA UnitFacts ==
  ASSUME CmdInv
  PROVE  /\ Len(args) >= 1 => IsUnit[1]
         /\ \A i \in 2 .. Len(args) : IsUnit[i] <=> ~(IsUnit[i - 1] /\ TakesNext(args[i - 1]))
<1> DEFINE N == Len(args)
           Def(g) == [i \in 1 .. N |-> i = 1 \/ ~(g[i - 1] /\ TakesNext(args[i - 1]))]
           Step(v, k) == ~(v /\ TakesNext(args[k - 1]))
           S == [k \in 1 .. N |-> [v \in BOOLEAN |-> Step(v, k)]]
           f == CHOOSE g : g = Def(g)
<1>1. N \in Nat
  BY DEF CmdInv
<1>2. \A k \in 1 .. N, v \in BOOLEAN : S[k][v] = Step(v, k) /\ S[k][v] \in BOOLEAN
  OBVIOUS
<1>3. PICK g \in [0 .. N -> BOOLEAN] : Runs(g, N, FALSE, S)
  <2> HIDE DEF S, N
  <2>1. FALSE \in BOOLEAN /\ \A k \in 1 .. N, v \in BOOLEAN : S[k][v] \in BOOLEAN
    BY <1>2
  <2>2. QED
    BY <1>1, <2>1, RunExists
<1> HIDE DEF S
<1>4. \A k \in 1 .. N : g[k] = Step(g[k - 1], k)
  <2>1. g = [k \in 0 .. N |-> IF k = 0 THEN FALSE ELSE S[k][g[k - 1]]]
    BY <1>3 DEF Runs
  <2>2. ASSUME NEW k \in 1 .. N PROVE g[k] = Step(g[k - 1], k)
    <3>1. k \in 0 .. N /\ k - 1 \in 0 .. N /\ k # 0
      BY <1>1
    <3>2. g[k] = S[k][g[k - 1]] /\ g[k - 1] \in BOOLEAN
      BY <1>3, <2>1, <3>1
    <3>3. QED
      BY <1>2, <3>2
  <2>3. QED
    BY <2>2
<1>5. g[0] = FALSE
  BY <1>1, <1>3 DEF Runs
<1> DEFINE h == [i \in 1 .. N |-> g[i]]
<1>6. h = Def(h)
  <2>1. ASSUME NEW i \in 1 .. N PROVE g[i] = (i = 1 \/ ~(h[i - 1] /\ TakesNext(args[i - 1])))
    <3>1. g[i] = Step(g[i - 1], i) /\ g[i] \in BOOLEAN
      BY <1>1, <1>3, <1>4
    <3>2. CASE i = 1
      <4>1. g[i - 1] = FALSE
        BY <1>5, <3>2
      <4>2. g[i] = TRUE
        BY <3>1, <4>1
      <4>3. QED
        BY <3>2, <4>2
    <3>3. CASE i # 1
      <4>1. i - 1 \in 1 .. N
        BY <1>1, <3>3
      <4>2. h[i - 1] = g[i - 1]
        BY <4>1
      <4> HIDE DEF h
      <4>3. QED
        BY <3>1, <3>3, <4>2
    <3>4. QED
      BY <3>2, <3>3
  <2>2. QED
    BY <2>1, Zenon
<1>7. f = Def(f)
  <2> HIDE DEF h
  <2>1. QED
    BY <1>6, Zenon
<1> HIDE DEF f
<1>8. IsUnit = f
  BY Zenon DEF IsUnit, f
<1>9. \A i \in 1 .. N : f[i] = (i = 1 \/ ~(f[i - 1] /\ TakesNext(args[i - 1])))
  BY <1>7, Zenon
<1>10. N >= 1 => f[1]
  <2>1. N >= 1 => 1 \in 1 .. N
    BY <1>1
  <2>2. 1 \in 1 .. N => f[1] = (1 = 1 \/ ~(f[1 - 1] /\ TakesNext(args[1 - 1])))
    BY <1>9, Zenon
  <2>3. QED
    BY <2>1, <2>2, Zenon
<1>11. ASSUME NEW i \in 2 .. N PROVE f[i] <=> ~(f[i - 1] /\ TakesNext(args[i - 1]))
  <2>1. i \in 1 .. N /\ i # 1
    BY <1>1
  <2>2. f[i] = (i = 1 \/ ~(f[i - 1] /\ TakesNext(args[i - 1])))
    BY <1>9, <2>1
  <2>3. QED
    BY <2>1, <2>2
<1>12. QED
  BY <1>8, <1>10, <1>11

\* An argument that says something about case.
Says(i) == IsFlags(i) /\ CaseSaid(args[i]) # << >>

\* The configuration c is what the first n arguments say.
Heard(c, n) ==
  /\ (\A i \in 1 .. n : ~Says(i)) => CaseIs(c, "sensitive")
  /\ \A i \in 1 .. n : Says(i) /\ (\A j \in i + 1 .. n : ~Says(j)) => CaseIs(c, CaseSaid(args[i])[1])
  /\ \E m : CaseIs(c, m)

\* The arguments before the n-th are read, and the n-th is no value.
IsNext(n) ==
  /\ n \in 1 .. Len(args) + 1
  /\ dashesSeen <=> \E j \in 1 .. n - 1 : IsUnit[j] /\ args[j].kind = "dashes"
  /\ ~dashesSeen /\ n <= Len(args) => IsUnit[n]

HeardInv ==
  /\ stage = "args" => IsNext(at) /\ Heard(cfg, at - 1)
  /\ stage \in {"parsed", "accepted"} => Heard(cfg, Len(args))

\* An argument says nothing more.
LEMMA HearNothing ==
  ASSUME NEW c, NEW n \in Nat \ {0}, Heard(c, n - 1), ~Says(n), NEW d,
         \A m : CaseIs(c, m) => CaseIs(d, m)
  PROVE  Heard(d, n)
<1>1. \A i \in 1 .. n - 1 : i \in 1 .. n /\ \A j \in i + 1 .. n - 1 : j \in i + 1 .. n
  OBVIOUS
<1>2. \A i \in 1 .. n : Says(i) => i \in 1 .. n - 1
  OBVIOUS
<1>3. (\A i \in 1 .. n : ~Says(i)) => CaseIs(d, "sensitive")
  BY <1>1 DEF Heard
<1>4. ASSUME NEW i \in 1 .. n, Says(i), \A j \in i + 1 .. n : ~Says(j)
      PROVE  CaseIs(d, CaseSaid(args[i])[1])
  BY <1>1, <1>2, <1>4 DEF Heard
<1>5. QED
  BY <1>3, <1>4 DEF Heard

\* An argument says something.
LEMMA HearSomething ==
  ASSUME NEW n \in Nat \ {0}, Says(n), NEW d, CaseIs(d, CaseSaid(args[n])[1])
  PROVE  Heard(d, n)
<1>1. n \in 1 .. n /\ \A i \in 1 .. n : i # n => n \in i + 1 .. n
  OBVIOUS
<1>2. QED
  BY <1>1 DEF Heard

\* One argument is passed.
LEMMA PassOne ==
  ASSUME CmdInv, IsNext(at), at <= Len(args), args' = args, at' = at + 1,
         dashesSeen' <=> dashesSeen \/ args[at].kind = "dashes",
         dashesSeen' \/ ~TakesNext(args[at])
  PROVE  IsNext(at)'
<1>1. at \in Nat /\ at >= 1 /\ Len(args) \in Nat /\ IsUnit' = IsUnit
  BY DEF CmdInv, IsUnit
<1>2. \A j \in 1 .. at - 1 : j \in 1 .. at
  BY <1>1
<1>3. at \in 1 .. at /\ \A j \in 1 .. at : j \in 1 .. at - 1 \/ j = at
  BY <1>1
<1>4. dashesSeen' <=> \E j \in 1 .. at : IsUnit[j] /\ args[j].kind = "dashes"
  BY <1>2, <1>3 DEF IsNext
<1>5. ~dashesSeen' /\ at + 1 <= Len(args) => IsUnit[at + 1]
  <2>1. at + 1 <= Len(args) => at + 1 \in 2 .. Len(args)
    BY <1>1
  <2>2. at + 1 <= Len(args) => (IsUnit[at + 1] <=> ~(IsUnit[(at + 1) - 1] /\ TakesNext(args[(at + 1) - 1])))
    BY <2>1, UnitFacts
  <2>3. (at + 1) - 1 = at
    BY <1>1
  <2>4. QED
    BY <2>2, <2>3
<1>6. at + 1 \in 1 .. Len(args) + 1 /\ (at + 1) - 1 = at
  BY <1>1
<1>7. QED
  BY <1>1, <1>4, <1>5, <1>6 DEF IsNext

\* A flag and its value are passed.
LEMMA PassTwo ==
  ASSUME CmdInv, IsNext(at), at < Len(args), args' = args, at' = at + 2,
         ~dashesSeen, dashesSeen' = dashesSeen,
         args[at].kind # "dashes",
         TakesNext(args[at]) \/ args[at + 1].kind = "word"
  PROVE  IsNext(at)' /\ ~Says(at + 1)
<1>1. at \in Nat /\ at >= 1 /\ Len(args) \in Nat /\ IsUnit' = IsUnit
  BY DEF CmdInv, IsUnit
<1>2. IsUnit[at]
  BY <1>1 DEF IsNext
<1>3. IsUnit[at + 1] <=> ~TakesNext(args[at])
  <2>1. at + 1 \in 2 .. Len(args) /\ (at + 1) - 1 = at
    BY <1>1
  <2>2. IsUnit[at + 1] <=> ~(IsUnit[(at + 1) - 1] /\ TakesNext(args[(at + 1) - 1]))
    BY <2>1, UnitFacts
  <2>3. QED
    BY <1>2, <2>1, <2>2
<1>4. args[at + 1].kind = "word" => ~TakesNext(args[at + 1])
  BY DEF TakesNext
<1>5. at + 2 <= Len(args) => IsUnit[at + 2]
  <2>1. at + 2 <= Len(args) => at + 2 \in 2 .. Len(args)
    BY <1>1
  <2>2. at + 2 <= Len(args) =>
          (IsUnit[at + 2] <=> ~(IsUnit[(at + 2) - 1] /\ TakesNext(args[(at + 2) - 1])))
    BY <2>1, UnitFacts
  <2>3. (at + 2) - 1 = at + 1
    BY <1>1
  <2>4. QED
    BY <1>3, <1>4, <2>2, <2>3
<1>6. ~(IsUnit[at + 1] /\ args[at + 1].kind = "dashes")
  BY <1>3
<1>7. ~Says(at + 1)
  BY <1>3 DEF Says, IsFlags
<1>8. ~\E j \in 1 .. at + 1 : IsUnit[j] /\ args[j].kind = "dashes"
  <2>1. \A j \in 1 .. at + 1 : j \in 1 .. at - 1 \/ j = at \/ j = at + 1
    BY <1>1
  <2>2. QED
    BY <1>6, <2>1 DEF IsNext
<1>9. at + 2 \in 1 .. Len(args) + 1 /\ (at + 2) - 1 = at + 1
  BY <1>1
<1>10. QED
  BY <1>1, <1>5, <1>7, <1>8, <1>9 DEF IsNext

\* What is heard depends on the arguments alone.
LEMMA HeardStays ==
  ASSUME args' = args
  PROVE  \A c, n : Heard(c, n)' <=> Heard(c, n)
<1>1. \A i : Says(i)' <=> Says(i)
  BY DEF Says, IsFlags, IsUnit
<1>2. QED
  BY <1>1 DEF Heard

\* A flag is read, with its value or without.
LEMMA FlagIsHeard ==
  ASSUME CmdInv, HeardInv, HasArg, ~dashesSeen, args[at].kind \in {"long", "short"},
         NEW c, NEW n \in {1, 2}, Use(n, c),
         n = 1 => ~TakesNext(args[at]),
         n = 2 => at < Len(args) /\ (TakesNext(args[at]) \/ args[at + 1].kind = "word"),
         CaseSaid(args[at]) = << >> => \A m : CaseIs(cfg, m) => CaseIs(c, m),
         CaseSaid(args[at]) # << >> => CaseIs(c, CaseSaid(args[at])[1])
  PROVE  HeardInv'
<1>1. /\ cfg' = c /\ at' = at + n /\ stage = "args" /\ at <= Len(args)
      /\ UNCHANGED << args, dashesSeen, stage >>
  BY DEF Use, HasArg
<1>2. at \in Nat \ {0} /\ Len(args) \in Nat /\ IsNext(at) /\ Heard(cfg, at - 1)
  BY <1>1 DEF CmdInv, HeardInv
<1>3. IsFlags(at)
  <2>1. IsUnit[at]
    BY <1>1, <1>2 DEF IsNext
  <2>2. \A j \in 1 .. at : j \in 1 .. at - 1 \/ j = at
    BY <1>2
  <2>3. ~\E j \in 1 .. at : IsUnit[j] /\ args[j].kind = "dashes"
    BY <1>2, <2>2 DEF IsNext
  <2>4. QED
    BY <2>1, <2>3 DEF IsFlags
<1>4. Heard(c, at)
  <2>1. CASE CaseSaid(args[at]) = << >>
    <3>1. ~Says(at)
      BY <2>1 DEF Says
    <3>2. QED
      BY <1>2, <2>1, <3>1, HearNothing
  <2>2. CASE CaseSaid(args[at]) # << >>
    <3>1. Says(at)
      BY <1>3, <2>2 DEF Says
    <3>2. QED
      BY <1>2, <2>2, <3>1, HearSomething
  <2>3. QED
    BY <2>1, <2>2
<1>5. \A k : Heard(c, k)' <=> Heard(c, k)
  BY <1>1, HeardStays
<1>6. CASE n = 1
  <2>1. IsNext(at)'
    BY <1>1, <1>2, <1>6, PassOne
  <2>2. (at + 1) - 1 = at
    BY <1>2
  <2>3. QED
    BY <1>1, <1>4, <1>5, <1>6, <2>1, <2>2 DEF HeardInv
<1>7. CASE n = 2
  <2>1. IsNext(at)' /\ ~Says(at + 1)
    BY <1>1, <1>2, <1>7, PassTwo
  <2>2. (at + 2) - 1 = at + 1 /\ (at + 1) - 1 = at /\ at + 1 \in Nat \ {0}
    BY <1>2
  <2>3. Heard(c, at + 1)
    BY <1>4, <2>1, <2>2, HearNothing
  <2>4. QED
    BY <1>1, <1>5, <1>7, <2>1, <2>2, <2>3 DEF HeardInv
<1>8. QED
  BY <1>6, <1>7

\* What a long flag says about case, and a bundle.
LEMMA SaidFacts ==
  ASSUME NEW a
  PROVE  /\ a.kind = "long" =>
              CaseSaid(a) = IF a.name \in DOMAIN CaseFlag /\ Bool(a.val) THEN << CaseFlag[a.name] >>
                            ELSE IF a.name = "ignore-case" /\ ~Bool(a.val) THEN << "sensitive" >>
                            ELSE << >>
         /\ a.kind = "short" =>
              LET letters == { k \in DOMAIN a.flags : a.flags[k] \in CaseLetter }
              IN  CaseSaid(a) = IF letters # {} THEN << CaseFlag[a.flags[Max(letters)]] >> ELSE << >>
<1> DEFINE letters == { k \in DOMAIN a.flags : a.flags[k] \in {"i", "s", "S"} }
           one == << CaseFlag[a.name] >>
           two == << CaseFlag[a.flags[Max(letters)]] >>
<1>1. CaseSaid(a) =
        CASE a.kind = "long" /\ a.name \in DOMAIN CaseFlag /\ Bool(a.val) -> one
          [] a.kind = "long" /\ a.name = "ignore-case" /\ ~Bool(a.val) -> << "sensitive" >>
          [] a.kind = "short" /\ letters # {} -> two
          [] OTHER -> << >>
  BY Zenon DEF CaseSaid
<1>2. letters = { k \in DOMAIN a.flags : a.flags[k] \in CaseLetter }
  BY DEF CaseLetter
<1> HIDE DEF letters, one, two
<1>3. /\ a.kind = "long" =>
           CaseSaid(a) = IF a.name \in DOMAIN CaseFlag /\ Bool(a.val) THEN one
                         ELSE IF a.name = "ignore-case" /\ ~Bool(a.val) THEN << "sensitive" >>
                         ELSE << >>
      /\ a.kind = "short" => CaseSaid(a) = IF letters # {} THEN two ELSE << >>
  BY <1>1, SMT
<1>4. QED
  BY <1>2, <1>3 DEF one, two

\* The flags with a value are none of the others.
LEMMA ValuedApart ==
  /\ Valued \cap Switches = {} /\ DOMAIN CaseFlag \subseteq Switches
  /\ "help" \notin Valued \cup Switches /\ "version" \notin Valued \cup Switches
  /\ "color" \notin Valued \cup Switches
BY SetsFacts, ClearsFacts, CaseFlagFacts, TakesFacts, AddsFacts DEF Valued, Counts, Switches

\* What a long flag says about case, the configuration says after it.
LEMMA LongFlagIsHeard ==
  ASSUME CmdInv, HeardInv, LongFlag
  PROVE  HeardInv'
<1> DEFINE name == args[at].name
           own  == args[at].val
           v    == Operand(own)
<1>1. /\ HasArg /\ ~dashesSeen /\ args[at].kind = "long" /\ args[at].kind \in {"long", "short"}
  BY DEF LongFlag
<1>2. TakesNext(args[at]) <=> own = << >> /\ name \in Valued
  BY <1>1 DEF TakesNext
<1>3. CaseSaid(args[at]) = IF name \in DOMAIN CaseFlag /\ Bool(own) THEN << CaseFlag[name] >>
                           ELSE IF name = "ignore-case" /\ ~Bool(own) THEN << "sensitive" >>
                           ELSE << >>
  BY <1>1, SaidFacts
<1>4. own = << >> /\ v # << >> => at < Len(args) /\ v[1] = args[at + 1]
  BY DEF Operand
<1>5. \A a, x, m : CaseIs(cfg, m) /\ a \notin CaseFields => CaseIs([cfg EXCEPT ![a] = x], m)
  BY CaseStays
<1>6. ASSUME NEW c, Use(1, c), name \notin Valued \cup Switches,
             \A m : CaseIs(cfg, m) => CaseIs(c, m)
      PROVE  HeardInv'
  <2>1. CaseSaid(args[at]) = << >>
    BY <1>3, <1>6, ValuedApart, CaseFlagFacts
  <2>2. ~TakesNext(args[at])
    BY <1>2, <1>6
  <2>3. QED
    BY <1>1, <1>6, <2>1, <2>2, FlagIsHeard
<1>7. CASE name = "help" /\ Use(1, [cfg EXCEPT !.Help = TRUE, !.LongHelp = TRUE])
  <2> DEFINE c == [cfg EXCEPT !["Help"] = TRUE]
             d == [c EXCEPT !["LongHelp"] = TRUE]
  <2>1. "Help" \notin CaseFields /\ "LongHelp" \notin CaseFields
    BY DEF CaseFields
  <2>2. \A m : CaseIs(cfg, m) => CaseIs(c, m)
    BY <1>5, <2>1
  <2>3. Use(1, d)
    BY <1>7
  <2> HIDE DEF c
  <2>4. \A m : CaseIs(c, m) => CaseIs(d, m)
    BY <2>1, CaseStays
  <2> HIDE DEF d
  <2>5. QED
    BY <1>6, <1>7, <2>2, <2>3, <2>4, ValuedApart
<1>8. CASE name = "version" /\ Use(1, [cfg EXCEPT !.Version = TRUE])
  <2> DEFINE c == [cfg EXCEPT !["Version"] = TRUE]
  <2>1. \A m : CaseIs(cfg, m) => CaseIs(c, m)
    BY <1>5 DEF CaseFields
  <2>2. Use(1, c)
    BY <1>8
  <2> HIDE DEF c
  <2>3. QED
    BY <1>6, <1>8, <2>1, <2>2, ValuedApart
<1>9. CASE name \in Switches \ Letter /\ IsBool(own) /\ Use(1, Switch(cfg, name, Bool(own)))
  <2> DEFINE c == Switch(cfg, name, Bool(own))
  <2>1. Bool(own) \in BOOLEAN
    BY DEF Bool
  <2>2. \A m : CaseIs(cfg, m) => CaseIs(c, CaseAfter(m, name, Bool(own)))
    BY <1>9, <2>1, SwitchCase
  <2>3. \A m : CaseAfter(m, name, Bool(own)) =
          IF CaseSaid(args[at]) = << >> THEN m ELSE CaseSaid(args[at])[1]
    <3>1. name \in DOMAIN CaseFlag => (CaseFlag[name] = "ignore" <=> name = "ignore-case")
      BY <1>9, CaseFlagFacts DEF Letter
    <3>2. "ignore-case" \in DOMAIN CaseFlag
      BY CaseFlagFacts
    <3>3. QED
      BY <1>3, <3>1, <3>2 DEF CaseAfter
  <2>4. ~TakesNext(args[at])
    BY <1>2, <1>9, ValuedApart
  <2>5. \E m : CaseIs(cfg, m)
    <3>1. stage = "args"
      BY <1>1 DEF HasArg
    <3>2. QED
      BY <3>1 DEF HeardInv, Heard
  <2> HIDE DEF c
  <2>6. Use(1, c)
    BY <1>9 DEF c
  <2>7. CaseSaid(args[at]) = << >> => \A m : CaseIs(cfg, m) => CaseIs(c, m)
    BY <2>2, <2>3
  <2>8. CaseSaid(args[at]) # << >> => CaseIs(c, CaseSaid(args[at])[1])
    BY <2>2, <2>3, <2>5
  <2>9. QED
    BY <1>1, <2>4, <2>6, <2>7, <2>8, FlagIsHeard
<1>10. ASSUME NEW c, Use(UsedWith(own), c), name \notin Switches, v # << >>,
              own = << >> => name \in Valued \/ v[1].kind = "word",
              \A m : CaseIs(cfg, m) => CaseIs(c, m)
       PROVE  HeardInv'
  <2>1. CaseSaid(args[at]) = << >>
    BY <1>3, <1>10, ValuedApart, CaseFlagFacts
  <2>2. UsedWith(own) \in {1, 2} /\ (UsedWith(own) = 1 => ~TakesNext(args[at]))
    BY <1>2 DEF UsedWith
  <2>3. UsedWith(own) = 2 => at < Len(args) /\ (TakesNext(args[at]) \/ args[at + 1].kind = "word")
    BY <1>2, <1>4, <1>10 DEF UsedWith
  <2> HIDE DEF v
  <2>4. QED
    BY <1>1, <1>10, <2>1, <2>2, <2>3, FlagIsHeard
<1>11. CASE name \in Valued \ Letter /\ v # << >> /\ Use(UsedWith(own), SetValue(cfg, name, v[1]))
  <2>1. \A m : CaseIs(cfg, m) => CaseIs(SetValue(cfg, name, v[1]), m)
    BY <1>11, SetValueCase
  <2>2. name \notin Switches
    BY <1>11, ValuedApart
  <2> HIDE DEF v
  <2>3. QED
    BY <1>10, <1>11, <2>1, <2>2
<1>12. CASE name = "color" /\ v # << >> /\ IsColor(v[1])
            /\ Use(UsedWith(own), [cfg EXCEPT !.Color = v[1].text])
  <2> DEFINE x == v[1].text
             c == [cfg EXCEPT !["Color"] = x]
  <2>1. \A m : CaseIs(cfg, m) => CaseIs(c, m)
    <3>1. "Color" \notin CaseFields
      BY DEF CaseFields
    <3> HIDE DEF x
    <3>2. QED
      BY <1>5, <3>1
  <2>2. v[1].kind = "word"
    BY <1>12 DEF IsColor
  <2>3. Use(UsedWith(own), c)
    BY <1>12
  <2> HIDE DEF c, v
  <2>4. QED
    BY <1>10, <1>12, <2>1, <2>2, <2>3, ValuedApart
<1>13. CASE name = "color" /\ Use(1, [cfg EXCEPT !.Color = "always"])
  <2> DEFINE c == [cfg EXCEPT !["Color"] = "always"]
  <2>1. \A m : CaseIs(cfg, m) => CaseIs(c, m)
    BY <1>5 DEF CaseFields
  <2>2. Use(1, c)
    BY <1>13
  <2> HIDE DEF c
  <2>3. QED
    BY <1>6, <1>13, <2>1, <2>2, ValuedApart
<1>14. CASE Reject
  BY <1>14 DEF Reject, HeardInv
<1>15. \/ name = "help" /\ Use(1, [cfg EXCEPT !.Help = TRUE, !.LongHelp = TRUE])
       \/ name = "version" /\ Use(1, [cfg EXCEPT !.Version = TRUE])
       \/ name \in Switches \ Letter /\ IsBool(own) /\ Use(1, Switch(cfg, name, Bool(own)))
       \/ name \in Valued \ Letter /\ v # << >> /\ Use(UsedWith(own), SetValue(cfg, name, v[1]))
       \/ name = "color" /\ v # << >> /\ IsColor(v[1])
          /\ Use(UsedWith(own), [cfg EXCEPT !.Color = v[1].text])
       \/ name = "color" /\ Use(1, [cfg EXCEPT !.Color = "always"])
       \/ Reject
  BY Zenon DEF LongFlag
<1>16. QED
  BY <1>7, <1>8, <1>9, <1>11, <1>12, <1>13, <1>14, <1>15

\* A bundle of letters, without the last one if it has a value.
Switching(flags) ==
  IF flags[Len(flags)] \in Valued \cap Letter THEN SubSeq(flags, 1, Len(flags) - 1) ELSE flags

\* No letter about case is left out.
LEMMA SwitchingFacts ==
  ASSUME NEW flags \in Seq(STRING), flags # << >>
  PROVE  /\ Len(Switching(flags)) \in Nat
         /\ DOMAIN Switching(flags) = 1 .. Len(Switching(flags))
         /\ Len(flags) \in Nat /\ DOMAIN flags = 1 .. Len(flags) /\ Len(flags) \in DOMAIN flags
         /\ \A k \in 1 .. Len(Switching(flags)) :
              k \in DOMAIN flags /\ Switching(flags)[k] = flags[k]
         /\ \A k \in DOMAIN flags : flags[k] \in CaseLetter => k \in 1 .. Len(Switching(flags))
<1> DEFINE m == Len(flags) - 1
           last == flags[Len(flags)]
<1>1. /\ Len(flags) \in Nat \ {0} /\ DOMAIN flags = 1 .. Len(flags) /\ Len(flags) \in DOMAIN flags
  OBVIOUS
<1>2. CASE last \in Valued \cap Letter
  <2>1. m \in Nat /\ m <= Len(flags)
    BY <1>1
  <2>2. Switching(flags) = SubSeq(flags, 1, m)
    BY <1>2 DEF Switching
  <2>3. \A i \in 1 .. m : flags[i] \in STRING
    BY <1>1, <2>1
  <2>4. last \notin CaseLetter
    BY <1>2, ValuedApart, CaseFlagFacts DEF CaseLetter
  <2>5. \A k \in 1 .. Len(flags) : k = Len(flags) \/ k \in 1 .. m
    <3>1. \A n \in Nat : \A k \in 1 .. n : k = n \/ k \in 1 .. n - 1
      OBVIOUS
    <3>2. QED
      BY <1>1, <3>1
  <2> HIDE DEF m
  <2>6. \A k \in 1 .. m : k \in 1 .. Len(flags)
    BY <1>1, <2>1
  <2>7. /\ Len(SubSeq(flags, 1, m)) = m /\ DOMAIN SubSeq(flags, 1, m) = 1 .. m
        /\ \A i \in 1 .. m : SubSeq(flags, 1, m)[i] = flags[i]
    BY <2>1, <2>3, SubSeqProperties
  <2>8. QED
    BY <1>1, <2>1, <2>2, <2>4, <2>5, <2>6, <2>7
<1>3. CASE last \notin Valued \cap Letter
  <2>1. Switching(flags) = flags
    BY <1>3 DEF Switching
  <2>2. QED
    BY <1>1, <2>1
<1>4. QED
  BY <1>2, <1>3

\* What a bundle says about case, the configuration says after it.
LEMMA BundleIsHeard ==
  ASSUME CmdInv, HeardInv, HasArg, args[at].kind = "short",
         args[at].flags \in Seq(STRING), args[at].flags # << >>,
         ToSet(Switching(args[at].flags)) \subseteq Letter \ Valued
  PROVE  /\ CaseSaid(args[at]) = << >> =>
              \A m : CaseIs(cfg, m) => CaseIs(Bundle(cfg, Switching(args[at].flags)), m)
         /\ CaseSaid(args[at]) # << >> =>
              CaseIs(Bundle(cfg, Switching(args[at].flags)), CaseSaid(args[at])[1])
<1> DEFINE flags == args[at].flags
           switches == Switching(flags)
           letters == { k \in DOMAIN flags : flags[k] \in CaseLetter }
           c == Bundle(cfg, switches)
<1>1. CaseSaid(args[at]) = IF letters # {} THEN << CaseFlag[flags[Max(letters)]] >> ELSE << >>
  BY SaidFacts
<1> HIDE DEF flags
<1>2. flags \in Seq(STRING) /\ flags # << >>
  BY DEF flags
<1>3. /\ Len(switches) \in Nat /\ DOMAIN switches = 1 .. Len(switches)
      /\ Len(flags) \in Nat /\ DOMAIN flags = 1 .. Len(flags)
      /\ \A k \in 1 .. Len(switches) : k \in DOMAIN flags /\ switches[k] = flags[k]
      /\ \A k \in DOMAIN flags : flags[k] \in CaseLetter => k \in 1 .. Len(switches)
  BY <1>2, SwitchingFacts
<1>4. ToSet(switches) \subseteq Letter \ Valued
  BY DEF flags
<1> HIDE DEF switches
<1>5. \A k \in 1 .. Len(switches) : switches[k] \in Letter \ Valued
  BY <1>3, <1>4 DEF ToSet
<1>6. IsCfg(cfg)
  BY DEF CmdInv
<1>7. \A m : CaseIs(cfg, m) =>
        /\ (\A k \in 1 .. Len(switches) : switches[k] \notin CaseLetter) => CaseIs(c, m)
        /\ \A j \in 1 .. Len(switches) :
             IsLatest(switches, j, Len(switches)) => CaseIs(c, CaseFlag[switches[j]])
  BY <1>3, <1>5, <1>6, BundleCase
<1> HIDE DEF c
<1>8. CASE letters = {}
  <2>1. CaseSaid(args[at]) = << >>
    BY <1>1, <1>8
  <2>2. \A k \in 1 .. Len(switches) : switches[k] \notin CaseLetter
    BY <1>3, <1>8
  <2>3. \A m : CaseIs(cfg, m) => CaseIs(c, m)
    BY <1>7, <2>2
  <2>4. QED
    BY <2>1, <2>3 DEF c, switches, flags
<1>9. CASE letters # {}
  <2>1. CaseSaid(args[at]) = << CaseFlag[flags[Max(letters)]] >>
    BY <1>1, <1>9
  <2>2. letters \in SUBSET (0 .. Len(flags)) /\ letters \in SUBSET Nat
    BY <1>3
  <2>3. letters \subseteq 1 .. Len(switches) /\ \A k \in letters : switches[k] = flags[k]
        /\ flags[k] \in CaseLetter
    BY <1>3
  <2>4. \A k \in 1 .. Len(switches) : switches[k] \in CaseLetter => k \in letters
    BY <1>3
  <2> HIDE DEF letters
  <2> DEFINE k0 == Max(letters)
  <2>5. \E k \in letters : \A j \in letters : k >= j
    BY <1>3, <1>9, <2>2, GreatestElement
  <2>6. k0 \in letters /\ \A j \in letters : k0 >= j
    BY <2>5 DEF Max
  <2> HIDE DEF k0
  <2>7. IsLatest(switches, k0, Len(switches))
    <3>1. switches[k0] \in CaseLetter
      BY <2>3, <2>6
    <3>2. ASSUME NEW i \in k0 + 1 .. Len(switches) PROVE switches[i] \notin CaseLetter
      <4>1. k0 \in Nat /\ k0 >= 1
        BY <2>3, <2>6
      <4>2. i \in 1 .. Len(switches) /\ ~(k0 >= i)
        BY <1>3, <4>1
      <4>3. QED
        BY <2>4, <2>6, <4>2
    <3>3. QED
      BY <3>1, <3>2 DEF IsLatest
  <2>8. PICK m : CaseIs(cfg, m)
    <3>1. stage = "args"
      BY DEF HasArg
    <3>2. QED
      BY <3>1 DEF HeardInv, Heard
  <2>9. CaseIs(c, CaseFlag[switches[k0]])
    BY <1>7, <2>3, <2>6, <2>7, <2>8
  <2>10. CaseSaid(args[at])[1] = CaseFlag[switches[k0]]
    BY <2>1, <2>3, <2>6 DEF k0
  <2>11. CaseSaid(args[at]) # << >>
    BY <2>1
  <2>12. QED
    BY <2>9, <2>10, <2>11 DEF c, switches, flags
<1>10. QED
  BY <1>8, <1>9

\* What short flags say about case, the configuration says after them.
LEMMA ShortFlagsIsHeard ==
  ASSUME CmdInv, HeardInv, ShortFlags
  PROVE  HeardInv'
<1> DEFINE flags    == args[at].flags
           own      == args[at].val
           last     == flags[Len(flags)]
           hasValue == last \in Valued \cap Letter
           switches == Switching(flags)
           v        == IF last \in Counts /\ Operand(own) # << >>
                       THEN << Unassigned(Operand(own)[1]) >> ELSE Operand(own)
           c        == Bundle(cfg, switches)
<1>1. /\ HasArg /\ ~dashesSeen /\ args[at].kind = "short" /\ args[at].kind \in {"long", "short"}
      /\ IsArg(args[at])
  <2>1. HasArg /\ ~dashesSeen /\ args[at].kind = "short"
    BY DEF ShortFlags
  <2>2. at \in DOMAIN args
    BY <2>1 DEF CmdInv, HasArg
  <2>3. QED
    BY <2>1, <2>2 DEF CmdInv
<1>2. flags \in Seq(STRING) /\ flags # << >>
  BY <1>1 DEF IsArg
<1>3. TakesNext(args[at]) <=> own = << >> /\ last \in Valued
  BY <1>1 DEF TakesNext
<1>4. \/ ToSet(switches) \subseteq Letter \ Valued /\ ~hasValue /\ Use(1, c)
      \/ /\ ToSet(switches) \subseteq Letter \ Valued /\ hasValue /\ v # << >>
         /\ Use(UsedWith(own), SetValue(c, last, v[1]))
      \/ Reject
  BY Zenon DEF ShortFlags, Bundle, Switching
<1>5. v # << >> /\ own = << >> => at < Len(args)
  BY DEF Operand
<1>6. ASSUME ToSet(switches) \subseteq Letter \ Valued
      PROVE  /\ CaseSaid(args[at]) = << >> => \A m : CaseIs(cfg, m) => CaseIs(c, m)
             /\ CaseSaid(args[at]) # << >> => CaseIs(c, CaseSaid(args[at])[1])
  BY <1>1, <1>2, <1>6, BundleIsHeard
<1>7. ASSUME ToSet(switches) \subseteq Letter \ Valued, ~hasValue PROVE last \notin Valued
  <2>1. switches = flags
    BY <1>7 DEF Switching
  <2>2. last \in ToSet(switches)
    BY <1>2, <2>1, SwitchingFacts DEF ToSet
  <2>3. QED
    BY <1>7, <2>2
<1> HIDE DEF c, v, switches
<1>8. CASE ToSet(switches) \subseteq Letter \ Valued /\ ~hasValue /\ Use(1, c)
  <2>1. ~TakesNext(args[at])
    BY <1>3, <1>7, <1>8
  <2>2. QED
    BY <1>1, <1>6, <1>8, <2>1, FlagIsHeard
<1>9. CASE /\ ToSet(switches) \subseteq Letter \ Valued /\ hasValue /\ v # << >>
           /\ Use(UsedWith(own), SetValue(c, last, v[1]))
  <2> DEFINE d == SetValue(c, last, v[1])
  <2>1. \A m : CaseIs(c, m) => CaseIs(d, m)
    BY <1>9, SetValueCase
  <2>2. UsedWith(own) \in {1, 2} /\ (UsedWith(own) = 1 => ~TakesNext(args[at]))
    BY <1>3 DEF UsedWith
  <2>3. UsedWith(own) = 2 => at < Len(args) /\ TakesNext(args[at])
    BY <1>3, <1>5, <1>9 DEF UsedWith
  <2>4. Use(UsedWith(own), d)
    BY <1>9
  <2> HIDE DEF d
  <2>5. /\ CaseSaid(args[at]) = << >> => \A m : CaseIs(cfg, m) => CaseIs(d, m)
        /\ CaseSaid(args[at]) # << >> => CaseIs(d, CaseSaid(args[at])[1])
    BY <1>6, <1>9, <2>1
  <2>6. QED
    BY <1>1, <2>2, <2>3, <2>4, <2>5, FlagIsHeard
<1>10. CASE Reject
  BY <1>10 DEF Reject, HeardInv
<1>11. QED
  BY <1>4, <1>8, <1>9, <1>10

\* An argument that is no flag is passed.
LEMMA WordIsHeard ==
  ASSUME CmdInv, HeardInv, HasArg, UNCHANGED << args, cfg, stage >>, at' = at + 1,
         dashesSeen' <=> dashesSeen \/ args[at].kind = "dashes",
         dashesSeen \/ args[at].kind \in {"dashes", "word"}
  PROVE  HeardInv'
<1>1. stage = "args" /\ at <= Len(args) /\ at \in Nat \ {0} /\ Len(args) \in Nat
  BY DEF HasArg, CmdInv
<1>2. IsNext(at) /\ Heard(cfg, at - 1)
  BY <1>1 DEF HeardInv
<1>3. ~Says(at)
  <2>1. CASE dashesSeen
    <3>1. PICK j \in 1 .. at - 1 : IsUnit[j] /\ args[j].kind = "dashes"
      BY <1>2, <2>1 DEF IsNext
    <3>2. j \in 1 .. at
      BY <1>1
    <3>3. QED
      BY <3>1, <3>2 DEF Says, IsFlags
  <2>2. CASE args[at].kind \in {"dashes", "word"}
    BY <2>2 DEF Says, IsFlags
  <2>3. QED
    BY <2>1, <2>2
<1>4. dashesSeen' \/ ~TakesNext(args[at])
  BY DEF TakesNext
<1>5. IsNext(at)'
  BY <1>1, <1>2, <1>4, PassOne
<1>6. Heard(cfg, at)
  BY <1>1, <1>2, <1>3, HearNothing
<1>7. (at + 1) - 1 = at
  BY <1>1
<1>8. QED
  BY <1>1, <1>5, <1>6, <1>7, HeardStays DEF HeardInv

\* The end of the arguments changes nothing about case.
LEMMA EndIsHeard ==
  ASSUME CmdInv, HeardInv, EndOfArgs
  PROVE  HeardInv'
<1> DEFINE hasPattern == cfg.Patterns # << >>
           rest == IF hasPattern \/ positional = << >> THEN positional ELSE Tail(positional)
           patterns == IF hasPattern THEN cfg.Patterns ELSE First(positional)
           a0 == First(patterns)
           c0 == First(rest)
           d0 == SubSeq(rest, 2, Len(rest)) \o dashedPaths
           e1 == [cfg EXCEPT !["Pattern"] = a0]
           e2 == [e1 EXCEPT !["Patterns"] = patterns]
           e3 == [e2 EXCEPT !["RevRange"] = c0]
           e4 == [e3 EXCEPT !["Paths"] = d0]
<1>1. stage = "args" /\ at > Len(args) /\ at \in Nat \ {0} /\ Len(args) \in Nat /\ args' = args
  BY DEF EndOfArgs, CmdInv
<1>2. at - 1 = Len(args) /\ Heard(cfg, at - 1)
  <2>1. IsNext(at) /\ Heard(cfg, at - 1)
    BY <1>1 DEF HeardInv
  <2>2. at \in 1 .. Len(args) + 1
    BY <2>1 DEF IsNext
  <2>3. QED
    BY <1>1, <2>1, <2>2
<1>3. \/ stage' \in {"help", "rejected"}
      \/ stage' = "parsed" /\ cfg' = [cfg EXCEPT !.Pattern = a0, !.Patterns = patterns,
                                                 !.RevRange = c0, !.Paths = d0]
  <2> HIDE DEF a0, c0, d0
  <2>1. \/ stage' = "help" \/ stage' = "rejected"
        \/ stage' = "parsed" /\ cfg' = [cfg EXCEPT !.Pattern = a0, !.Patterns = patterns,
                                                   !.RevRange = c0, !.Paths = d0]
    BY Zenon DEF EndOfArgs, a0, c0, d0
  <2>2. QED
    BY <2>1
<1>4. \A m : CaseIs(cfg, m) => CaseIs(e4, m)
  <2>1. \A e, a, x, m : CaseIs(e, m) /\ a \notin CaseFields => CaseIs([e EXCEPT ![a] = x], m)
    BY CaseStays
  <2>2. "Pattern" \notin CaseFields /\ "Patterns" \notin CaseFields
        /\ "RevRange" \notin CaseFields /\ "Paths" \notin CaseFields
    BY DEF CaseFields
  <2> HIDE DEF a0, patterns, c0, d0
  <2>3. \A m : CaseIs(cfg, m) => CaseIs(e1, m)
    BY <2>1, <2>2
  <2> HIDE DEF e1
  <2>4. \A m : CaseIs(e1, m) => CaseIs(e2, m)
    BY <2>1, <2>2
  <2> HIDE DEF e2
  <2>5. \A m : CaseIs(e2, m) => CaseIs(e3, m)
    BY <2>1, <2>2
  <2> HIDE DEF e3
  <2>6. \A m : CaseIs(e3, m) => CaseIs(e4, m)
    BY <2>1, <2>2
  <2> HIDE DEF e4
  <2>7. QED
    BY <2>3, <2>4, <2>5, <2>6
<1>5. stage' = "parsed" => cfg' = e4
  <2> HIDE DEF a0, patterns, c0, d0
  <2>1. QED
    BY <1>3
<1> HIDE DEF e4
<1>6. Heard(e4, Len(args))
  BY <1>2, <1>4 DEF Heard
<1>7. stage' \in {"help", "rejected", "parsed"}
  BY <1>3
<1>8. QED
  BY <1>1, <1>5, <1>6, <1>7, HeardStays DEF HeardInv

\* Every step of the command line keeps what was heard.
LEMMA CmdIsHeard ==
  ASSUME CmdInv, HeardInv, CmdNext
  PROVE  HeardInv'
<1>1. CASE TakePath
  <2>1. /\ HasArg /\ UNCHANGED << args, cfg, stage >> /\ at' = at + 1
        /\ dashesSeen /\ dashesSeen' = dashesSeen
    BY <1>1 DEF TakePath
  <2>2. QED
    BY <2>1, WordIsHeard
<1>2. CASE TakeDashes
  <2>1. /\ HasArg /\ UNCHANGED << args, cfg, stage >> /\ at' = at + 1
        /\ args[at].kind = "dashes" /\ dashesSeen' = TRUE
    BY <1>2 DEF TakeDashes
  <2>2. QED
    BY <2>1, WordIsHeard
<1>3. CASE TakeWord
  <2>1. /\ HasArg /\ UNCHANGED << args, cfg, stage >> /\ at' = at + 1
        /\ args[at].kind = "word" /\ dashesSeen' = dashesSeen
    BY <1>3 DEF TakeWord
  <2>2. QED
    BY <2>1, WordIsHeard
<1>4. CASE LongFlag
  BY <1>4, LongFlagIsHeard
<1>5. CASE ShortFlags
  BY <1>5, ShortFlagsIsHeard
<1>6. CASE EndOfArgs
  BY <1>6, EndIsHeard
<1>7. CASE Validate
  <2>1. stage = "parsed" /\ stage' # "args" /\ args' = args /\ cfg' = cfg
    BY <1>7 DEF Validate
  <2>2. Heard(cfg, Len(args))
    BY <2>1 DEF HeardInv
  <2>3. QED
    BY <2>1, <2>2, HeardStays DEF HeardInv
<1>8. QED
  BY <1>1, <1>2, <1>3, <1>4, <1>5, <1>6, <1>7 DEF CmdNext

\* Nothing is said before the first argument ...
LEMMA InitIsHeard ==
  Init => HeardInv
<1> SUFFICES ASSUME Init PROVE HeardInv
  OBVIOUS
<1>1. at = 1 /\ dashesSeen = FALSE /\ cfg = Defaults /\ stage = "args"
  BY DEF Init, CmdInit
<1>2. CmdInv /\ Len(args) \in Nat
  BY InitInv DEF Inv, CmdInv
<1>3. IsNext(1)
  <2>1. 1 <= Len(args) => IsUnit[1]
    BY <1>2, UnitFacts
  <2>2. 1 \in 1 .. Len(args) + 1 /\ ~\E j \in 1 .. 1 - 1 : IsUnit[j] /\ args[j].kind = "dashes"
    BY <1>2
  <2>3. QED
    BY <1>1, <2>1, <2>2 DEF IsNext
<1>4. CaseIs(Defaults, "sensitive")
  <2>1. /\ CaseFields \subseteq DOMAIN Defaults
        /\ Defaults["IgnoreCase"] = FALSE /\ Defaults["CaseSensitive"] = TRUE
    BY DEF Defaults, CaseFields
  <2>2. Defaults = [f \in DOMAIN Defaults |-> Defaults[f]]
    BY DEF Defaults
  <2>3. Defaults \in [DOMAIN Defaults -> { Defaults[f] : f \in DOMAIN Defaults }]
    BY <2>2
  <2>4. QED
    BY <2>1, <2>3 DEF CaseIs
<1>5. Heard(Defaults, 1 - 1)
  <2>1. \A i : i \notin 1 .. 1 - 1
    OBVIOUS
  <2>2. QED
    BY <1>4, <2>1 DEF Heard
<1>6. QED
  BY <1>1, <1>3, <1>5 DEF HeardInv

\* ... and every step keeps what was said.
LEMMA NextIsHeard ==
  Inv /\ HeardInv /\ [Next]_vars => HeardInv'
<1> SUFFICES ASSUME Inv, HeardInv, [Next]_vars PROVE HeardInv'
  OBVIOUS
<1>1. CASE ParseStep
  BY <1>1, CmdIsHeard DEF ParseStep, Inv
<1>2. CASE UNCHANGED cmdVars
  <2>1. UNCHANGED << args, at, dashesSeen, cfg, stage >>
    BY <1>2 DEF cmdVars
  <2>2. IsUnit' = IsUnit
    BY <2>1 DEF IsUnit
  <2>3. \A n : IsNext(n)' <=> IsNext(n)
    BY <2>1, <2>2 DEF IsNext
  <2>4. QED
    BY <2>1, <2>3, HeardStays DEF HeardInv
<1>3. ParseStep \/ UNCHANGED cmdVars
  BY DEF Next, FindRepository, ResolveNext, TakeAnswer, MoreTips, TakeListed, SetFilters, GitStep, vars
<1>4. QED
  BY <1>1, <1>2, <1>3

(* What the configuration says about case is what the arguments read so    *)
(* far say, in every state.                                                *)
THEOREM CaseFlagsAreHeard == Spec => [](Inv /\ HeardInv)
<1>1. Inv /\ HeardInv /\ [Next]_vars => (Inv /\ HeardInv)'
  BY NextInv, NextIsHeard
<1>2. Init => Inv /\ HeardInv
  BY InitInv, InitIsHeard
<1>3. QED
  BY <1>1, <1>2, PTL DEF Spec

(* Of the flags about letter case the last one wins, whatever stands       *)
(* between them.  (ParseArgs, flags.go; NewMatcher, matcher.go)            *)
THEOREM TheLastCaseFlagWins == Spec => []LastCaseFlagWins
<1>1. Inv /\ HeardInv => LastCaseFlagWins
  <2> SUFFICES ASSUME Inv, HeardInv, stage = "accepted" PROVE LastCaseFlagWins
    BY DEF LastCaseFlagWins
  <2> DEFINE N == Len(args)
             said == { i \in 1 .. N : IsFlags(i) /\ CaseSaid(args[i]) # << >> }
             i0 == CHOOSE i \in said : \A j \in said : j <= i
             last == IF said = {} THEN "sensitive" ELSE CaseSaid(args[i0])[1]
             hasUpper == \E v \in ToSet(cfg.Patterns) : v.kind = "word" /\ v.text \in Upper
  <2>1. N \in Nat /\ Heard(cfg, N)
    BY DEF Inv, CmdInv, HeardInv
  <2>2. said = { i \in 1 .. N : Says(i) }
    BY DEF Says
  <2>3. CaseIs(cfg, last)
    <3> HIDE DEF said, N
    <3>1. CASE said = {}
      BY <2>1, <2>2, <3>1 DEF Heard
    <3>2. CASE said # {}
      <4>1. said \in SUBSET (0 .. N)
        BY <2>1, <2>2
      <4>2. PICK k \in said : \A j \in said : k >= j
        BY <2>1, <3>2, <4>1, GreatestElement
      <4>3. \A j \in said : j <= k
        BY <2>1, <4>1, <4>2
      <4>4. i0 \in said /\ \A j \in said : j <= i0
        BY <4>3, Zenon
      <4> HIDE DEF i0
      <4>5. ASSUME NEW j \in i0 + 1 .. N PROVE ~Says(j)
        <5>1. i0 \in 1 .. N
          BY <2>2, <4>4
        <5>2. j \in 1 .. N /\ ~(j <= i0)
          BY <2>1, <5>1
        <5>3. QED
          BY <2>2, <4>4, <5>2
      <4>6. i0 \in 1 .. N /\ Says(i0)
        BY <2>2, <4>4
      <4>7. QED
        BY <2>1, <3>2, <4>5, <4>6 DEF Heard
    <3>3. QED
      BY <3>1, <3>2
  <2> HIDE DEF last
  <2>4. IgnoresCase <=> last = "ignore" \/ (last = "smart" /\ ~hasUpper)
    <3>1. IgnoresCase =
            CASE cfg.IgnoreCase    -> TRUE
              [] cfg.CaseSensitive /\ ~cfg.IgnoreCase -> FALSE
              [] OTHER -> IF cfg.SmartCase \/ cfg.CaseMode = "smart" THEN ~hasUpper
                          ELSE cfg.CaseMode = "ignore"
      BY Zenon DEF IgnoresCase
    <3> HIDE DEF hasUpper
    <3>2. CASE last = "ignore"
      BY <2>3, <3>1, <3>2 DEF CaseIs
    <3>3. CASE last = "sensitive"
      BY <2>3, <3>1, <3>3 DEF CaseIs
    <3>4. CASE last = "smart"
      BY <2>3, <3>1, <3>4 DEF CaseIs
    <3>5. last \in {"ignore", "sensitive", "smart"}
      BY <2>3 DEF CaseIs
    <3>6. QED
      BY <3>2, <3>3, <3>4, <3>5
  <2>5. LastCaseFlagWins <=> (stage = "accepted" =>
          (IgnoresCase <=> last = "ignore" \/ (last = "smart" /\ ~hasUpper)))
    BY Zenon DEF LastCaseFlagWins, last
  <2>6. QED
    BY <2>4, <2>5
<1>2. QED
  BY <1>1, CaseFlagsAreHeard, PTL
=============================================================================
