------------------------- MODULE HistoryWalker_proofs -------------------------
(***************************************************************************)
(* Proofs about HistoryWalker, for any history, any dates, any range and   *)
(* any damage.                                                             *)
(***************************************************************************)
EXTENDS HistoryWalker, RecursionLemmas, SequenceTheorems, FunctionTheorems, FiniteSetTheorems

Label      == {"exclude", "collect", "walk", "diff", "full", "other", "find", "done", "failed"}
Searching  == {"other", "find"}
Working    == {"diff", "full", "other", "find"}
Occurrence == [commit : Commit, blob : Blob, path : Path]

TypeInv ==
  /\ in \in Input /\ ctxCancelled \in BOOLEAN /\ pc \in Label
  /\ stack \in Seq(Commit) /\ excluded \in SUBSET Commit
  /\ visited \in SUBSET Commit /\ queue \in SUBSET Commit /\ matched \in Seq(Commit)
  /\ pos \in Nat \ {0} /\ todo \in SUBSET Path /\ at \in Path \cup {NoPath}
  /\ other \in Nat /\ seen \in SUBSET (Blob \X Path) /\ emitted \in Seq(Occurrence)

\* The entries of a commit that its first parent lacks.
News(c) == { p \in Path : TreeOID(c)[p] \notin {NoBlob, OldEntry(c, p)} }

\* A commit that has no file b at p, as far as can be read.
Lacks(c, p, b) == Readable(c) /\ ~TreeLost(c) => TreeOID(c)[p] # b

(***************************************************************************)
(* What is left to do for the commit that is walked: new entries if it is  *)
(* compared with a parent, entries of its tree otherwise, and the parents  *)
(* that an entry of a merge has been looked for in lack it.                *)
(***************************************************************************)
EntryInv ==
  /\ pc \in {"exclude", "collect"} => pos = 1 /\ emitted = << >>
  /\ pc \in Working => pos \in DOMAIN matched
  /\ pc = "done" => pos > Len(matched)
  /\ pc \in {"diff", "other", "find"} => Diffs(Now) /\ todo \subseteq News(Now)
  /\ pc = "full" => ~Diffs(Now) /\ \A p \in todo : TreeOID(Now)[p] # NoBlob
  /\ pc \in Searching =>
       /\ at \in News(Now) \cap in.wanted /\ at \notin todo /\ IsMerge(Now) /\ other > 1
       /\ ~ctxCancelled => \A k \in 2 .. other - 1 :
            k <= Len(Parents(Now)) => Lacks(Parents(Now)[k], at, TreeOID(Now)[at])
  /\ pc = "find" => other <= Len(Parents(Now))

\* No commit is matched twice.
MatchInv ==
  /\ pc = "exclude" => matched = << >> /\ visited = {} /\ queue = {}
  /\ queue \subseteq visited /\ Elements(matched) \subseteq visited \ queue
  /\ \A i, k \in DOMAIN matched : matched[i] = matched[k] => i = k

-----------------------------------------------------------------------------
(* Histories and sequences.                                                *)

\* A history is what its type says.
LEMMA InputFacts ==
  ASSUME TypeInv
  PROVE  /\ in.parents \in [Commit -> Seq(Commit)] /\ in.date \in [Commit -> Nat]
         /\ in.tree \in [Commit -> Tree] /\ in.lost \subseteq Commit
         /\ in.include \subseteq Commit /\ in.exclude \in Seq(Commit)
         /\ in.wanted \subseteq Path /\ in.firstParent \in BOOLEAN /\ in.expand \in BOOLEAN
         /\ \A c \in Commit : \A i \in DOMAIN in.parents[c] : in.parents[c][i] < c
<1>1. in \in InputType
  BY InputAssumption DEF TypeInv
<1>2. QED
  BY <1>1, InputAssumption DEF InputType, TypeInv

\* The parents of a commit.
LEMMA ParentFacts ==
  ASSUME TypeInv, NEW c \in Commit
  PROVE  /\ Parents(c) \in Seq(Commit) /\ Len(Parents(c)) \in Nat
         /\ DOMAIN Parents(c) = 1 .. Len(Parents(c))
         /\ \A k \in DOMAIN Parents(c) : Parents(c)[k] \in Commit /\ Parents(c)[k] < c
         /\ Elements(Parents(c)) \subseteq Commit
         /\ Parents(c) # << >> => 1 \in DOMAIN Parents(c)
<1>1. Parents(c) \in Seq(Commit)
  BY InputFacts DEF Parents
<1>2. /\ Len(Parents(c)) \in Nat /\ DOMAIN Parents(c) = 1 .. Len(Parents(c))
      /\ \A k \in DOMAIN Parents(c) : Parents(c)[k] \in Commit
      /\ Parents(c) # << >> => Len(Parents(c)) \in Nat \ {0}
  BY <1>1, LenProperties, ElementOfSeq, EmptySeq
<1>3. \A k \in DOMAIN Parents(c) : Parents(c)[k] < c
  BY InputFacts DEF Parents
<1>4. QED
  BY <1>1, <1>2, <1>3 DEF Elements

\* The parents that are followed, and the tree of a commit.
LEMMA FollowedFacts ==
  ASSUME TypeInv, NEW c \in Commit
  PROVE  /\ Followed(c) \subseteq Elements(Parents(c)) /\ Followed(c) \subseteq Commit
         /\ \A d \in Elements(Parents(c)) : d \in Commit /\ d < c
         /\ Parents(c) # << >> => Parents(c)[1] \in Followed(c)
         /\ TreeOID(c) \in Tree
<1>1. Followed(c) \subseteq Elements(Parents(c))
  BY ParentFacts DEF Followed, Elements
<1>2. \A d \in Elements(Parents(c)) : d \in Commit /\ d < c
  BY ParentFacts DEF Elements
<1>3. Parents(c) # << >> => Parents(c)[1] \in Followed(c)
  BY ParentFacts DEF Followed, Elements
<1>4. TreeOID(c) \in Tree
  BY InputFacts DEF TreeOID
<1>5. QED
  BY <1>1, <1>2, <1>3, <1>4

\* The elements of a sequence, and of a longer one.
LEMMA ElementsFacts ==
  ASSUME NEW X, NEW s \in Seq(X)
  PROVE  /\ Elements(s) \subseteq X /\ DOMAIN s = 1 .. Len(s) /\ Len(s) \in Nat
         /\ \A e \in X : /\ Append(s, e) \in Seq(X)
                         /\ Elements(Append(s, e)) = Elements(s) \cup {e}
                         /\ DOMAIN Append(s, e) = 1 .. Len(s) + 1
                         /\ Append(s, e)[Len(s) + 1] = e
                         /\ \A i \in 1 .. Len(s) : Append(s, e)[i] = s[i]
<1>1. DOMAIN s = 1 .. Len(s) /\ Len(s) \in Nat /\ \A i \in 1 .. Len(s) : s[i] \in X
  BY LenProperties, ElementOfSeq
<1>2. Elements(s) \subseteq X
  BY <1>1 DEF Elements
<1>3. ASSUME NEW e \in X
      PROVE  /\ Append(s, e) \in Seq(X)
             /\ Elements(Append(s, e)) = Elements(s) \cup {e}
             /\ DOMAIN Append(s, e) = 1 .. Len(s) + 1
             /\ Append(s, e)[Len(s) + 1] = e
             /\ \A i \in 1 .. Len(s) : Append(s, e)[i] = s[i]
  <2> DEFINE t == Append(s, e)
  <2>1. /\ t \in Seq(X) /\ Len(t) = Len(s) + 1 /\ t[Len(s) + 1] = e
        /\ \A i \in 1 .. Len(s) : t[i] = s[i]
    BY AppendProperties
  <2>2. DOMAIN t = 1 .. Len(s) + 1
    BY <2>1, LenProperties
  <2> HIDE DEF t
  <2>3. Elements(t) = Elements(s) \cup {e}
    <3>1. \A i \in 1 .. Len(s) : i \in DOMAIN t /\ Len(s) + 1 \in DOMAIN t
      BY <1>1, <2>2
    <3>2. Len(s) + 1 \in DOMAIN t /\ \A i \in DOMAIN t : i = Len(s) + 1 \/ i \in 1 .. Len(s)
      BY <1>1, <2>2
    <3>3. QED
      BY <1>1, <2>1, <3>1, <3>2 DEF Elements
  <2>4. QED
    BY <2>1, <2>2, <2>3 DEF t
<1>4. QED
  BY <1>1, <1>2, <1>3

\* Filtering keeps what it should and nothing else.
LEMMA WithoutFacts ==
  ASSUME NEW X, NEW s \in Seq(X), NEW S
  PROVE  Without(s, S) \in Seq(X) /\ Elements(Without(s, S)) = Elements(s) \ S
<1> DEFINE N == Len(s)
           Step(g, i) == IF i = 0        THEN << >>
                         ELSE IF s[i] \in S THEN g[i - 1]
                                            ELSE Append(g[i - 1], s[i])
           Def(g) == [i \in 0 .. N |-> Step(g, i)]
           F == [g \in [0 .. N -> Seq(X)] |-> Def(g)]
           f == CHOOSE g : g = Def(g)
<1>1. N \in Nat /\ DOMAIN s = 1 .. N /\ \A i \in 1 .. N : s[i] \in X
  BY LenProperties, ElementOfSeq
<1>2. << >> \in Seq(X)
  BY EmptySeq
<1>3. LooksBelow(F, N, Seq(X))
  <2>1. ASSUME NEW g \in [0 .. N -> Seq(X)], NEW i \in 0 .. N PROVE F[g][i] \in Seq(X)
    <3>1. CASE i = 0
      BY <1>2, <3>1
    <3>2. CASE i # 0
      <4>1. i - 1 \in 0 .. N /\ s[i] \in X
        BY <1>1, <3>2
      <4>2. g[i - 1] \in Seq(X) /\ Append(g[i - 1], s[i]) \in Seq(X)
        BY <4>1, AppendProperties
      <4>3. QED
        BY <3>2, <4>2
    <3>3. QED
      BY <3>1, <3>2
  <2>2. ASSUME NEW g \in [0 .. N -> Seq(X)], NEW h \in [0 .. N -> Seq(X)], NEW i \in 0 .. N,
               \A k \in 0 .. i - 1 : g[k] = h[k]
        PROVE  F[g][i] = F[h][i]
    <3>1. i # 0 => g[i - 1] = h[i - 1]
      BY <1>1, <2>2
    <3>2. QED
      BY <3>1
  <2> HIDE DEF F
  <2>3. QED
    BY <2>1, <2>2 DEF LooksBelow
<1>4. f = Def(f)
  <2>1. PICK g : Solves(g, F, N, Seq(X))
    <3> HIDE DEF F, N
    <3>1. QED
      BY <1>1, <1>2, <1>3, RecursionFromBelow
  <2>2. g \in [0 .. N -> Seq(X)] /\ \A i \in 0 .. N : g[i] = F[g][i]
    BY <2>1 DEF Solves
  <2>3. g = Def(g)
    BY <2>2
  <2> HIDE DEF Def
  <2>4. QED
    BY <2>3, Zenon
<1>5. Without(s, S) = f[N]
  BY Zenon DEF Without
<1> HIDE DEF f
<1>6. \A i \in 0 .. N : f[i] = Step(f, i)
  BY <1>4
<1> DEFINE Upto(i) == { s[k] : k \in 1 .. i }
           G == {i \in 0 .. N : f[i] \in Seq(X) /\ Elements(f[i]) = Upto(i) \ S}
<1>7. \A i \in 0 .. N : i \in G
  <2>1. ASSUME NEW i \in 0 .. N, \A k \in 0 .. N : k < i => k \in G PROVE i \in G
    <3>1. CASE i = 0
      <4>1. f[i] = << >> /\ Upto(i) = {} /\ Elements(<< >>) = {}
        BY <1>6, <3>1 DEF Elements
      <4>2. QED
        BY <1>2, <4>1
    <3>2. CASE i # 0
      <4>1. i - 1 \in 0 .. N /\ i - 1 < i /\ s[i] \in X
        BY <1>1, <3>2
      <4>2. f[i - 1] \in Seq(X) /\ Elements(f[i - 1]) = Upto(i - 1) \ S
        BY <2>1, <4>1
      <4>3. Upto(i) = Upto(i - 1) \cup {s[i]}
        <5>1. \A k \in 1 .. i : k = i \/ k \in 1 .. i - 1
          BY <1>1
        <5>2. i \in 1 .. i /\ \A k \in 1 .. i - 1 : k \in 1 .. i
          BY <1>1, <3>2
        <5>3. QED
          BY <5>1, <5>2
      <4>4. f[i] = IF s[i] \in S THEN f[i - 1] ELSE Append(f[i - 1], s[i])
        BY <1>6, <3>2
      <4> HIDE DEF Upto
      <4>5. /\ Append(f[i - 1], s[i]) \in Seq(X)
            /\ Elements(Append(f[i - 1], s[i])) = Elements(f[i - 1]) \cup {s[i]}
        BY <4>1, <4>2, ElementsFacts
      <4>6. f[i] \in Seq(X) /\ Elements(f[i]) = Upto(i) \ S
        BY <4>2, <4>3, <4>4, <4>5
      <4>7. QED
        BY <4>6
    <3>3. QED
      BY <3>1, <3>2
  <2>2. 0 .. N \in SUBSET Nat
    BY <1>1
  <2> HIDE DEF G
  <2>3. QED
    BY <2>1, <2>2, InductionFromBelow
<1>8. Elements(s) = Upto(N)
  BY <1>1 DEF Elements
<1>9. N \in 0 .. N
  BY <1>1
<1>10. QED
  BY <1>5, <1>7, <1>8, <1>9

-----------------------------------------------------------------------------
(* Types and control.                                                      *)

Steps ==
  Abort \/ Cancel \/ ExcludeNext \/ PushTips \/ VisitCommit \/ CollectDone
  \/ SkipCommit \/ FailOnTree \/ DiffCommit \/ TraverseCommit
  \/ CheckOther \/ FindOther \/ ReportMerge \/ EndCommit \/ Return

\* A step, or none.
LEMMA NextCases ==
  [Next]_vars => Steps \/ UNCHANGED vars \/ \E p \in Path : TraverseEntry(p) \/ DiffEntry(p)
BY Zenon DEF Next, Walk, Steps

\* The occurrence that a report hands over.
Credit(p) == [commit |-> Now, blob |-> TreeOID(Now)[p], path |-> p]

\* A report hands over the occurrence, or has done so before.
LEMMA ReportEffect ==
  ASSUME TypeInv, pos \in DOMAIN matched, NEW p \in Path, TreeOID(Now)[p] # NoBlob, Report(p)
  PROVE  /\ Now \in Commit /\ Credit(p) \in Occurrence
         /\ \/ /\ in.expand = FALSE /\ << TreeOID(Now)[p], p >> \in seen
               /\ emitted' = emitted /\ seen' = seen
            \/ /\ in.expand = TRUE \/ << TreeOID(Now)[p], p >> \notin seen
               /\ emitted' = Append(emitted, Credit(p))
               /\ seen' = IF in.expand THEN seen ELSE seen \cup {<< TreeOID(Now)[p], p >>}
         /\ emitted' \in Seq(Occurrence) /\ seen' \in SUBSET (Blob \X Path)
<1>1. Now \in Commit
  BY ElementOfSeq, ElementsFacts DEF TypeInv, Now
<1>2. TreeOID(Now)[p] \in Blob
  BY <1>1, FollowedFacts DEF Tree
<1>3. Credit(p) \in Occurrence
  BY <1>1, <1>2 DEF Credit, Occurrence
<1>4. in.expand \in BOOLEAN
  BY InputFacts
<1>5. CASE in.expand = FALSE /\ << TreeOID(Now)[p], p >> \in seen
  BY <1>1, <1>3, <1>5 DEF Report, occurrence, TypeInv
<1>6. CASE in.expand = TRUE \/ << TreeOID(Now)[p], p >> \notin seen
  <2>1. /\ emitted' = Append(emitted, Credit(p))
        /\ seen' = IF in.expand THEN seen ELSE seen \cup {<< TreeOID(Now)[p], p >>}
    BY <1>6 DEF Report, Credit
  <2>2. emitted' \in Seq(Occurrence)
    BY <1>3, <2>1, AppendProperties DEF TypeInv
  <2>3. seen' \in SUBSET (Blob \X Path)
    BY <1>2, <2>1 DEF TypeInv
  <2>4. QED
    BY <1>1, <1>3, <1>6, <2>1, <2>2, <2>3
<1>7. QED
  BY <1>4, <1>5, <1>6

\* The initial state.
LEMMA InitControl == Init => TypeInv /\ EntryInv /\ MatchInv
<1> SUFFICES ASSUME Init PROVE TypeInv /\ EntryInv /\ MatchInv
  OBVIOUS
<1>1. in \in InputType
  BY InputAssumption DEF Init
<1>2. in.exclude \in Seq(Commit)
  BY <1>1 DEF InputType
<1>3. << >> \in Seq(Commit) /\ << >> \in Seq(Occurrence)
  BY EmptySeq
<1>4. TypeInv
  <2>1. /\ in \in Input /\ ctxCancelled \in BOOLEAN /\ pc \in Label /\ stack \in Seq(Commit)
        /\ matched \in Seq(Commit) /\ emitted \in Seq(Occurrence)
    BY <1>2, <1>3 DEF Init, Label
  <2>2. /\ excluded = {} /\ visited = {} /\ queue = {} /\ todo = {} /\ seen = {}
        /\ pos = 1 /\ other = 0 /\ at = NoPath
    BY DEF Init
  <2>3. QED
    BY <2>1, <2>2 DEF TypeInv
<1>5. EntryInv
  BY DEF Init, EntryInv, Working, Searching
<1>6. MatchInv
  BY DEF Init, MatchInv, Elements
<1>7. QED
  BY <1>4, <1>5, <1>6

\* The closing of the excluded revisions.
LEMMA ExcludeNextEffect ==
  ASSUME TypeInv, ExcludeNext
  PROVE  /\ pc = "exclude" /\ stack # << >>
         /\ UNCHANGED << in, ctxCancelled, pc, collection, walk >>
         /\ stack' \in Seq(Commit)
         /\ \E c \in Elements(stack) :
              /\ c \in Commit /\ excluded' = excluded \cup {c}
              /\ Elements(stack) \subseteq Elements(stack') \cup {c}
              /\ IF c \in excluded \/ ~Readable(c)
                 THEN Elements(stack') \subseteq Elements(stack)
                 ELSE /\ Elements(stack') \subseteq Elements(stack) \cup Elements(Parents(c))
                      /\ Elements(Parents(c)) \subseteq Elements(stack') \cup excluded'
<1> DEFINE n == Len(stack)
           c == stack[n]
           rest == SubSeq(stack, 1, n - 1)
           new  == Without(Parents(c), excluded \cup {c})
<1>1. /\ pc = "exclude" /\ stack # << >>
      /\ UNCHANGED << in, ctxCancelled, pc, collection, walk >>
      /\ excluded' = excluded \cup {c}
      /\ stack' = IF c \in excluded \/ ~Readable(c) THEN rest ELSE rest \o new
  BY DEF ExcludeNext
<1>2. /\ stack \in Seq(Commit) /\ n \in Nat \ {0} /\ DOMAIN stack = 1 .. n
      /\ \A i \in 1 .. n : stack[i] \in Commit
  BY <1>1, LenProperties, EmptySeq, ElementOfSeq DEF TypeInv
<1> HIDE DEF n
<1>3. c \in Commit /\ c \in Elements(stack)
  BY <1>2 DEF Elements
<1>4. /\ rest \in Seq(Commit) /\ Len(rest) = n - 1
      /\ \A i \in 1 .. n - 1 : rest[i] = stack[i]
  <2>1. 1 \in Int /\ n - 1 \in Int /\ \A i \in 1 .. n - 1 : stack[i] \in Commit
    BY <1>2
  <2>2. /\ rest \in Seq(Commit)
        /\ Len(rest) = IF 1 <= n - 1 THEN (n - 1) - 1 + 1 ELSE 0
        /\ \A l \in 1 .. (n - 1) - 1 + 1 : rest[l] = stack[1 + l - 1]
    BY <2>1, SubSeqProperties
  <2> HIDE DEF rest
  <2>3. QED
    BY <1>2, <2>2
<1>5. new \in Seq(Commit) /\ Elements(new) = Elements(Parents(c)) \ (excluded \cup {c})
  BY <1>3, ParentFacts, WithoutFacts
<1> HIDE DEF rest, new
<1>6. Elements(stack) = Elements(rest) \cup {c}
  <2>1. DOMAIN rest = 1 .. n - 1
    BY <1>4, LenProperties
  <2>2. \A i \in 1 .. n : i = n \/ i \in 1 .. n - 1
    BY <1>2
  <2>3. n \in 1 .. n /\ \A i \in 1 .. n - 1 : i \in 1 .. n
    BY <1>2
  <2>4. QED
    BY <1>2, <1>4, <2>1, <2>2, <2>3 DEF Elements
<1>7. rest \o new \in Seq(Commit) /\ Elements(rest \o new) = Elements(rest) \cup Elements(new)
  <2> DEFINE t == rest \o new
  <2>1. /\ t \in Seq(Commit) /\ Len(t) = Len(rest) + Len(new)
        /\ \A i \in 1 .. Len(rest) + Len(new) :
             t[i] = IF i <= Len(rest) THEN rest[i] ELSE new[i - Len(rest)]
    <3>1. rest \in Seq(Commit) /\ new \in Seq(Commit)
      BY <1>4, <1>5
    <3>2. QED
      BY <3>1, ConcatProperties
  <2>2. /\ DOMAIN t = 1 .. Len(t) /\ DOMAIN rest = 1 .. Len(rest) /\ DOMAIN new = 1 .. Len(new)
        /\ Len(rest) \in Nat /\ Len(new) \in Nat
    BY <1>4, <1>5, <2>1, LenProperties
  <2> HIDE DEF t
  <2>3. Elements(t) \subseteq Elements(rest) \cup Elements(new)
    <3> SUFFICES ASSUME NEW i \in DOMAIN t PROVE t[i] \in Elements(rest) \cup Elements(new)
      BY DEF Elements
    <3>1. i <= Len(rest) => i \in DOMAIN rest
      BY <2>1, <2>2
    <3>2. ~(i <= Len(rest)) => i - Len(rest) \in DOMAIN new
      BY <2>1, <2>2
    <3>3. QED
      BY <2>1, <2>2, <3>1, <3>2 DEF Elements
  <2>4. Elements(rest) \subseteq Elements(t)
    <3>1. \A i \in DOMAIN rest : i \in DOMAIN t /\ t[i] = rest[i]
      BY <2>1, <2>2
    <3>2. QED
      BY <3>1 DEF Elements
  <2>5. Elements(new) \subseteq Elements(t)
    <3>1. \A i \in DOMAIN new : i + Len(rest) \in DOMAIN t /\ t[i + Len(rest)] = new[i]
      BY <2>1, <2>2
    <3>2. QED
      BY <3>1 DEF Elements
  <2>6. QED
    BY <2>1, <2>3, <2>4, <2>5 DEF t
<1> HIDE DEF c
<1>8. CASE c \in excluded \/ ~Readable(c)
  BY <1>1, <1>3, <1>4, <1>6, <1>8
<1>9. CASE ~(c \in excluded \/ ~Readable(c))
  BY <1>1, <1>3, <1>4, <1>5, <1>6, <1>7, <1>9
<1>10. QED
  BY <1>8, <1>9

\* Types are kept by every step.
LEMMA NextTypeInv == TypeInv /\ EntryInv /\ [Next]_vars => TypeInv'
<1> SUFFICES ASSUME TypeInv, EntryInv, [Next]_vars PROVE TypeInv'
  OBVIOUS
<1>1. CASE UNCHANGED vars
  BY <1>1 DEF TypeInv, vars
<1>2. CASE Abort \/ Cancel
  BY <1>2 DEF Abort, Cancel, TypeInv, exclusion, collection, walk, Label
<1>3. CASE ExcludeNext
  <2>1. stack' \in Seq(Commit) /\ UNCHANGED << in, ctxCancelled, pc, collection, walk >>
    BY <1>3, ExcludeNextEffect
  <2>2. excluded' \in SUBSET Commit
    BY <1>3, ExcludeNextEffect DEF TypeInv
  <2>3. QED
    BY <2>1, <2>2 DEF TypeInv, collection, walk
<1>4. CASE PushTips
  <2>1. Fresh(in.include) \subseteq Commit
    BY InputFacts DEF Fresh
  <2>2. QED
    BY <1>4, <2>1 DEF PushTips, TypeInv, exclusion, walk, Label
<1>5. CASE VisitCommit
  <2>1. PICK c \in Newest :
          /\ matched' = IF Matches(c) THEN Append(matched, c) ELSE matched
          /\ visited' = visited \cup Fresh(Followed(c))
          /\ queue'   = (queue \ {c}) \cup { d \in Fresh(Followed(c)) : Readable(d) }
    BY <1>5 DEF VisitCommit
  <2>2. c \in Commit
    BY <2>1 DEF Newest, TypeInv
  <2>3. Fresh(Followed(c)) \subseteq Commit /\ Append(matched, c) \in Seq(Commit)
    BY <2>2, FollowedFacts, ElementsFacts DEF Fresh, TypeInv
  <2>4. UNCHANGED << in, ctxCancelled, pc, exclusion, walk >>
    BY <1>5 DEF VisitCommit
  <2>5. matched' \in Seq(Commit) /\ visited' \in SUBSET Commit /\ queue' \in SUBSET Commit
    BY <2>1, <2>3 DEF TypeInv
  <2>6. QED
    BY <2>4, <2>5 DEF TypeInv, exclusion, walk
<1>6. CASE CollectDone \/ FailOnTree \/ CheckOther \/ Return
  BY <1>6 DEF CollectDone, FailOnTree, CheckOther, Return, TypeInv, exclusion, collection, walk,
              Label
<1>7. CASE SkipCommit \/ EndCommit
  BY <1>7 DEF SkipCommit, EndCommit, TypeInv, exclusion, collection, entry, occurrence, Label
<1>8. CASE DiffCommit \/ TraverseCommit
  BY <1>8 DEF DiffCommit, TraverseCommit, TypeInv, exclusion, collection, occurrence, Label
<1>9. CASE FindOther
  BY <1>9 DEF FindOther, TypeInv, exclusion, collection, occurrence, Label
<1>10. CASE ReportMerge
  <2>1. pos \in DOMAIN matched /\ at \in Path /\ TreeOID(Now)[at] # NoBlob
    BY <1>10 DEF ReportMerge, EntryInv, Working, Searching, News
  <2>2. emitted' \in Seq(Occurrence) /\ seen' \in SUBSET (Blob \X Path)
    BY <1>10, <2>1, ReportEffect DEF ReportMerge
  <2>3. QED
    BY <1>10, <2>2 DEF ReportMerge, TypeInv, exclusion, collection, Label
<1>11. ASSUME NEW p \in Path, TraverseEntry(p) \/ DiffEntry(p) PROVE TypeInv'
  <2>1. pos \in DOMAIN matched /\ TreeOID(Now)[p] # NoBlob
    BY <1>11 DEF TraverseEntry, DiffEntry, EntryInv, Working, News
  <2>2. emitted' \in Seq(Occurrence) /\ seen' \in SUBSET (Blob \X Path)
    <3>1. CASE Report(p)
      BY <2>1, <3>1, ReportEffect
    <3>2. CASE UNCHANGED occurrence
      BY <3>2 DEF occurrence, TypeInv
    <3>3. QED
      BY <1>11, <3>1, <3>2 DEF TraverseEntry, DiffEntry
  <2>3. pc' \in Label /\ at' \in Path \cup {NoPath} /\ other' \in Nat
    BY <1>11 DEF TraverseEntry, DiffEntry, TypeInv, Label
  <2>4. /\ UNCHANGED << in, ctxCancelled, exclusion, collection, pos >>
        /\ todo' = todo \ {p}
    BY <1>11 DEF TraverseEntry, DiffEntry
  <2>5. QED
    BY <2>2, <2>3, <2>4 DEF TypeInv, exclusion, collection
<1>12. QED
  BY <1>1, <1>2, <1>3, <1>4, <1>5, <1>6, <1>7, <1>8, <1>9, <1>10, <1>11, NextCases DEF Steps

\* The input never changes, nor what is said about its commits.
LEMMA InputStays ==
  ASSUME [Next]_vars
  PROVE  /\ in' = in /\ (ctxCancelled => ctxCancelled')
         /\ \A c : /\ Parents(c)' = Parents(c) /\ Readable(c)' = Readable(c)
                   /\ TreeOID(c)' = TreeOID(c) /\ TreeLost(c)' = TreeLost(c)
                   /\ Diffs(c)' = Diffs(c) /\ News(c)' = News(c) /\ IsMerge(c)' = IsMerge(c)
                   /\ Followed(c)' = Followed(c) /\ Compared(c)' = Compared(c)
                   /\ Files(c)' = Files(c)
                   /\ \A p, b : Lacks(c, p, b)' = Lacks(c, p, b)
<1>1. in' = in /\ (ctxCancelled => ctxCancelled')
  <2>1. CASE UNCHANGED vars
    BY <2>1 DEF vars
  <2>2. CASE Steps
    <3>1. CASE Cancel
      BY <3>1 DEF Cancel
    <3>2. CASE ~Cancel
      <4>1. UNCHANGED << in, ctxCancelled >>
        BY <2>2, <3>2 DEF Steps, Abort, ExcludeNext, PushTips, VisitCommit, CollectDone,
                          SkipCommit, FailOnTree, DiffCommit, TraverseCommit, CheckOther,
                          FindOther, ReportMerge, EndCommit, Return
      <4>2. QED
        BY <4>1
    <3>3. QED
      BY <3>1, <3>2
  <2>3. CASE \E p \in Path : TraverseEntry(p) \/ DiffEntry(p)
    BY <2>3 DEF TraverseEntry, DiffEntry
  <2>4. QED
    BY <2>1, <2>2, <2>3, NextCases
<1>2. QED
  BY <1>1 DEF Parents, Readable, TreeOID, TreeLost, Diffs, News, OldEntry, IsMerge, Followed,
              Compared, Files, Lacks

\* No commit is matched twice, in any step.
LEMMA NextMatchInv == TypeInv /\ MatchInv /\ [Next]_vars => MatchInv'
<1> SUFFICES ASSUME TypeInv, MatchInv, [Next]_vars PROVE MatchInv'
  OBVIOUS
<1>1. CASE UNCHANGED collection /\ (pc' = "exclude" => pc = "exclude")
  BY <1>1 DEF MatchInv, collection, Elements
<1>2. CASE PushTips
  <2>1. /\ matched' = << >> /\ pc' = "collect" /\ Elements(<< >>) = {}
        /\ visited' = Fresh(in.include) /\ queue' = { c \in Fresh(in.include) : Readable(c) }
    BY <1>2 DEF PushTips, MatchInv, Elements
  <2>2. QED
    BY <2>1 DEF MatchInv
<1>3. CASE VisitCommit
  <2>1. PICK c \in Newest :
          /\ matched' = IF Matches(c) THEN Append(matched, c) ELSE matched
          /\ visited' = visited \cup Fresh(Followed(c))
          /\ queue'   = (queue \ {c}) \cup { d \in Fresh(Followed(c)) : Readable(d) }
    BY <1>3 DEF VisitCommit
  <2>2. c \in queue /\ c \in Commit /\ c \in visited /\ pc' = "collect"
    BY <1>3, <2>1 DEF Newest, TypeInv, MatchInv, VisitCommit
  <2>3. /\ queue' \subseteq visited' /\ c \notin queue'
        /\ Elements(matched) \cup {c} \subseteq visited' \ queue'
    BY <2>1, <2>2 DEF MatchInv, Fresh
  <2>4. CASE Matches(c)
    <3>1. /\ Elements(matched') = Elements(matched) \cup {c}
          /\ DOMAIN matched = 1 .. Len(matched) /\ Len(matched) \in Nat
          /\ DOMAIN matched' = 1 .. Len(matched) + 1 /\ matched'[Len(matched) + 1] = c
          /\ \A i \in 1 .. Len(matched) : matched'[i] = matched[i]
      BY <2>1, <2>2, <2>4, ElementsFacts DEF TypeInv
    <3>2. \A i \in DOMAIN matched : matched[i] # c
      BY <2>2 DEF MatchInv, Elements
    <3>3. \A i \in DOMAIN matched' : i = Len(matched) + 1 \/ i \in DOMAIN matched
      BY <3>1
    <3>4. \A i, k \in DOMAIN matched' : matched'[i] = matched'[k] => i = k
      BY <3>1, <3>2, <3>3 DEF MatchInv
    <3>5. QED
      BY <2>2, <2>3, <3>1, <3>4 DEF MatchInv
  <2>5. CASE ~Matches(c)
    BY <2>1, <2>2, <2>3, <2>5 DEF MatchInv, Elements
  <2>6. QED
    BY <2>4, <2>5
<1>4. CASE Steps /\ ~PushTips /\ ~VisitCommit
  <2>1. UNCHANGED collection /\ (pc' = "exclude" => pc = "exclude")
    BY <1>4 DEF Steps, Abort, Cancel, ExcludeNext, CollectDone, SkipCommit, FailOnTree,
                DiffCommit, TraverseCommit, CheckOther, FindOther, ReportMerge, EndCommit, Return
  <2>2. QED
    BY <1>1, <2>1
<1>5. CASE UNCHANGED vars
  BY <1>1, <1>5 DEF vars, collection
<1>6. CASE \E p \in Path : TraverseEntry(p) \/ DiffEntry(p)
  <2>1. UNCHANGED collection /\ (pc' = "exclude" => pc = "exclude")
    BY <1>6 DEF TraverseEntry, DiffEntry
  <2>2. QED
    BY <1>1, <2>1
<1>7. QED
  BY <1>2, <1>3, <1>4, <1>5, <1>6, NextCases

\* The control is kept by every step.
LEMMA NextEntryInv == TypeInv /\ EntryInv /\ [Next]_vars => EntryInv'
<1> SUFFICES ASSUME TypeInv, EntryInv, [Next]_vars PROVE EntryInv'
  OBVIOUS
<1> USE DEF Working, Searching
<1>1. /\ in' = in /\ (ctxCancelled => ctxCancelled')
      /\ \A c : /\ Parents(c)' = Parents(c) /\ TreeOID(c)' = TreeOID(c)
                /\ Diffs(c)' = Diffs(c) /\ News(c)' = News(c) /\ IsMerge(c)' = IsMerge(c)
                /\ \A p, b : Lacks(c, p, b)' = Lacks(c, p, b)
  BY InputStays
<1>2. ASSUME matched' = matched, pos' = pos PROVE Now' = Now
  BY <1>2 DEF Now
<1>3. CASE UNCHANGED << pc, collection, walk >>
  <2>1. Now' = Now
    BY <1>2, <1>3 DEF collection, walk
  <2>2. QED
    BY <1>1, <1>3, <2>1 DEF EntryInv, collection, walk
<1>4. CASE pc' = "failed"
  BY <1>4 DEF EntryInv
<1>5. CASE Abort \/ FailOnTree
  BY <1>4, <1>5 DEF Abort, FailOnTree
<1>6. CASE Cancel \/ ExcludeNext \/ UNCHANGED vars
  BY <1>3, <1>6 DEF Cancel, ExcludeNext, vars, collection, walk
<1>7. CASE PushTips \/ VisitCommit \/ CollectDone
  BY <1>7 DEF PushTips, VisitCommit, CollectDone, EntryInv, walk
<1>8. CASE SkipCommit \/ EndCommit \/ Return
  BY <1>8 DEF SkipCommit, EndCommit, Return, EntryInv, walk, collection
<1>9. CASE DiffCommit \/ TraverseCommit
  <2>1. pos \in DOMAIN matched /\ Now' = Now
    BY <1>2, <1>9, ElementsFacts DEF DiffCommit, TraverseCommit, TypeInv, collection
  <2>2. CASE DiffCommit
    BY <1>1, <1>9, <2>1, <2>2 DEF DiffCommit, EntryInv, News, collection
  <2>3. CASE TraverseCommit
    BY <1>1, <1>9, <2>1, <2>3 DEF TraverseCommit, EntryInv, collection
  <2>4. QED
    BY <1>9, <2>2, <2>3
<1>10. ASSUME NEW p \in Path, TraverseEntry(p) PROVE EntryInv'
  <2>1. Now' = Now /\ pc = "full" /\ pc' = pc /\ pos' = pos /\ matched' = matched
        /\ todo' = todo \ {p}
    BY <1>2, <1>10 DEF TraverseEntry, collection
  <2>2. QED
    BY <1>1, <2>1 DEF EntryInv
<1>11. ASSUME NEW p \in Path, DiffEntry(p) PROVE EntryInv'
  <2>1. /\ Now' = Now /\ pc = "diff" /\ pos' = pos /\ matched' = matched
        /\ todo' = todo \ {p} /\ p \in todo
    BY <1>2, <1>11 DEF DiffEntry, collection
  <2>2. CASE p \in in.wanted /\ IsMerge(Now)
    <3>1. pc' = "other" /\ at' = p /\ other' = 2
      BY <1>11, <2>2 DEF DiffEntry
    <3>2. QED
      BY <1>1, <2>1, <2>2, <3>1 DEF EntryInv
  <2>3. CASE ~(p \in in.wanted /\ IsMerge(Now))
    <3>1. pc' = pc
      BY <1>11, <2>3 DEF DiffEntry
    <3>2. QED
      BY <1>1, <2>1, <3>1 DEF EntryInv
  <2>4. QED
    BY <2>2, <2>3
<1>12. CASE CheckOther
  <2>1. Now' = Now /\ pc = "other" /\ pc' = "find" /\ UNCHANGED << collection, walk, ctxCancelled >>
        /\ other <= Len(Parents(Now))
    BY <1>2, <1>12 DEF CheckOther, collection, walk
  <2>2. QED
    BY <1>1, <2>1 DEF EntryInv, collection, walk
<1>13. CASE FindOther
  <2>1. Now' = Now /\ pc = "find" /\ UNCHANGED << collection, pos, todo, ctxCancelled >>
    BY <1>2, <1>13 DEF FindOther, collection
  <2>2. CASE Holds(Parents(Now)[other], at, TreeOID(Now)[at])
    <3>1. pc' = "diff"
      BY <1>13, <2>2 DEF FindOther
    <3>2. QED
      BY <1>1, <2>1, <3>1 DEF EntryInv, collection
  <2>3. CASE ~Holds(Parents(Now)[other], at, TreeOID(Now)[at])
    <3>1. pc' = "other" /\ other' = other + 1 /\ at' = at
      BY <1>13, <2>3 DEF FindOther
    <3>2. ~ctxCancelled => Lacks(Parents(Now)[other], at, TreeOID(Now)[at])
      BY <2>3 DEF Holds, Lacks
    <3>3. other \in Nat /\ other > 1 /\ (other + 1) - 1 = other
      BY <2>1 DEF EntryInv, TypeInv
    <3>4. ~ctxCancelled => \A k \in 2 .. other : k <= Len(Parents(Now)) =>
            Lacks(Parents(Now)[k], at, TreeOID(Now)[at])
      <4>1. \A k \in 2 .. other : k = other \/ k \in 2 .. other - 1
        BY <3>3
      <4>2. QED
        BY <2>1, <3>2, <4>1 DEF EntryInv
    <3>5. QED
      BY <1>1, <2>1, <3>1, <3>3, <3>4 DEF EntryInv, collection
  <2>4. QED
    BY <2>2, <2>3
<1>14. CASE ReportMerge
  <2>1. Now' = Now /\ pc = "other" /\ pc' = "diff" /\ UNCHANGED << collection, pos, todo >>
    BY <1>2, <1>14 DEF ReportMerge, collection
  <2>2. QED
    BY <1>1, <2>1 DEF EntryInv, collection
<1>15. QED
  BY <1>5, <1>6, <1>7, <1>8, <1>9, <1>10, <1>11, <1>12, <1>13, <1>14, NextCases DEF Steps

ControlInv == TypeInv /\ EntryInv /\ MatchInv

\* Types and control always hold.
LEMMA AlwaysControl == Spec => []ControlInv
<1>1. Init => ControlInv
  BY InitControl DEF ControlInv
<1>2. ControlInv /\ [Next]_vars => ControlInv'
  BY NextTypeInv, NextEntryInv, NextMatchInv DEF ControlInv
<1>3. QED
  BY <1>1, <1>2, PTL DEF Spec

-----------------------------------------------------------------------------
(* The order of the commits.                                               *)

ByDate == \A c \in Commit : \A d \in Ancestry[c] : in.date[d] <= in.date[c]

\* What is queued is no newer than what has been matched.
DateInv ==
  ByDate =>
    /\ \A i, k \in DOMAIN matched : i < k => in.date[matched[i]] >= in.date[matched[k]]
    /\ \A c \in queue : \A i \in DOMAIN matched : in.date[c] <= in.date[matched[i]]

\* The heap keeps the order, in any step.
LEMMA NextDateInv == ControlInv /\ DateInv /\ [Next]_vars => DateInv'
<1> SUFFICES ASSUME ControlInv, DateInv, [Next]_vars PROVE DateInv'
  OBVIOUS
<1>1. TypeInv /\ MatchInv /\ in' = in /\ in.date \in [Commit -> Nat]
  BY InputStays, InputFacts DEF ControlInv
<1>2. ByDate' = ByDate
  BY <1>1 DEF ByDate, Ancestry, Elements, Parents
<1>3. CASE UNCHANGED collection
  BY <1>1, <1>2, <1>3 DEF DateInv, collection
<1>4. CASE PushTips
  <2>1. matched' = << >>
    BY <1>1, <1>4 DEF PushTips, MatchInv
  <2>2. QED
    BY <2>1 DEF DateInv
<1>5. CASE VisitCommit
  <2> SUFFICES ASSUME ByDate
               PROVE  /\ \A i, k \in DOMAIN matched' :
                           i < k => in.date[matched'[i]] >= in.date[matched'[k]]
                      /\ \A d \in queue' : \A i \in DOMAIN matched' :
                           in.date[d] <= in.date[matched'[i]]
    BY <1>1, <1>2 DEF DateInv
  <2>1. PICK c \in Newest :
          /\ matched' = IF Matches(c) THEN Append(matched, c) ELSE matched
          /\ visited' = visited \cup Fresh(Followed(c))
          /\ queue'   = (queue \ {c}) \cup { d \in Fresh(Followed(c)) : Readable(d) }
    BY <1>5 DEF VisitCommit
  <2>2. /\ c \in queue /\ c \in Commit /\ \A d \in queue : in.date[c] >= in.date[d]
        /\ queue \subseteq Commit
    BY <1>1, <2>1 DEF Newest, TypeInv
  <2>3. /\ DOMAIN matched = 1 .. Len(matched) /\ Len(matched) \in Nat
        /\ \A i \in DOMAIN matched : matched[i] \in Commit
    BY <1>1, ElementsFacts DEF TypeInv, Elements
  <2>4. \A i \in DOMAIN matched : in.date[c] <= in.date[matched[i]]
    BY <2>2 DEF DateInv
  <2>5. \A d \in queue' : d \in Commit /\ in.date[d] <= in.date[c]
    <3>1. \A d \in Followed(c) : d \in Commit /\ in.date[d] <= in.date[c]
      BY <1>1, <2>2, FollowedFacts DEF ByDate, Ancestry
    <3>2. Fresh(Followed(c)) \subseteq Followed(c)
      BY DEF Fresh
    <3>3. QED
      BY <1>1, <2>1, <2>2, <3>1, <3>2
  <2>6. \A i \in DOMAIN matched' : matched'[i] \in Commit /\ in.date[c] <= in.date[matched'[i]]
    <3>1. CASE Matches(c)
      <4>1. /\ DOMAIN matched' = 1 .. Len(matched) + 1 /\ matched'[Len(matched) + 1] = c
            /\ \A i \in 1 .. Len(matched) : matched'[i] = matched[i]
        BY <1>1, <2>1, <2>2, <3>1, ElementsFacts DEF TypeInv
      <4>2. \A i \in DOMAIN matched' : i = Len(matched) + 1 \/ i \in DOMAIN matched
        BY <2>3, <4>1
      <4>3. QED
        BY <1>1, <2>2, <2>3, <2>4, <4>1, <4>2
    <3>2. CASE ~Matches(c)
      BY <2>1, <2>3, <2>4, <3>2
    <3>3. QED
      BY <3>1, <3>2
  <2>7. \A d \in queue' : \A i \in DOMAIN matched' : in.date[d] <= in.date[matched'[i]]
    <3> SUFFICES ASSUME NEW d \in queue', NEW i \in DOMAIN matched'
                 PROVE  in.date[d] <= in.date[matched'[i]]
      OBVIOUS
    <3>1. /\ in.date[d] \in Nat /\ in.date[c] \in Nat /\ in.date[matched'[i]] \in Nat
      BY <1>1, <2>2, <2>5, <2>6
    <3>2. QED
      BY <2>5, <2>6, <3>1
  <2>8. \A i, k \in DOMAIN matched' : i < k => in.date[matched'[i]] >= in.date[matched'[k]]
    <3>1. CASE Matches(c)
      <4>1. /\ DOMAIN matched' = 1 .. Len(matched) + 1 /\ matched'[Len(matched) + 1] = c
            /\ \A i \in 1 .. Len(matched) : matched'[i] = matched[i]
        BY <1>1, <2>1, <2>2, <3>1, ElementsFacts DEF TypeInv
      <4> SUFFICES ASSUME NEW i \in DOMAIN matched', NEW k \in DOMAIN matched', i < k
                   PROVE  in.date[matched'[i]] >= in.date[matched'[k]]
        OBVIOUS
      <4>2. i \in DOMAIN matched
        BY <2>3, <4>1
      <4>3. CASE k = Len(matched) + 1
        BY <1>1, <2>2, <2>3, <2>4, <4>1, <4>2, <4>3
      <4>4. CASE k # Len(matched) + 1
        <5>1. k \in DOMAIN matched
          BY <2>3, <4>1, <4>4
        <5>2. QED
          BY <2>3, <4>1, <4>2, <5>1 DEF DateInv
      <4>5. QED
        BY <4>3, <4>4
    <3>2. CASE ~Matches(c)
      BY <2>1, <3>2 DEF DateInv
    <3>3. QED
      BY <3>1, <3>2
  <2>9. QED
    BY <2>7, <2>8
<1>6. CASE UNCHANGED vars \/ \E p \in Path : TraverseEntry(p) \/ DiffEntry(p)
  BY <1>3, <1>6 DEF vars, collection, TraverseEntry, DiffEntry
<1>7. CASE Steps /\ ~PushTips /\ ~VisitCommit
  BY <1>3, <1>7 DEF Steps, Abort, Cancel, ExcludeNext, CollectDone, SkipCommit, FailOnTree,
              DiffCommit, TraverseCommit, CheckOther, FindOther, ReportMerge, EndCommit, Return
<1>8. QED
  BY <1>4, <1>5, <1>6, <1>7, NextCases

(***************************************************************************)
(* Unless a commit is older than its parent, the heap of walker.go hands   *)
(* commits over newest first, whatever the shape of the history, the tips  *)
(* and the filters.                                                        *)
(***************************************************************************)
THEOREM CommitsComeNewestFirst == Spec => []NewestFirst
<1>1. Init => DateInv
  BY DEF Init, DateInv
<1>2. DateInv => NewestFirst
  BY DEF DateInv, NewestFirst, ByDate
<1>3. QED
  BY <1>1, <1>2, NextDateInv, AlwaysControl, PTL DEF Spec

-----------------------------------------------------------------------------
(* What is reported.                                                       *)

Keys == { << e.blob, e.path >> : e \in Elements(emitted) }

\* The walk is past an occurrence: past its commit, or past its path there.
Behind(e) ==
  \E k \in DOMAIN matched :
    /\ matched[k] = e.commit
    /\ \/ k < pos
       \/ k = pos /\ pc = "full" /\ e.path \notin todo

(***************************************************************************)
(* seenBlobOcc holds what was reported, or, with expanded commits, the     *)
(* walk is past all that was reported.                                     *)
(***************************************************************************)
OnceInv ==
  /\ ~in.expand => seen = Keys
  /\ in.expand /\ pc # "failed" => \A e \in Elements(emitted) : Behind(e)
  /\ \A e \in Elements(emitted) : e.blob = TreeOID(e.commit)[e.path]
  /\ ReportedOnce

\* With expanded commits, whole trees are walked.
LEMMA ExpandTraverses ==
  ASSUME EntryInv, in.expand
  PROVE  pc \notin {"diff", "other", "find"}
BY DEF EntryInv, Diffs

\* A new occurrence in a sequence of distinct ones.
LEMMA OneMore ==
  ASSUME TypeInv, ReportedOnce, NEW e \in Occurrence,
         \A f \in Elements(emitted) :
           ~(f.blob = e.blob /\ f.path = e.path /\ (in.expand => f.commit = e.commit)),
         emitted' = Append(emitted, e), in' = in
  PROVE  ReportedOnce' /\ Elements(emitted') = Elements(emitted) \cup {e}
<1>1. /\ Elements(emitted') = Elements(emitted) \cup {e}
      /\ DOMAIN emitted = 1 .. Len(emitted) /\ Len(emitted) \in Nat
      /\ DOMAIN emitted' = 1 .. Len(emitted) + 1 /\ emitted'[Len(emitted) + 1] = e
      /\ \A i \in 1 .. Len(emitted) : emitted'[i] = emitted[i]
  BY ElementsFacts DEF TypeInv
<1>2. \A i \in DOMAIN emitted' : i = Len(emitted) + 1 \/ i \in DOMAIN emitted
  BY <1>1
<1>3. \A i \in DOMAIN emitted : emitted[i] \in Elements(emitted)
  BY DEF Elements
<1>4. ASSUME NEW i \in DOMAIN emitted', NEW k \in DOMAIN emitted',
             emitted'[i].blob = emitted'[k].blob, emitted'[i].path = emitted'[k].path,
             in.expand => emitted'[i].commit = emitted'[k].commit
      PROVE  i = k
  <2>1. CASE i \in DOMAIN emitted /\ k \in DOMAIN emitted
    BY <1>1, <1>4, <2>1 DEF ReportedOnce
  <2>2. CASE i = Len(emitted) + 1 /\ k \in DOMAIN emitted
    BY <1>1, <1>3, <1>4, <2>2
  <2>3. CASE k = Len(emitted) + 1 /\ i \in DOMAIN emitted
    BY <1>1, <1>3, <1>4, <2>3
  <2>4. QED
    BY <1>2, <2>1, <2>2, <2>3
<1>5. QED
  BY <1>1, <1>4 DEF ReportedOnce

\* What a step reports, and where the walk then is.
LEMMA StepReports ==
  ASSUME TypeInv, EntryInv, [Next]_vars
  PROVE  \/ UNCHANGED occurrence
         \/ \E p \in in.wanted :
              /\ pos \in DOMAIN matched /\ TreeOID(Now)[p] # NoBlob /\ Report(p)
              /\ UNCHANGED << in, ctxCancelled, matched, pos >>
              /\ \/ pc = "full" /\ pc' = "full" /\ p \in todo /\ todo' = todo \ {p} /\ ~Diffs(Now)
                 \/ /\ pc = "diff" /\ pc' = "diff" /\ todo' = todo \ {p}
                    /\ Diffs(Now) /\ p \in News(Now) /\ ~IsMerge(Now)
                 \/ /\ pc = "other" /\ pc' = "diff" /\ todo' = todo /\ p = at
                    /\ Diffs(Now) /\ p \in News(Now) /\ other > Len(Parents(Now))
<1>1. CASE Steps /\ ~ReportMerge
  BY <1>1 DEF Steps, Abort, Cancel, ExcludeNext, PushTips, VisitCommit, CollectDone, SkipCommit,
              FailOnTree, DiffCommit, TraverseCommit, CheckOther, FindOther, EndCommit, Return,
              walk, occurrence
<1>2. CASE ReportMerge
  <2>1. /\ pc = "other" /\ pc' = "diff" /\ other > Len(Parents(Now)) /\ Report(at)
        /\ UNCHANGED << in, ctxCancelled, matched, pos, todo >>
    BY <1>2 DEF ReportMerge, collection
  <2>2. /\ pos \in DOMAIN matched /\ Diffs(Now) /\ at \in News(Now) /\ at \in in.wanted
        /\ TreeOID(Now)[at] # NoBlob
    BY <2>1 DEF EntryInv, Working, Searching, News
  <2>3. QED
    BY <2>1, <2>2
<1>3. ASSUME NEW p \in Path, TraverseEntry(p), ~UNCHANGED occurrence
      PROVE  /\ p \in in.wanted /\ pos \in DOMAIN matched /\ TreeOID(Now)[p] # NoBlob /\ Report(p)
             /\ UNCHANGED << in, ctxCancelled, matched, pos >>
             /\ pc = "full" /\ pc' = "full" /\ p \in todo /\ todo' = todo \ {p} /\ ~Diffs(Now)
  BY <1>3 DEF TraverseEntry, EntryInv, Working, collection
<1>4. ASSUME NEW p \in Path, DiffEntry(p), ~UNCHANGED occurrence
      PROVE  /\ p \in in.wanted /\ pos \in DOMAIN matched /\ TreeOID(Now)[p] # NoBlob /\ Report(p)
             /\ UNCHANGED << in, ctxCancelled, matched, pos >>
             /\ pc = "diff" /\ pc' = "diff" /\ todo' = todo \ {p}
             /\ Diffs(Now) /\ p \in News(Now) /\ ~IsMerge(Now)
  BY <1>4 DEF DiffEntry, EntryInv, Working, News, collection
<1>5. CASE UNCHANGED vars
  BY <1>5 DEF vars, occurrence
<1>6. QED
  BY <1>1, <1>2, <1>3, <1>4, <1>5, NextCases

\* The walk never falls back behind an occurrence.
LEMMA BehindStays ==
  ASSUME ControlInv, [Next]_vars, pc' # "failed", NEW e, Behind(e)
  PROVE  Behind(e)'
<1>1. PICK k \in DOMAIN matched :
        /\ matched[k] = e.commit
        /\ \/ k < pos
           \/ k = pos /\ pc = "full" /\ e.path \notin todo
  BY DEF Behind
<1>2. k \in Nat \ {0} /\ pos \in Nat \ {0} /\ k <= pos
  BY <1>1, ElementsFacts DEF ControlInv, TypeInv
<1>3. pc \notin {"exclude", "collect"}
  BY <1>1, <1>2 DEF ControlInv, EntryInv
<1>4. CASE UNCHANGED << matched, pos >> /\ (pc = "full" => pc' = "full" /\ todo' \subseteq todo)
  BY <1>1, <1>4 DEF Behind
<1>5. CASE UNCHANGED matched /\ pos' = pos + 1
  BY <1>1, <1>2, <1>5 DEF Behind
<1>6. CASE UNCHANGED vars
  BY <1>4, <1>6 DEF vars
<1>7. CASE Abort \/ FailOnTree \/ ExcludeNext \/ PushTips \/ VisitCommit \/ CollectDone
  BY <1>3, <1>7 DEF Abort, FailOnTree, ExcludeNext, PushTips, VisitCommit, CollectDone
<1>8. CASE SkipCommit \/ EndCommit
  BY <1>5, <1>8 DEF SkipCommit, EndCommit, collection
<1>9. CASE Cancel \/ DiffCommit \/ TraverseCommit \/ CheckOther \/ FindOther \/ ReportMerge \/ Return
  BY <1>4, <1>9 DEF Cancel, DiffCommit, TraverseCommit, CheckOther, FindOther, ReportMerge, Return,
                    collection, walk
<1>10. CASE \E p \in Path : TraverseEntry(p) \/ DiffEntry(p)
  BY <1>4, <1>10 DEF TraverseEntry, DiffEntry, collection
<1>11. QED
  BY <1>6, <1>7, <1>8, <1>9, <1>10, NextCases DEF Steps

\* Nothing is reported twice, in any step.
LEMMA NextOnceInv == ControlInv /\ OnceInv /\ [Next]_vars => OnceInv'
<1> SUFFICES ASSUME ControlInv, OnceInv, [Next]_vars PROVE OnceInv'
  OBVIOUS
<1>1. /\ TypeInv /\ EntryInv /\ MatchInv /\ in' = in /\ in.expand \in BOOLEAN
      /\ \A c : TreeOID(c)' = TreeOID(c)
  BY InputStays, InputFacts DEF ControlInv
<1>2. \A e : Behind(e) /\ pc' # "failed" => Behind(e)'
  BY BehindStays
<1>3. pc = "failed" => pc' = "failed"
  <2>1. CASE Steps \/ UNCHANGED vars
    BY <2>1 DEF Steps, Abort, Cancel, ExcludeNext, PushTips, VisitCommit, CollectDone, SkipCommit,
              FailOnTree, DiffCommit, TraverseCommit, CheckOther, FindOther, EndCommit, Return,
              ReportMerge, vars
  <2>2. CASE \E p \in Path : TraverseEntry(p) \/ DiffEntry(p)
    BY <2>2 DEF TraverseEntry, DiffEntry
  <2>3. QED
    BY <2>1, <2>2, NextCases
<1>4. CASE UNCHANGED occurrence
  BY <1>1, <1>2, <1>3, <1>4 DEF OnceInv, Keys, ReportedOnce, occurrence
<1>5. ASSUME NEW p \in in.wanted, pos \in DOMAIN matched, TreeOID(Now)[p] # NoBlob, Report(p),
             UNCHANGED << matched, pos >>,
             \/ pc = "full" /\ pc' = "full" /\ p \in todo /\ todo' = todo \ {p}
             \/ pc \in {"diff", "other"},
             ~UNCHANGED occurrence
      PROVE  OnceInv'
  <2> DEFINE key == << TreeOID(Now)[p], p >>
  <2>1. /\ Now \in Commit /\ Credit(p) \in Occurrence /\ p \in Path
        /\ in.expand = TRUE \/ key \notin seen
        /\ emitted' = Append(emitted, Credit(p))
        /\ seen' = IF in.expand THEN seen ELSE seen \cup {key}
    <3>1. p \in Path
      BY <1>1, InputFacts
    <3>2. QED
      BY <1>1, <1>5, <3>1, ReportEffect DEF occurrence
  <2>2. /\ Credit(p).commit = Now /\ Credit(p).blob = TreeOID(Now)[p] /\ Credit(p).path = p
    BY DEF Credit
  <2>3. in.expand => pc = "full" /\ pc' = "full" /\ p \in todo /\ todo' = todo \ {p}
    BY <1>1, <1>5, ExpandTraverses
  <2>4. ASSUME NEW f \in Elements(emitted), f.blob = TreeOID(Now)[p], f.path = p,
               in.expand => f.commit = Now
        PROVE  FALSE
    <3>1. CASE in.expand
      <4>1. PICK k \in DOMAIN matched :
              /\ matched[k] = f.commit
              /\ \/ k < pos
                 \/ k = pos /\ pc = "full" /\ f.path \notin todo
        BY <2>3, <3>1 DEF OnceInv, Behind
      <4>2. k = pos
        BY <1>1, <1>5, <2>4, <3>1, <4>1 DEF MatchInv, Now
      <4>3. pos \in Nat
        BY <1>1 DEF TypeInv
      <4>4. QED
        BY <2>3, <2>4, <3>1, <4>1, <4>2, <4>3
    <3>2. CASE ~in.expand
      BY <2>1, <2>4, <3>2 DEF OnceInv, Keys
    <3>3. QED
      BY <3>1, <3>2
  <2>5. ReportedOnce' /\ Elements(emitted') = Elements(emitted) \cup {Credit(p)}
    <3>1. \A f \in Elements(emitted) :
            ~(/\ f.blob = Credit(p).blob /\ f.path = Credit(p).path
              /\ in.expand => f.commit = Credit(p).commit)
      BY <2>2, <2>4
    <3>2. QED
      BY <1>1, <2>1, <3>1, OneMore DEF OnceInv
  <2>6. ~in.expand => seen' = Keys'
    <3>1. Keys' = Keys \cup {key}
      BY <2>2, <2>5 DEF Keys
    <3>2. QED
      BY <2>1, <3>1 DEF OnceInv
  <2>7. in.expand /\ pc' # "failed" => \A e \in Elements(emitted') : Behind(e)'
    <3> SUFFICES ASSUME in.expand, pc' # "failed", NEW e \in Elements(emitted') PROVE Behind(e)'
      OBVIOUS
    <3>1. CASE e \in Elements(emitted)
      BY <1>2, <2>3, <3>1 DEF OnceInv
    <3>2. CASE e = Credit(p)
      BY <1>5, <2>2, <2>3, <3>2 DEF Behind, Now
    <3>3. QED
      BY <2>5, <3>1, <3>2
  <2>8. \A e \in Elements(emitted') : e.blob = TreeOID(e.commit)[e.path]
    BY <2>2, <2>5 DEF OnceInv
  <2>9. QED
    BY <1>1, <2>5, <2>6, <2>7, <2>8 DEF OnceInv
<1>6. QED
  BY <1>1, <1>4, <1>5, StepReports

(***************************************************************************)
(* A blob at a path is reported once, with expanded commits once per       *)
(* commit: seenBlobOcc of walker.go does its work through merges, damage   *)
(* and cancellation, and needs none when the commits are expanded.         *)
(***************************************************************************)
THEOREM NothingIsReportedTwice == Spec => []ReportedOnce
<1>1. Init => OnceInv
  BY DEF Init, OnceInv, Keys, Elements, ReportedOnce
<1>2. OnceInv => ReportedOnce
  BY DEF OnceInv
<1>3. QED
  BY <1>1, <1>2, NextOnceInv, AlwaysControl, PTL DEF Spec

(***************************************************************************)
(* A commit is credited with a file only if no parent it is compared with  *)
(* has that file, as far as trees can be read: the first parent because    *)
(* of the diff, the others because emitBlobOccurrence has searched them.   *)
(***************************************************************************)
THEOREM CreditGoesToTheAuthor == Spec => []CreditsTheAuthor
<1>1. Init => CreditsTheAuthor
  BY DEF Init, CreditsTheAuthor, Elements
<1>2. ControlInv /\ CreditsTheAuthor /\ [Next]_vars => CreditsTheAuthor'
  <2> SUFFICES ASSUME ControlInv, CreditsTheAuthor, [Next]_vars PROVE CreditsTheAuthor'
    OBVIOUS
  <2>1. /\ TypeInv /\ EntryInv /\ in' = in /\ (ctxCancelled => ctxCancelled')
        /\ \A c : /\ TreeOID(c)' = TreeOID(c) /\ TreeLost(c)' = TreeLost(c)
                  /\ Diffs(c)' = Diffs(c) /\ Compared(c)' = Compared(c)
    BY InputStays DEF ControlInv
  <2>2. CASE UNCHANGED occurrence
    BY <2>1, <2>2 DEF CreditsTheAuthor, occurrence
  <2>3. ASSUME NEW p \in in.wanted, pos \in DOMAIN matched, TreeOID(Now)[p] # NoBlob, Report(p),
               UNCHANGED << ctxCancelled, matched, pos >>,
               \/ ~Diffs(Now)
               \/ Diffs(Now) /\ p \in News(Now) /\ ~IsMerge(Now)
               \/ /\ Diffs(Now) /\ p \in News(Now)
                  /\ pc = "other" /\ p = at /\ other > Len(Parents(Now)),
               ~UNCHANGED occurrence
        PROVE  CreditsTheAuthor'
    <3>1. p \in Path
      BY <2>1, InputFacts
    <3>2. Now \in Commit /\ Credit(p) \in Occurrence /\ emitted' = Append(emitted, Credit(p))
      BY <2>1, <2>3, <3>1, ReportEffect DEF occurrence
    <3>3. Elements(emitted') = Elements(emitted) \cup {Credit(p)}
      BY <2>1, <3>2, ElementsFacts DEF TypeInv
    <3>4. ASSUME Diffs(Now), ~ctxCancelled, NEW d \in Compared(Now), ~TreeLost(d)
          PROVE  TreeOID(d)[p] # TreeOID(Now)[p]
      <4>1. Parents(Now) # << >>
        BY <3>4 DEF Diffs
      <4>2. CASE d = Parents(Now)[1]
        BY <2>3, <3>4, <4>2 DEF News, OldEntry
      <4>3. CASE d # Parents(Now)[1]
        <5>1. PICK k \in DOMAIN Parents(Now) : d = Parents(Now)[k]
          BY <3>2, <3>4, FollowedFacts, <2>1 DEF Compared, Elements
        <5>2. /\ DOMAIN Parents(Now) = 1 .. Len(Parents(Now)) /\ Len(Parents(Now)) \in Nat
          BY <2>1, <3>2, ParentFacts
        <5>3. k \in 2 .. Len(Parents(Now)) /\ in.firstParent = FALSE
          <6>1. in.firstParent \in BOOLEAN
            BY <2>1, InputFacts
          <6>2. QED
            BY <3>4, <4>1, <4>3, <5>1, <5>2, <6>1 DEF Compared, Followed
        <5>4. IsMerge(Now)
          BY <5>2, <5>3 DEF IsMerge
        <5>5. pc = "other" /\ p = at /\ other > Len(Parents(Now))
          BY <2>3, <3>4, <5>4
        <5>6. k \in 2 .. other - 1 /\ k <= Len(Parents(Now))
          BY <2>1, <5>2, <5>3, <5>5 DEF TypeInv
        <5>7. Lacks(d, p, TreeOID(Now)[p])
          BY <2>1, <3>4, <5>1, <5>5, <5>6 DEF EntryInv, Searching
        <5>8. QED
          BY <3>4, <5>7 DEF Lacks, Compared
      <4>4. QED
        BY <4>2, <4>3
    <3>5. QED
      BY <2>1, <2>3, <3>3, <3>4 DEF CreditsTheAuthor, Credit
  <2>4. QED
    BY <2>1, <2>2, <2>3, StepReports
<1>3. QED
  BY <1>1, <1>2, AlwaysControl, PTL DEF Spec

-----------------------------------------------------------------------------
(* What is not reported.                                                   *)

\* The paths of a commit's files.
Content(c) == { p \in in.wanted : TreeOID(c)[p] # NoBlob }

\* The file that c has at p was reported, or a parent of c has it.
Settled(c, p) ==
  \/ << TreeOID(c)[p], p >> \in Keys
  \/ \E d \in Compared(c) : TreeOID(d)[p] = TreeOID(c)[p]

\* The commits that the walk is past.
Walked == { matched[k] : k \in { i \in DOMAIN matched : i < pos } }

(***************************************************************************)
(* The files of the commits that the walk is past are settled, and those   *)
(* of the commit it is at that it no longer has to look at.                *)
(***************************************************************************)
SettledInv ==
  /\ \A c \in Walked : \A p \in Content(c) : Settled(c, p)
  /\ pc \in Working =>
       \A p \in Content(Now) : p \in todo \/ Settled(Now, p) \/ (pc \in Searching /\ p = at)

\* Without a report nothing is lost, and no occurrence is ever taken back.
LEMMA KeysGrow ==
  ASSUME ControlInv, OnceInv, [Next]_vars
  PROVE  /\ Keys \subseteq Keys'
         /\ \A c, p : Settled(c, p) => Settled(c, p)'
         /\ \A c : Content(c)' = Content(c)
<1>1. TypeInv /\ EntryInv /\ in' = in /\ \A c : TreeOID(c)' = TreeOID(c) /\ Compared(c)' = Compared(c)
  BY InputStays DEF ControlInv
<1>2. Keys \subseteq Keys'
  <2>1. CASE UNCHANGED occurrence
    BY <2>1 DEF Keys, occurrence
  <2>2. ASSUME NEW p \in in.wanted, pos \in DOMAIN matched, TreeOID(Now)[p] # NoBlob, Report(p)
        PROVE  Keys \subseteq Keys'
    <3>1. p \in Path
      BY <1>1, InputFacts
    <3>2. \/ emitted' = emitted
          \/ Credit(p) \in Occurrence /\ emitted' = Append(emitted, Credit(p))
      BY <1>1, <2>2, <3>1, ReportEffect
    <3>3. Elements(emitted) \subseteq Elements(emitted')
      <4>1. emitted \in Seq(Occurrence)
        BY <1>1 DEF TypeInv
      <4>2. ASSUME NEW e \in Occurrence
            PROVE  Elements(emitted) \subseteq Elements(Append(emitted, e))
        BY <4>1, <4>2, ElementsFacts
      <4>3. QED
        BY <3>2, <4>2
    <3>4. QED
      BY <3>3 DEF Keys
  <2>3. QED
    BY <1>1, <2>1, <2>2, StepReports
<1>3. QED
  BY <1>1, <1>2 DEF Settled, Content

\* What is reported is settled.
LEMMA ReportSettles ==
  ASSUME ControlInv, OnceInv, [Next]_vars, pos \in DOMAIN matched, NEW p \in Path,
         TreeOID(Now)[p] # NoBlob, Report(p)
  PROVE  \A c : c = Now => Settled(c, p)'
<1>1. TypeInv /\ \A c : TreeOID(c)' = TreeOID(c)
  BY InputStays DEF ControlInv
<1>2. CASE in.expand = FALSE /\ << TreeOID(Now)[p], p >> \in seen
  BY <1>1, <1>2, KeysGrow DEF OnceInv, Settled
<1>3. CASE emitted' = Append(emitted, Credit(p)) /\ Credit(p) \in Occurrence
  <2>1. Credit(p) \in Elements(emitted')
    BY <1>1, <1>3, ElementsFacts DEF TypeInv
  <2>2. << TreeOID(Now)[p], p >> \in Keys'
    BY <2>1 DEF Keys, Credit
  <2>3. QED
    BY <1>1, <2>2 DEF Settled
<1>4. QED
  BY <1>1, <1>2, <1>3, ReportEffect

\* What the first parent has, the diff rightly leaves out.
LEMMA FirstParentHas ==
  ASSUME TypeInv, NEW c \in Commit, Diffs(c)
  PROVE  /\ Parents(c)[1] \in Compared(c)
         /\ \A p \in Content(c) : p \notin News(c) => Settled(c, p)
<1>1. Parents(c)[1] \in Compared(c)
  BY FollowedFacts DEF Diffs, Compared
<1>2. ASSUME NEW p \in Content(c), p \notin News(c) PROVE Settled(c, p)
  <2>1. p \in Path /\ TreeOID(c)[p] # NoBlob /\ TreeOID(c)[p] = OldEntry(c, p)
    BY <1>2, InputFacts DEF Content, News
  <2>2. TreeOID(Parents(c)[1])[p] = TreeOID(c)[p]
    BY <2>1 DEF OldEntry
  <2>3. QED
    BY <1>1, <2>2 DEF Settled
<1>3. QED
  BY <1>1, <1>2

\* Files stay settled, in any step.
LEMMA NextSettledInv == ControlInv /\ OnceInv /\ SettledInv /\ [Next]_vars => SettledInv'
<1> SUFFICES ASSUME ControlInv, OnceInv, SettledInv, [Next]_vars PROVE SettledInv'
  OBVIOUS
<1> USE DEF Working, Searching
<1>1. /\ TypeInv /\ EntryInv /\ in' = in
      /\ \A c : TreeOID(c)' = TreeOID(c) /\ Content(c)' = Content(c) /\ Compared(c)' = Compared(c)
      /\ \A c, p : Settled(c, p) => Settled(c, p)'
      /\ DOMAIN matched = 1 .. Len(matched) /\ pos \in Nat \ {0}
  BY InputStays, KeysGrow, ElementsFacts DEF ControlInv, TypeInv
<1>2. pos \in DOMAIN matched => Now \in Commit
  BY <1>1, ElementOfSeq DEF TypeInv, Now
<1> DEFINE Past == \A c \in Walked' : \A p \in Content(c) : Settled(c, p)'
           Here == \A p \in Content(Now) :
                     p \in todo' \/ Settled(Now, p)' \/ (pc' \in Searching /\ p = at')
<1>3. matched' = matched /\ pos' = pos => Past /\ Now' = Now
  BY <1>1 DEF SettledInv, Walked, Now
<1>4. ASSUME matched' = matched, pos' = pos, pc' \in Working => Here PROVE SettledInv'
  <2>1. Past /\ Now' = Now
    BY <1>3, <1>4
  <2>2. pc' \in Working => \A p \in Content(Now)' : p \in todo' \/ Settled(Now, p)'
                                                    \/ (pc' \in Searching /\ p = at')
    BY <1>1, <1>4, <2>1
  <2> HIDE DEF Here
  <2>3. QED
    BY <1>1, <2>1, <2>2 DEF SettledInv
<1>5. ASSUME matched' = matched, pos' = pos + 1, pc' = "walk",
             pos \in DOMAIN matched => \A p \in Content(Now) : Settled(Now, p)
      PROVE  SettledInv'
  <2>1. ASSUME NEW c \in Walked', NEW p \in Content(c) PROVE Settled(c, p)'
    <3>1. PICK k \in DOMAIN matched : k < pos + 1 /\ c = matched[k]
      BY <1>5, <2>1 DEF Walked
    <3>2. CASE k < pos
      BY <1>1, <2>1, <3>1, <3>2 DEF SettledInv, Walked
    <3>3. CASE k = pos
      BY <1>1, <1>5, <2>1, <3>1, <3>3 DEF Now
    <3>4. QED
      BY <1>1, <3>1, <3>2, <3>3
  <2>2. QED
    BY <1>1, <1>5, <2>1 DEF SettledInv
<1>6. CASE UNCHANGED << pc, matched, walk >> \/ (UNCHANGED << matched, walk >> /\ pc' \notin Working)
  BY <1>1, <1>3, <1>4, <1>6 DEF SettledInv, walk
<1>7. CASE UNCHANGED vars \/ Cancel \/ ExcludeNext \/ Abort \/ CollectDone \/ FailOnTree \/ Return
  BY <1>6, <1>7 DEF vars, Cancel, ExcludeNext, Abort, CollectDone, FailOnTree, Return, collection,
                    walk
<1>8. CASE PushTips \/ VisitCommit
  <2>1. pos = 1 /\ pos' = pos /\ pc' = "collect"
    BY <1>1, <1>8 DEF PushTips, VisitCommit, EntryInv, walk
  <2>2. matched' \in Seq(Commit)
    BY <1>1, <1>8, NextTypeInv DEF TypeInv
  <2>3. Walked' = {}
    <3>1. \A k \in DOMAIN matched' : ~(k < pos')
      BY <2>1, <2>2, ElementsFacts
    <3>2. QED
      BY <3>1 DEF Walked
  <2>4. QED
    BY <2>1, <2>3 DEF SettledInv
<1>9. CASE SkipCommit
  <2>1. /\ matched' = matched /\ pos' = pos + 1 /\ pc' = "walk" /\ Diffs(Now)
        /\ pos <= Len(matched) /\ TreeOID(Now) = TreeOID(Parents(Now)[1])
    BY <1>9 DEF SkipCommit, collection
  <2>2. Now \in Commit
    BY <1>1, <1>2, <2>1
  <2>3. \A p \in Content(Now) : Settled(Now, p)
    BY <1>1, <2>1, <2>2, FirstParentHas DEF Settled
  <2>4. QED
    BY <1>5, <2>1, <2>3
<1>10. CASE EndCommit
  <2>1. /\ matched' = matched /\ pos' = pos + 1 /\ pc' = "walk" /\ pc \in {"diff", "full"}
        /\ todo = {}
    BY <1>10 DEF EndCommit, collection
  <2>2. \A p \in Content(Now) : Settled(Now, p)
    BY <2>1 DEF SettledInv
  <2>3. QED
    BY <1>5, <2>1, <2>2
<1>11. CASE DiffCommit
  <2>1. /\ matched' = matched /\ pos' = pos /\ Diffs(Now) /\ pos <= Len(matched)
        /\ todo' = News(Now)
    BY <1>11 DEF DiffCommit, collection, News
  <2>2. Now \in Commit
    BY <1>1, <1>2, <2>1
  <2>3. Here
    BY <1>3, <1>1, <2>1, <2>2, FirstParentHas
  <2>4. QED
    BY <1>4, <2>1, <2>3
<1>12. CASE TraverseCommit
  <2>1. /\ matched' = matched /\ pos' = pos
        /\ todo' = { p \in Path : TreeOID(Now)[p] # NoBlob }
    BY <1>12 DEF TraverseCommit, collection
  <2>2. Here
    BY <1>1, <2>1, InputFacts DEF Content
  <2>3. QED
    BY <1>4, <2>1, <2>2
<1>13. ASSUME NEW q \in Path, TraverseEntry(q) \/ DiffEntry(q) PROVE SettledInv'
  <2>1. /\ matched' = matched /\ pos' = pos /\ pc \in {"full", "diff"} /\ q \in todo
        /\ todo' = todo \ {q} /\ pos \in DOMAIN matched /\ TreeOID(Now)[q] # NoBlob
    BY <1>1, <1>13 DEF TraverseEntry, DiffEntry, collection, EntryInv, News
  <2>2. \A p \in Content(Now) : p = q \/ p \in todo' \/ Settled(Now, p)'
    BY <1>3, <1>1, <2>1 DEF SettledInv
  <2>3. \/ q \notin in.wanted
        \/ pc' = "other" /\ at' = q
        \/ Report(q)
    BY <1>13 DEF TraverseEntry, DiffEntry
  <2>4. Now' = Now
    BY <1>3, <2>1
  <2>5. Report(q) => Settled(Now, q)'
    BY <2>1, <2>4, ReportSettles
  <2>6. q \notin in.wanted => q \notin Content(Now)
    BY DEF Content
  <2>7. Here
    BY <2>2, <2>3, <2>5, <2>6
  <2>8. QED
    BY <1>4, <2>1, <2>7
<1>14. CASE CheckOther
  <2>1. UNCHANGED << matched, walk >> /\ pc = "other" /\ pc' = "find"
    BY <1>14 DEF CheckOther, collection
  <2>2. Here
    BY <1>3, <1>1, <2>1 DEF SettledInv, walk
  <2>3. QED
    BY <1>4, <2>1, <2>2 DEF walk
<1>15. CASE FindOther
  <2>1. /\ UNCHANGED << matched, pos, todo >> /\ pc = "find"
        /\ pos \in DOMAIN matched /\ IsMerge(Now) /\ other <= Len(Parents(Now)) /\ other > 1
    BY <1>1, <1>15 DEF FindOther, collection, EntryInv
  <2>2. CASE Holds(Parents(Now)[other], at, TreeOID(Now)[at])
    <3>1. pc' = "diff"
      BY <1>15, <2>2 DEF FindOther
    <3>2. Parents(Now)[other] \in Compared(Now)
      <4>1. other \in DOMAIN Parents(Now)
        BY <1>1, <1>2, <2>1, ParentFacts DEF TypeInv
      <4>2. ~in.firstParent /\ Readable(Parents(Now)[other])
        BY <2>1, <2>2 DEF IsMerge, Holds
      <4>3. QED
        BY <4>1, <4>2 DEF Compared, Followed, Elements
    <3>3. Settled(Now, at)
      BY <2>2, <3>2 DEF Settled, Holds
    <3>4. Here
      BY <1>3, <1>1, <2>1, <3>3 DEF SettledInv
    <3>5. QED
      BY <1>4, <2>1, <3>4
  <2>3. CASE ~Holds(Parents(Now)[other], at, TreeOID(Now)[at])
    <3>1. pc' = "other" /\ at' = at
      BY <1>15, <2>3 DEF FindOther
    <3>2. Here
      BY <1>3, <1>1, <2>1, <3>1 DEF SettledInv
    <3>3. QED
      BY <1>4, <2>1, <3>2
  <2>4. QED
    BY <2>2, <2>3
<1>16. CASE ReportMerge
  <2>1. /\ UNCHANGED << matched, pos, todo >> /\ pc = "other" /\ Report(at)
        /\ pos \in DOMAIN matched /\ at \in Path /\ TreeOID(Now)[at] # NoBlob
    BY <1>1, <1>16 DEF ReportMerge, collection, EntryInv, News
  <2>2. \A p : p = at => Settled(Now, p)'
    <3>1. Now' = Now
      BY <1>3, <2>1
    <3>2. QED
      BY <1>3, <2>1, <3>1, ReportSettles
  <2>3. Here
    <3>1. Now' = Now
      BY <1>3, <2>1
    <3>2. ASSUME NEW p \in Content(Now), p # at PROVE p \in todo' \/ Settled(Now, p)'
      BY <1>1, <2>1, <3>1, <3>2 DEF SettledInv
    <3>3. ASSUME NEW p \in Content(Now) PROVE p \in todo' \/ Settled(Now, p)'
      BY <1>3, <2>2, <3>1, <3>2
    <3>4. QED
      BY <3>3
  <2>4. QED
    BY <1>4, <2>1, <2>3
<1>17. QED
  BY <1>7, <1>8, <1>9, <1>10, <1>11, <1>12, <1>13, <1>14, <1>15, <1>16, NextCases DEF Steps

(***************************************************************************)
(* A walk that returns without an error has reported every file of every   *)
(* commit it walked, but for those a commit outside the walk already had.  *)
(* A file is settled because a parent has it; that parent is older, so     *)
(* the chain ends, at a report or outside the walk.                        *)
(***************************************************************************)
THEOREM NoFileIsMissed == Spec => []NoFileMissed
<1>1. Init => OnceInv /\ SettledInv
  BY DEF Init, OnceInv, Keys, Elements, ReportedOnce, SettledInv, Walked, Working
<1>2. ControlInv /\ OnceInv /\ SettledInv => NoFileMissed
  <2> SUFFICES ASSUME ControlInv, OnceInv, SettledInv, pc = "done",
                      NEW c \in Elements(matched), NEW f \in Files(c)
               PROVE  f \in Keys \cup UNION { Files(d) : d \in Outside }
    BY DEF NoFileMissed, Keys
  <2>1. TypeInv /\ EntryInv /\ Elements(matched) \subseteq Commit /\ DOMAIN matched = 1 .. Len(matched)
    BY ElementsFacts DEF ControlInv, TypeInv
  <2> DEFINE Found == Keys \cup UNION { Files(d) : d \in Outside }
             G == { n \in Commit : n \in Elements(matched) /\ f \in Files(n) => f \in Found }
  <2>2. \A n \in Commit : (\A k \in Commit : k < n => k \in G) => n \in G
    <3> SUFFICES ASSUME NEW n \in Commit, \A k \in Commit : k < n => k \in G,
                        n \in Elements(matched), f \in Files(n)
                 PROVE  f \in Found
      OBVIOUS
    <3> HIDE DEF G
    <3>1. PICK p \in Content(n) : f = << TreeOID(n)[p], p >>
      BY DEF Files, Content
    <3>2. Settled(n, p)
      <4>1. PICK k \in DOMAIN matched : n = matched[k]
        BY DEF Elements
      <4>2. k < pos
        BY <2>1, <4>1 DEF EntryInv, TypeInv
      <4>3. QED
        BY <3>1, <4>1, <4>2 DEF SettledInv, Walked
    <3>3. CASE f \in Keys
      BY <3>3
    <3>4. CASE f \notin Keys
      <4>1. PICK d \in Compared(n) : TreeOID(d)[p] = TreeOID(n)[p]
        BY <3>1, <3>2, <3>4 DEF Settled
      <4>2. d \in Commit /\ d < n
        BY <2>1, <4>1, FollowedFacts DEF Compared
      <4>3. f \in Files(d)
        BY <3>1, <4>1 DEF Files, Content
      <4>4. CASE d \in Elements(matched)
        <5>1. d \in G
          BY <4>2
        <5>2. QED
          BY <4>3, <4>4, <5>1 DEF G
      <4>5. CASE d \notin Elements(matched)
        <5>1. d \in Outside
          BY <4>1, <4>5 DEF Outside
        <5>2. QED
          BY <4>3, <5>1
      <4>6. QED
        BY <4>4, <4>5
    <3>5. QED
      BY <3>3, <3>4
  <2>3. Commit \in SUBSET Nat
    BY CommitAssumption
  <2>4. \A n \in Commit : n \in G
    <3> HIDE DEF G
    <3>1. QED
      BY <2>2, <2>3, InductionFromBelow
  <2>5. QED
    BY <2>1, <2>4
<1>3. QED
  BY <1>1, <1>2, NextOnceInv, NextSettledInv, AlwaysControl, PTL DEF Spec

-----------------------------------------------------------------------------
(* The range.                                                              *)

\* A set of commits that the walker does not leave along next.
Closed(X, next) == \A c \in X : Readable(c) => next[c] \subseteq X

\* What is reached is the least closed set.
LEMMA ReachFacts ==
  ASSUME NEW next \in [Commit -> SUBSET Commit], \A c \in Commit : \A d \in next[c] : d < c,
         NEW S \in SUBSET Commit
  PROVE  /\ S \subseteq Reach(S, next) /\ Reach(S, next) \subseteq Commit
         /\ Closed(Reach(S, next), next)
         /\ \A X \in SUBSET Commit : S \subseteq X /\ Closed(X, next) => Reach(S, next) \subseteq X
<1> DEFINE Step(R, c) == {c} \cup IF Readable(c) THEN UNION { R[p] : p \in next[c] } ELSE {}
           Def(R) == [c \in Commit |-> Step(R, c)]
           Least(c) == { d \in Commit :
                           \A X \in SUBSET Commit : c \in X /\ Closed(X, next) => d \in X }
           least == [c \in Commit |-> Least(c)]
           r == CHOOSE R : R = Def(R)
<1>1. \A c \in Commit : c \in Least(c) /\ Least(c) \subseteq Commit /\ Closed(Least(c), next)
  <2> SUFFICES ASSUME NEW c \in Commit, NEW d \in Least(c), Readable(d), NEW e \in next[d]
               PROVE  e \in Least(c)
    BY DEF Closed
  <2>1. e \in Commit /\ d \in Commit
    OBVIOUS
  <2>2. ASSUME NEW X \in SUBSET Commit, c \in X, Closed(X, next) PROVE e \in X
    BY <2>2 DEF Closed
  <2>3. QED
    BY <2>1, <2>2
<1>2. \A c \in Commit : Least(c) = Step(least, c)
  <2> SUFFICES ASSUME NEW c \in Commit PROVE Least(c) = Step(least, c)
    OBVIOUS
  <2>1. ASSUME NEW p \in next[c], Readable(c) PROVE Least(p) \subseteq Least(c) /\ p \in Commit
    <3>1. p \in Commit
      OBVIOUS
    <3>2. ASSUME NEW X \in SUBSET Commit, c \in X, Closed(X, next) PROVE p \in X
      BY <2>1, <3>2 DEF Closed
    <3>3. QED
      BY <3>1, <3>2
  <2> HIDE DEF Least
  <2>2. Step(least, c) \subseteq Least(c)
    BY <1>1, <2>1
  <2>3. Closed(Step(least, c), next)
    <3> SUFFICES ASSUME NEW d \in Step(least, c), Readable(d), NEW e \in next[d]
                 PROVE  e \in Step(least, c)
      BY DEF Closed
    <3>1. CASE d = c
      <4>1. e \in Commit /\ e \in least[e]
        BY <1>1, <3>1
      <4>2. QED
        BY <3>1, <4>1
    <3>2. CASE d # c
      <4>1. PICK p \in next[c] : Readable(c) /\ d \in least[p]
        BY <3>2
      <4>2. p \in Commit /\ least[p] = Least(p)
        OBVIOUS
      <4>3. e \in least[p]
        BY <1>1, <4>1, <4>2 DEF Closed
      <4>4. QED
        BY <4>1, <4>3
    <3>3. QED
      BY <3>1, <3>2
  <2>4. Step(least, c) \in SUBSET Commit /\ c \in Step(least, c)
    BY <1>1, <2>2
  <2> HIDE DEF Step
  <2>5. Least(c) \subseteq Step(least, c)
    BY <2>3, <2>4 DEF Least
  <2>6. QED
    BY <2>2, <2>5
<1>3. r = Def(r)
  <2>1. least = Def(least)
    <3> HIDE DEF Least, Step
    <3>1. QED
      BY <1>2
  <2> HIDE DEF Def, least
  <2>2. QED
    BY <2>1, Zenon
<1>4. Reach(S, next) = UNION { r[c] : c \in S }
  BY Zenon DEF Reach
<1> HIDE DEF r
<1>5. \A c \in Commit : r[c] = Step(r, c)
  <2> HIDE DEF Step
  <2>1. QED
    BY <1>3
<1> DEFINE G == { c \in Commit : r[c] = Least(c) }
<1>6. \A c \in Commit : c \in G
  <2>1. ASSUME NEW c \in Commit, \A d \in Commit : d < c => d \in G PROVE c \in G
    <3> HIDE DEF Least
    <3>1. \A d \in next[c] : d \in Commit /\ r[d] = least[d]
      BY <2>1
    <3>2. Step(r, c) = Step(least, c)
      BY <3>1
    <3> HIDE DEF Step
    <3>2a. r[c] = Least(c)
      BY <1>2, <1>5, <3>2
    <3>3. QED
      BY <3>2a
  <2>2. Commit \in SUBSET Nat
    BY CommitAssumption
  <2> HIDE DEF G
  <2>3. QED
    BY <2>1, <2>2, InductionFromBelow
<1>7. \A c \in S : r[c] = Least(c) /\ c \in Commit
  BY <1>6
<1>8. S \subseteq Reach(S, next) /\ Reach(S, next) \subseteq Commit
  <2> HIDE DEF Least
  <2>1. QED
    BY <1>1, <1>4, <1>7
<1>9. Closed(Reach(S, next), next)
  <2> SUFFICES ASSUME NEW d \in Reach(S, next), Readable(d), NEW e \in next[d]
               PROVE  e \in Reach(S, next)
    BY DEF Closed
  <2> HIDE DEF Least
  <2>1. PICK c \in S : d \in Least(c)
    BY <1>4, <1>7
  <2>2. e \in Least(c)
    BY <1>1, <1>7, <2>1 DEF Closed
  <2>3. QED
    BY <1>4, <1>7, <2>2
<1>10. ASSUME NEW X \in SUBSET Commit, S \subseteq X, Closed(X, next)
       PROVE  Reach(S, next) \subseteq X
  <2> SUFFICES ASSUME NEW d \in Reach(S, next) PROVE d \in X
    OBVIOUS
  <2>1. PICK c \in S : d \in Least(c)
    BY <1>4, <1>7
  <2>2. QED
    BY <1>10, <2>1
<1>11. QED
  BY <1>8, <1>9, <1>10

Excl == Reach(Elements(in.exclude), Ancestry)
Incl == Reach(in.include, Traversal)

(***************************************************************************)
(* The excluded commits and those on the stack are ancestors of the        *)
(* excluded tip, closed but for what is on the stack.  Then the visited    *)
(* commits are reached from the tips, closed but for what is excluded or   *)
(* in the heap, and the matching ones that left the heap are matched.      *)
(***************************************************************************)
RangeInv ==
  /\ pc = "exclude" =>
       /\ Elements(in.exclude) \subseteq excluded \cup Elements(stack)
       /\ excluded \cup Elements(stack) \subseteq Excl
       /\ \A c \in excluded : Readable(c) => Ancestry[c] \subseteq excluded \cup Elements(stack)
  /\ pc \notin {"exclude", "failed"} =>
       /\ excluded = Excl
       /\ in.include \subseteq visited \cup excluded
       /\ visited \cap excluded = {} /\ visited \subseteq Incl
       /\ \A c \in queue : Readable(c)
       /\ \A c \in visited \ queue : Readable(c) => Traversal[c] \subseteq visited \cup excluded
       /\ Elements(matched) = { c \in visited \ queue : Readable(c) /\ Matches(c) }
  /\ Collected => queue = {}

\* The two closures of a history.
LEMMA RangeFacts ==
  ASSUME TypeInv
  PROVE  /\ Elements(in.exclude) \subseteq Excl /\ Excl \subseteq Commit /\ Closed(Excl, Ancestry)
         /\ \A X \in SUBSET Commit :
              Elements(in.exclude) \subseteq X /\ Closed(X, Ancestry) => Excl \subseteq X
         /\ in.include \subseteq Incl /\ Incl \subseteq Commit /\ Closed(Incl, Traversal)
         /\ \A X \in SUBSET Commit :
              in.include \subseteq X /\ Closed(X, Traversal) => Incl \subseteq X
         /\ \A c \in Commit : /\ Ancestry[c] = Elements(Parents(c))
                              /\ Traversal[c] = Followed(c) /\ Traversal[c] \subseteq Ancestry[c]
<1>1. /\ \A c \in Commit : Elements(Parents(c)) \subseteq Commit
      /\ \A c \in Commit : \A d \in Elements(Parents(c)) : d < c
      /\ \A c \in Commit : Followed(c) \subseteq Elements(Parents(c))
  BY ParentFacts, FollowedFacts
<1>2. /\ Ancestry \in [Commit -> SUBSET Commit] /\ Traversal \in [Commit -> SUBSET Commit]
      /\ \A c \in Commit : \A d \in Ancestry[c] : d < c
      /\ \A c \in Commit : \A d \in Traversal[c] : d < c
      /\ \A c \in Commit : /\ Ancestry[c] = Elements(Parents(c))
                           /\ Traversal[c] = Followed(c) /\ Traversal[c] \subseteq Ancestry[c]
  BY <1>1 DEF Ancestry, Traversal
<1>3. Elements(in.exclude) \in SUBSET Commit /\ in.include \in SUBSET Commit
  BY InputFacts, ElementsFacts
<1>4. /\ Elements(in.exclude) \subseteq Excl /\ Excl \subseteq Commit /\ Closed(Excl, Ancestry)
      /\ \A X \in SUBSET Commit :
           Elements(in.exclude) \subseteq X /\ Closed(X, Ancestry) => Excl \subseteq X
  BY <1>2, <1>3, ReachFacts DEF Excl
<1>5. /\ in.include \subseteq Incl /\ Incl \subseteq Commit /\ Closed(Incl, Traversal)
      /\ \A X \in SUBSET Commit :
           in.include \subseteq X /\ Closed(X, Traversal) => Incl \subseteq X
  BY <1>2, <1>3, ReachFacts DEF Incl
<1>6. QED
  BY <1>2, <1>4, <1>5

\* The range is kept, in any step.
LEMMA NextRangeInv == ControlInv /\ RangeInv /\ [Next]_vars => RangeInv'
<1> SUFFICES ASSUME ControlInv, RangeInv, [Next]_vars PROVE RangeInv'
  OBVIOUS
<1>1. /\ TypeInv /\ EntryInv /\ MatchInv /\ in' = in
      /\ excluded \subseteq Commit /\ visited \subseteq Commit /\ queue \subseteq Commit
  BY InputStays DEF ControlInv, TypeInv
<1>2. /\ Ancestry' = Ancestry /\ Traversal' = Traversal /\ Excl' = Excl /\ Incl' = Incl
      /\ \A c : Readable(c)' = Readable(c) /\ Matches(c)' = Matches(c)
  BY <1>1 DEF Ancestry, Traversal, Excl, Incl, Reach, Readable, Matches, Followed, Parents, Elements
<1>3. CASE pc' = "failed"
  BY <1>3 DEF RangeInv, Collected
<1>4. CASE /\ UNCHANGED << exclusion, collection >>
           /\ pc' = pc \/ (pc # "exclude" /\ pc' # "exclude" /\ pc # "failed" /\ (Collected \/ queue = {}))
  BY <1>1, <1>2, <1>4 DEF RangeInv, Collected, exclusion, collection
<1>5. CASE ExcludeNext
  <2>1. PICK c \in Elements(stack) :
          /\ c \in Commit /\ excluded' = excluded \cup {c}
          /\ Elements(stack) \subseteq Elements(stack') \cup {c}
          /\ IF c \in excluded \/ ~Readable(c)
             THEN Elements(stack') \subseteq Elements(stack)
             ELSE /\ Elements(stack') \subseteq Elements(stack) \cup Elements(Parents(c))
                  /\ Elements(Parents(c)) \subseteq Elements(stack') \cup excluded'
    BY <1>1, <1>5, ExcludeNextEffect
  <2>2. pc = "exclude" /\ pc' = "exclude"
    BY <1>5 DEF ExcludeNext
  <2>3. c \in Excl /\ Ancestry[c] = Elements(Parents(c))
    BY <1>1, <2>1, <2>2, RangeFacts DEF RangeInv
  <2>4. Readable(c) => Elements(Parents(c)) \subseteq Excl
    BY <1>1, <2>3, RangeFacts DEF Closed
  <2>5. excluded \cup Elements(stack) \subseteq excluded' \cup Elements(stack')
    BY <2>1
  <2>6. excluded' \cup Elements(stack') \subseteq Excl
    BY <2>1, <2>2, <2>3, <2>4 DEF RangeInv
  <2>7. \A d \in excluded' : Readable(d) => Ancestry[d] \subseteq excluded' \cup Elements(stack')
    <3>1. \A d \in excluded : Readable(d) => Ancestry[d] \subseteq excluded' \cup Elements(stack')
      BY <2>2, <2>5 DEF RangeInv
    <3>2. Readable(c) => Ancestry[c] \subseteq excluded' \cup Elements(stack')
      BY <2>1, <2>3, <3>1
    <3>3. QED
      BY <2>1, <3>1, <3>2
  <2>8. Elements(in.exclude)' \subseteq excluded' \cup Elements(stack')
    BY <1>1, <2>2, <2>5 DEF RangeInv, Elements
  <2>9. QED
    BY <1>2, <2>2, <2>6, <2>7, <2>8 DEF RangeInv, Collected, Elements
<1>6. CASE PushTips
  <2>1. /\ pc = "exclude" /\ stack = << >> /\ pc' = "collect" /\ matched' = matched
        /\ visited' = Fresh(in.include) /\ excluded' = excluded /\ visited = {}
        /\ queue' = { c \in Fresh(in.include) : Readable(c) } /\ matched = << >>
    BY <1>1, <1>6 DEF PushTips, exclusion, MatchInv
  <2>2. Elements(stack) = {} /\ Elements(matched') = {}
    BY <2>1 DEF Elements
  <2>3. excluded = Excl
    <3>1. excluded \subseteq Excl /\ Elements(in.exclude) \subseteq excluded
      BY <2>1, <2>2 DEF RangeInv
    <3>2. Closed(excluded, Ancestry)
      BY <2>1, <2>2 DEF RangeInv, Closed
    <3>3. QED
      BY <1>1, <3>1, <3>2, RangeFacts
  <2>4. /\ in.include \subseteq visited' \cup excluded' /\ visited' \cap excluded' = {}
        /\ visited' \subseteq in.include /\ \A c \in visited' \ queue' : ~Readable(c)
        /\ \A c \in queue' : Readable(c)
    BY <2>1 DEF Fresh
  <2>5. visited' \subseteq Incl
    BY <1>1, <2>4, RangeFacts
  <2>6. Elements(matched') = { c \in visited' \ queue' : Readable(c) /\ Matches(c) }
    BY <2>2, <2>4
  <2>7. QED
    BY <1>1, <1>2, <2>1, <2>3, <2>4, <2>5, <2>6 DEF RangeInv, Collected
<1>7. CASE VisitCommit
  <2>1. PICK c \in Newest :
          /\ matched' = IF Matches(c) THEN Append(matched, c) ELSE matched
          /\ visited' = visited \cup Fresh(Followed(c))
          /\ queue'   = (queue \ {c}) \cup { d \in Fresh(Followed(c)) : Readable(d) }
    BY <1>7 DEF VisitCommit
  <2>2. /\ pc = "collect" /\ pc' = "collect" /\ excluded' = excluded
        /\ c \in queue /\ c \in Commit /\ c \in visited /\ Readable(c)
    BY <1>1, <1>7, <2>1 DEF VisitCommit, Newest, MatchInv, RangeInv, exclusion
  <2>3. /\ Traversal[c] = Followed(c) /\ \A d \in Commit : d \in visited => d \in Incl
        /\ Followed(c) \subseteq Incl /\ Followed(c) \subseteq Commit
    <3>1. c \in Incl
      BY <2>2 DEF RangeInv
    <3>2. Closed(Incl, Traversal) /\ Incl \subseteq Commit /\ Traversal[c] = Followed(c)
      BY <1>1, <2>2, RangeFacts
    <3>3. QED
      BY <2>2, <3>1, <3>2 DEF Closed, RangeInv
  <2>4. /\ in.include \subseteq visited' \cup excluded' /\ visited' \cap excluded' = {}
        /\ visited' \subseteq Incl
    BY <2>1, <2>2, <2>3 DEF RangeInv, Fresh
  <2>5. \A d \in queue' : Readable(d)
    BY <2>1, <2>2 DEF RangeInv
  <2>6. /\ \A d \in visited' \ queue' : d = c \/ d \in visited \ queue \/ ~Readable(d)
        /\ visited \ queue \subseteq visited' \ queue' /\ c \in visited' \ queue'
    BY <1>1, <2>1, <2>2 DEF Fresh, MatchInv
  <2>7. \A d \in visited' \ queue' : Readable(d) => Traversal[d] \subseteq visited' \cup excluded'
    <3>1. \A d \in visited \ queue : Readable(d) => Traversal[d] \subseteq visited' \cup excluded'
      BY <2>1, <2>2 DEF RangeInv
    <3>2. Traversal[c] \subseteq visited' \cup excluded'
      BY <2>1, <2>2, <2>3 DEF Fresh
    <3>3. QED
      BY <2>6, <3>1, <3>2
  <2>8. Elements(matched') = { d \in visited' \ queue' : Readable(d) /\ Matches(d) }
    <3>1. Elements(matched') = IF Matches(c) THEN Elements(matched) \cup {c} ELSE Elements(matched)
      <4>1. matched \in Seq(Commit)
        BY <1>1 DEF TypeInv
      <4>2. Elements(Append(matched, c)) = Elements(matched) \cup {c}
        BY <2>2, <4>1, ElementsFacts
      <4>3. QED
        BY <2>1, <4>2
    <3>2. Elements(matched) = { d \in visited \ queue : Readable(d) /\ Matches(d) }
      BY <2>2 DEF RangeInv
    <3>3. QED
      BY <2>2, <2>6, <3>1, <3>2
  <2>9. QED
    BY <1>1, <1>2, <2>2, <2>4, <2>5, <2>7, <2>8 DEF RangeInv, Collected
<1>8. CASE Abort \/ FailOnTree
  BY <1>3, <1>8 DEF Abort, FailOnTree
<1>9. CASE CollectDone
  BY <1>4, <1>9 DEF CollectDone
<1>10. CASE Cancel \/ UNCHANGED vars
  BY <1>4, <1>10 DEF Cancel, vars, exclusion, collection
<1>11. CASE SkipCommit \/ DiffCommit \/ TraverseCommit \/ CheckOther \/ FindOther \/ ReportMerge
            \/ EndCommit \/ Return
  BY <1>4, <1>11 DEF SkipCommit, DiffCommit, TraverseCommit, CheckOther, FindOther, ReportMerge,
                     EndCommit, Return, Collected
<1>12. CASE \E p \in Path : TraverseEntry(p) \/ DiffEntry(p)
  BY <1>4, <1>12 DEF TraverseEntry, DiffEntry, Collected
<1>13. QED
  BY <1>5, <1>6, <1>7, <1>8, <1>9, <1>10, <1>11, <1>12, NextCases DEF Steps

(***************************************************************************)
(* The commits that are walked are the readable ones that the tips reach   *)
(* and the excluded tip does not, each once, for any dates and any damage: *)
(* the exclusion is closed before a tip is queued, so that no commit is    *)
(* queued before it turns out to be excluded.                              *)
(***************************************************************************)
THEOREM TheRangeIsCollected == Spec => []CollectsTheRange
<1>1. Init => RangeInv
  <2> SUFFICES ASSUME Init PROVE RangeInv
    OBVIOUS
  <2>1. /\ pc = "exclude" /\ stack = in.exclude /\ excluded = {} /\ TypeInv
    BY InitControl DEF Init
  <2>2. Elements(in.exclude) \subseteq Excl
    BY <2>1, RangeFacts
  <2>3. QED
    BY <2>1, <2>2 DEF RangeInv, Collected
<1>2. ControlInv /\ RangeInv => CollectsTheRange
  <2> SUFFICES ASSUME ControlInv, RangeInv, Collected
               PROVE  /\ Elements(matched) =
                           { c \in Incl \ Excl : Readable(c) /\ Matches(c) }
                      /\ Cardinality(Elements(matched)) = Len(matched)
    BY DEF CollectsTheRange, Incl, Excl
  <2>1. /\ TypeInv /\ MatchInv /\ queue = {} /\ excluded = Excl
        /\ in.include \subseteq visited \cup Excl /\ visited \cap Excl = {}
        /\ visited \subseteq Incl /\ visited \subseteq Commit
        /\ \A c \in visited : Readable(c) => Traversal[c] \subseteq visited \cup Excl
        /\ Elements(matched) = { c \in visited : Readable(c) /\ Matches(c) }
    BY DEF ControlInv, RangeInv, Collected, TypeInv
  <2>2. Incl \subseteq visited \cup Excl
    <3>1. Excl \subseteq Commit /\ Closed(Excl, Ancestry)
      BY <2>1, RangeFacts
    <3>2. \A c \in Excl : Readable(c) => Traversal[c] \subseteq Excl
      BY <2>1, <3>1, RangeFacts DEF Closed
    <3>3. Closed(visited \cup Excl, Traversal) /\ visited \cup Excl \in SUBSET Commit
      BY <2>1, <3>1, <3>2 DEF Closed
    <3>4. QED
      BY <2>1, <3>3, RangeFacts
  <2>3. visited = Incl \ Excl
    BY <2>1, <2>2
  <2>4. Cardinality(Elements(matched)) = Len(matched)
    <3> DEFINE n == Len(matched)
    <3>1. n \in Nat /\ DOMAIN matched = 1 .. n /\ matched \in [1 .. n -> Elements(matched)]
      <4>1. n \in Nat /\ DOMAIN matched = 1 .. n /\ matched \in [1 .. n -> Commit]
        BY <2>1, LenProperties DEF TypeInv
      <4> HIDE DEF n
      <4>2. QED
        BY <4>1 DEF Elements
    <3> HIDE DEF n
    <3>2. \A c \in Elements(matched) : \E i \in 1 .. n : matched[i] = c
      BY <3>1 DEF Elements
    <3>3. \A i, k \in 1 .. n : matched[i] = matched[k] => i = k
      BY <2>1, <3>1 DEF MatchInv
    <3>4. matched \in Bijection(1 .. n, Elements(matched))
      BY <3>1, <3>2, <3>3, Fun_IsBij
    <3>5. ExistsBijection(1 .. n, Elements(matched))
      BY <3>4, Fun_ExistsBij
    <3>6. IsFiniteSet(1 .. n) /\ Cardinality(1 .. n) = n
      BY <3>1, FS_Interval
    <3>7. Cardinality(Elements(matched)) = n
      BY <3>5, <3>6, FS_Bijection
    <3>8. QED
      BY <3>7 DEF n
  <2>5. QED
    BY <2>1, <2>3, <2>4
<1>3. QED
  BY <1>1, <1>2, NextRangeInv, AlwaysControl, PTL DEF Spec
===============================================================================
