---------------------------- MODULE HistoryWalker ----------------------------
(***************************************************************************)
(* HistoryWalker.Walk of internal/gitengine/walker.go: close the excluded  *)
(* revisions under ancestry, collect the commits of the range newest first *)
(* from a priority queue, then report for every commit the blobs it        *)
(* introduces.  The context may be cancelled at any moment.                *)
(*                                                                         *)
(* Commits are numbered so that parents come first; a root tree is a       *)
(* function from paths to blobs, compared as a whole by its object id and  *)
(* entry by entry by the diff.                                             *)
(*                                                                         *)
(* An operator named ...Fault is a wrong variant of the one it precedes,   *)
(* kept to show that the properties would notice.                          *)
(***************************************************************************)
EXTENDS Naturals, Sequences, FiniteSets

CONSTANTS Commit,   \* commits, 1 .. n in an order of creation
          Path,     \* paths of files
          Blob,     \* contents
          NoBlob,   \* no file at a path
          NoPath,   \* no path
          Input     \* the histories and arguments that Walk may be given

Tree == [Path -> Blob \cup {NoBlob}]

(***************************************************************************)
(* What Walk is given: the commit graph, dates and root trees; the commits *)
(* and the trees that cannot be read; the resolved tips, an excluded tip   *)
(* (<< >> for none); the commits that the author and date filters reject;  *)
(* the paths that the path filter keeps; and two flags.                    *)
(***************************************************************************)
InputType ==
  [parents : [Commit -> Seq(Commit)], date : [Commit -> Nat],
   tree : [Commit -> Tree], lost : SUBSET Commit, lostTrees : SUBSET Tree,
   include : SUBSET Commit, exclude : Seq(Commit), rejected : SUBSET Commit,
   wanted : SUBSET Path, firstParent : BOOLEAN, expand : BOOLEAN]

ASSUME CommitAssumption == Commit \subseteq Nat
ASSUME NoneAssumption   == NoBlob \notin Blob /\ NoPath \notin Path
ASSUME InputAssumption  ==
  \A g \in Input : g \in InputType /\ \A c \in Commit :
    \A i \in DOMAIN g.parents[c] : g.parents[c][i] < c

VARIABLES
  in,            \* the input
  ctxCancelled,  \* ctx.Err() # nil
  pc,            \* program counter
  stack,         \* traverseExclude: commits to exclude with their ancestors
  excluded,      \* commits excluded so far
  visited,       \* commits that have been queued once
  queue,         \* the commits in the heap
  matched,       \* matchedCommits
  pos,           \* the commit of matched that is walked
  todo,          \* entries of its tree still to be looked at
  at,            \* the entry whose other parents are searched
  other,         \* the parent that is searched
  seen,          \* seenBlobOcc
  emitted        \* the occurrences handed to the callback, in order

vars == << in, ctxCancelled, pc, stack, excluded, visited, queue, matched, pos,
           todo, at, other, seen, emitted >>

exclusion  == << stack, excluded >>
collection == << visited, queue, matched >>
entry      == << todo, at, other >>
occurrence == << seen, emitted >>
walk       == << pos, todo, at, other, seen, emitted >>

Elements(s) == { s[i] : i \in DOMAIN s }

\* The elements of a sequence that are not in S, in their order.
Without(s, S) ==
  LET F[i \in 0 .. Len(s)] == IF i = 0        THEN << >>
                              ELSE IF s[i] \in S THEN F[i - 1]
                                                 ELSE Append(F[i - 1], s[i])
  IN  F[Len(s)]

Parents(c)  == in.parents[c]
Readable(c) == c \notin in.lost
TreeOID(c)  == in.tree[c]
TreeLost(c) == in.tree[c] \in in.lostTrees

\* The commit that is walked.
Now == matched[pos]

\* MatchesCommitFilters
Matches(c) == c \notin in.rejected

\* The parents that the traversal follows.
Followed(c) ==
  IF in.firstParent /\ Parents(c) # << >> THEN {Parents(c)[1]}
                                          ELSE Elements(Parents(c))

Init ==
  /\ in \in Input
  /\ ctxCancelled = FALSE
  /\ pc = "exclude"
  /\ stack = in.exclude /\ excluded = {}
  /\ visited = {} /\ queue = {} /\ matched = << >>
  /\ pos = 1 /\ todo = {} /\ at = NoPath /\ other = 0
  /\ seen = {} /\ emitted = << >>

Cancel ==
  /\ ~ctxCancelled /\ ctxCancelled' = TRUE
  /\ UNCHANGED << in, pc, exclusion, collection, walk >>

\* A check of ctx that finds it cancelled: Walk returns ctx.Err().
Abort ==
  /\ ctxCancelled
  /\ \/ pc = "exclude" /\ stack # << >>
     \/ pc = "collect" /\ queue # {}
     \/ pc = "walk" /\ pos <= Len(matched)
     \/ pc \in {"diff", "full"} /\ todo # {}
     \/ pc = "other" /\ other <= Len(Parents(Now))
  /\ pc' = "failed"
  /\ UNCHANGED << in, ctxCancelled, exclusion, collection, walk >>

-----------------------------------------------------------------------------
(* collectOrderedCommits                                                   *)

\* traverseExclude does not go on to the parents.
ExcludeNextFault ==
  /\ pc = "exclude" /\ ~ctxCancelled /\ stack # << >>
  /\ stack' = SubSeq(stack, 1, Len(stack) - 1)
  /\ excluded' = excluded \cup {stack[Len(stack)]}
  /\ UNCHANGED << in, ctxCancelled, pc, collection, walk >>

\* traverseExclude: pop a commit, exclude it, push the parents of a readable one.
ExcludeNext ==
  /\ pc = "exclude" /\ ~ctxCancelled /\ stack # << >>
  /\ LET c    == stack[Len(stack)]
         rest == SubSeq(stack, 1, Len(stack) - 1)
         new  == Without(Parents(c), excluded \cup {c})
     IN  /\ excluded' = excluded \cup {c}
         /\ stack' = IF c \in excluded \/ ~Readable(c) THEN rest ELSE rest \o new
  /\ UNCHANGED << in, ctxCancelled, pc, collection, walk >>

\* Commits neither queued before nor excluded.
Fresh(S) == S \ (visited \cup excluded)

\* The tips are queued once the exclusion is closed.
PushTips ==
  /\ pc = "exclude" /\ stack = << >>
  /\ visited' = Fresh(in.include)
  /\ queue' = { c \in Fresh(in.include) : Readable(c) }
  /\ pc' = "collect"
  /\ UNCHANGED << in, ctxCancelled, exclusion, matched, walk >>

\* The heap the wrong way round.
NewestFault == { c \in queue : \A d \in queue : in.date[c] <= in.date[d] }

\* commitHeap.Less: the newest date on top; ties are left to the heap.
Newest == { c \in queue : \A d \in queue : in.date[c] >= in.date[d] }

VisitCommit ==
  /\ pc = "collect" /\ ~ctxCancelled
  /\ \E c \in Newest :
       /\ matched' = IF Matches(c) THEN Append(matched, c) ELSE matched
       /\ visited' = visited \cup Fresh(Followed(c))
       /\ queue'   = (queue \ {c}) \cup { p \in Fresh(Followed(c)) : Readable(p) }
  /\ UNCHANGED << in, ctxCancelled, pc, exclusion, walk >>

CollectDone ==
  /\ pc = "collect" /\ queue = {}
  /\ pc' = "walk"
  /\ UNCHANGED << in, ctxCancelled, exclusion, collection, walk >>

-----------------------------------------------------------------------------
(* walkCommitBlobs                                                         *)

\* The commit is compared with its first parent rather than traversed.
Diffs(c) == ~in.expand /\ Parents(c) # << >> /\ Readable(Parents(c)[1])

\* An old tree that cannot be read counts as empty.
OldEntry(c, p) == IF TreeLost(Parents(c)[1]) THEN NoBlob
                                             ELSE TreeOID(Parents(c)[1])[p]

\* A commit with an unchanged root tree introduces nothing.
SkipCommit ==
  /\ pc = "walk" /\ pos <= Len(matched) /\ ~ctxCancelled
  /\ Diffs(Now) /\ TreeOID(Now) = TreeOID(Parents(Now)[1])
  /\ pos' = pos + 1
  /\ UNCHANGED << in, ctxCancelled, pc, exclusion, collection, entry, occurrence >>

\* A root tree that cannot be read ends the walk with an error.
FailOnTree ==
  /\ pc = "walk" /\ pos <= Len(matched) /\ ~ctxCancelled
  /\ TreeLost(Now)
  /\ Diffs(Now) => TreeOID(Now) # TreeOID(Parents(Now)[1])
  /\ pc' = "failed"
  /\ UNCHANGED << in, ctxCancelled, exclusion, collection, walk >>

\* diffTreesAndEmit: the entries that are new or differ from the old tree's.
DiffCommit ==
  /\ pc = "walk" /\ pos <= Len(matched) /\ ~ctxCancelled
  /\ Diffs(Now) /\ TreeOID(Now) # TreeOID(Parents(Now)[1]) /\ ~TreeLost(Now)
  /\ todo' = { p \in Path : TreeOID(Now)[p] \notin {NoBlob, OldEntry(Now, p)} }
  /\ pc' = "diff"
  /\ UNCHANGED << in, ctxCancelled, exclusion, collection, pos, at, other,
                  occurrence >>

\* TraverseTree: every entry of the tree.
TraverseCommit ==
  /\ pc = "walk" /\ pos <= Len(matched) /\ ~ctxCancelled
  /\ ~Diffs(Now) /\ ~TreeLost(Now)
  /\ todo' = { p \in Path : TreeOID(Now)[p] # NoBlob }
  /\ pc' = "full"
  /\ UNCHANGED << in, ctxCancelled, exclusion, collection, pos, at, other,
                  occurrence >>

\* The occurrence is reported without a look at seenBlobOcc.
ReportFault(p) ==
  LET key == << TreeOID(Now)[p], p >>
  IN  /\ seen' = seen \cup {key}
      /\ emitted' = Append(emitted, [commit |-> Now, blob |-> key[1], path |-> p])

\* Unless commits are expanded, a blob at a path is reported once.
Report(p) ==
  LET key == << TreeOID(Now)[p], p >>
  IN  IF ~in.expand /\ key \in seen
      THEN UNCHANGED occurrence
      ELSE /\ seen' = IF in.expand THEN seen ELSE seen \cup {key}
           /\ emitted' = Append(emitted,
                           [commit |-> Now, blob |-> key[1], path |-> p])

\* The other parents count even where only first parents are followed.
IsMergeFault(c) == Len(Parents(c)) > 1

\* A commit with parents that are searched before it is credited.
IsMerge(c) == Len(Parents(c)) > 1 /\ ~in.firstParent

\* The callback of TraverseTree, after its check of ctx.
TraverseEntry(p) ==
  /\ pc = "full" /\ p \in todo /\ ~ctxCancelled
  /\ todo' = todo \ {p}
  /\ IF p \in in.wanted THEN Report(p) ELSE UNCHANGED occurrence
  /\ UNCHANGED << in, ctxCancelled, pc, exclusion, collection, pos, at, other >>

\* emitBlobOccurrence; ctx need not be looked at between two entries of a tree.
DiffEntry(p) ==
  /\ pc = "diff" /\ p \in todo
  /\ todo' = todo \ {p}
  /\ IF p \in in.wanted /\ IsMerge(Now)
     THEN pc' = "other" /\ at' = p /\ other' = 2 /\ UNCHANGED occurrence
     ELSE /\ UNCHANGED << pc, at, other >>
          /\ IF p \in in.wanted THEN Report(p) ELSE UNCHANGED occurrence
  /\ UNCHANGED << in, ctxCancelled, exclusion, collection, pos >>

\* For each other parent: a check of ctx, then FindTreeEntry in its tree.
CheckOther ==
  /\ pc = "other" /\ other <= Len(Parents(Now)) /\ ~ctxCancelled
  /\ pc' = "find"
  /\ UNCHANGED << in, ctxCancelled, exclusion, collection, walk >>

\* The other parents are looked up in the first parent's tree.
HoldsFault(c, p, b) == ~ctxCancelled /\ OldEntry(Now, p) = b

\* FindTreeEntry finds nothing once ctx is cancelled, nor in an unreadable tree.
Holds(c, p, b) ==
  ~ctxCancelled /\ Readable(c) /\ ~TreeLost(c) /\ TreeOID(c)[p] = b

\* The search stays at a parent that lacks the blob.
FindOtherFault ==
  /\ pc = "find"
  /\ IF Holds(Parents(Now)[other], at, TreeOID(Now)[at])
     THEN pc' = "diff" /\ at' = NoPath /\ other' = 0
     ELSE pc' = "other" /\ UNCHANGED << at, other >>
  /\ UNCHANGED << in, ctxCancelled, exclusion, collection, pos, todo, occurrence >>

\* The search ends at a parent that has the blob, which is then not reported.
FindOther ==
  /\ pc = "find"
  /\ IF Holds(Parents(Now)[other], at, TreeOID(Now)[at])
     THEN pc' = "diff" /\ at' = NoPath /\ other' = 0
     ELSE pc' = "other" /\ other' = other + 1 /\ UNCHANGED at
  /\ UNCHANGED << in, ctxCancelled, exclusion, collection, pos, todo, occurrence >>

\* No other parent has the blob at this path.
ReportMerge ==
  /\ pc = "other" /\ other > Len(Parents(Now))
  /\ Report(at)
  /\ pc' = "diff" /\ at' = NoPath /\ other' = 0
  /\ UNCHANGED << in, ctxCancelled, exclusion, collection, pos, todo >>

EndCommit ==
  /\ pc \in {"diff", "full"} /\ todo = {}
  /\ pos' = pos + 1
  /\ pc' = "walk"
  /\ UNCHANGED << in, ctxCancelled, exclusion, collection, entry, occurrence >>

Return ==
  /\ pc = "walk" /\ pos > Len(matched)
  /\ pc' = "done"
  /\ UNCHANGED << in, ctxCancelled, exclusion, collection, walk >>

-----------------------------------------------------------------------------
Walk ==
  \/ Abort
  \/ ExcludeNext \/ PushTips \/ VisitCommit \/ CollectDone
  \/ SkipCommit \/ FailOnTree \/ DiffCommit \/ TraverseCommit
  \/ \E p \in Path : TraverseEntry(p) \/ DiffEntry(p)
  \/ CheckOther \/ FindOther \/ ReportMerge \/ EndCommit \/ Return

Next == Walk \/ Cancel

\* Walk is one sequential call: it goes on as long as it can.
Spec == Init /\ [][Next]_vars /\ WF_vars(Walk)
-----------------------------------------------------------------------------
(* Properties.                                                             *)

\* The commits from which the walker is not kept by a commit it cannot read.
Reach(S, next) ==
  LET R[c \in Commit] ==
        {c} \cup IF Readable(c) THEN UNION { R[p] : p \in next[c] } ELSE {}
  IN  UNION { R[c] : c \in S }

Ancestry  == [c \in Commit |-> Elements(Parents(c))]
Traversal == [c \in Commit |-> Followed(c)]
Collected == pc \notin {"exclude", "collect", "failed"}

(***************************************************************************)
(* The commits walked are the readable ones reachable from a tip and not   *)
(* from the excluded one, each once, however dates, merges and damage      *)
(* order and shape the queue.                                              *)
(***************************************************************************)
CollectsTheRange ==
  Collected =>
    /\ Elements(matched) =
         { c \in Reach(in.include, Traversal) \ Reach(Elements(in.exclude), Ancestry) :
             Readable(c) /\ Matches(c) }
    /\ Cardinality(Elements(matched)) = Len(matched)

\* Unless a commit is older than its parent, commits are walked newest first.
NewestFirst ==
  (\A c \in Commit : \A p \in Ancestry[c] : in.date[p] <= in.date[c])
  => \A i, k \in DOMAIN matched :
       i < k => in.date[matched[i]] >= in.date[matched[k]]

\* The files of a readable commit.
Files(c) == { << TreeOID(c)[p], p >> : p \in {q \in in.wanted : TreeOID(c)[q] # NoBlob} }

Compared(c) == { p \in Followed(c) : Readable(p) }
Outside     == (UNION { Compared(c) : c \in Elements(matched) }) \ Elements(matched)

(***************************************************************************)
(* A walk that succeeds has reported every file of every commit it walked  *)
(* at least once, but for those a commit outside the walk already had:     *)
(* neither the pruning of equal trees nor the skipping of files that       *)
(* another parent has, nor seenBlobOcc, loses one.                         *)
(***************************************************************************)
NoFileMissed ==
  pc = "done" /\ ~ctxCancelled =>
    UNION { Files(c) : c \in Elements(matched) } \subseteq
      { << e.blob, e.path >> : e \in Elements(emitted) }
      \cup UNION { Files(c) : c \in Outside }

(***************************************************************************)
(* A commit is credited with a file only if no parent it is compared with  *)
(* has that file.  A cancelled walk may credit a merge wrongly, which its  *)
(* caller must not use.                                                    *)
(***************************************************************************)
CreditsTheAuthor ==
  \A e \in Elements(emitted) :
    Diffs(e.commit) /\ ~ctxCancelled =>
      \A p \in Compared(e.commit) :
        ~TreeLost(p) => TreeOID(p)[e.path] # e.blob

\* A blob at a path is reported once; with expanded commits, once per commit.
ReportedOnce ==
  \A i, k \in DOMAIN emitted :
    /\ emitted[i].blob = emitted[k].blob /\ emitted[i].path = emitted[k].path
    /\ in.expand => emitted[i].commit = emitted[k].commit
    => i = k

\* Walk returns, with or without an error.
WalkEnds == <>(pc \in {"done", "failed"})

(***************************************************************************)
(* README.md: "grg identifies the introducing commit (the first commit in  *)
(* the revision ancestry that created or altered that specific blob        *)
(* version at that path)".  In an undamaged history no other commit that    *)
(* was walked and has the blob is then an ancestor of the one credited.    *)
(***************************************************************************)
CreditsTheFirst ==
  /\ pc = "done" /\ ~ctxCancelled /\ ~in.expand
  /\ in.lost = {} /\ in.lostTrees = {}
  => \A e \in Elements(emitted) : \A c \in Elements(matched) :
      << e.blob, e.path >> \in Files(c) /\ c # e.commit
      => c \notin Reach({e.commit}, Ancestry)
=============================================================================
