------------------------------ MODULE TreeDiff ------------------------------
(***************************************************************************)
(* What one commit introduces, tree by tree: the merge of sorted entries   *)
(* that compares a tree with the one of the first parent (diffTreesAndEmit *)
(* of internal/gitengine/walker.go), and, in tree.go, the traversal of a   *)
(* whole tree (TraverseTree) and the descent along a path (FindTreeEntry). *)
(* HistoryWalker takes their results for granted.                          *)
(*                                                                         *)
(* A name is a sequence of characters, ordered as numbers; a path is a     *)
(* sequence of names.                                                      *)
(*                                                                         *)
(* An operator named ...Fault is a wrong variant of the one it precedes,   *)
(* kept to show that the properties would notice.                          *)
(***************************************************************************)
EXTENDS Naturals, Sequences, FiniteSets

CONSTANTS OID,           \* names of objects
          NoTree,        \* the empty object id
          Slash,         \* the character '/'
          MaxTreeDepth,  \* deepest tree that TraverseTree enters
          Horizon,       \* length of the paths that the properties look at
          Input          \* the stores and calls

Name == Seq(Nat \ {0, Slash})
Path == Seq(Name)

\* An entry of a tree; "exec" and "blob" are files, "link" and "module" not.
Entry == [name : Name, mode : {"tree", "blob", "exec", "link", "module"}, oid : OID]
IsTree(e) == e.mode = "tree"
IsBlob(e) == e.mode \in {"blob", "exec"}

(***************************************************************************)
(* A call: which operation, on which trees (old is only compared with),    *)
(* with which path filter, or for which path; and the trees in the store.  *)
(* Every other object, readable or not, is no tree that ParseTree accepts. *)
(***************************************************************************)
IsInput(c) ==
  /\ DOMAIN c = {"job", "old", "new", "path", "unwanted", "trees"}
  /\ c.job \in {"diff", "traverse", "find"}
  /\ c.old \in OID \cup {NoTree} /\ c.new \in OID
  /\ c.path \in Path /\ c.unwanted \in SUBSET Path
  /\ DOMAIN c.trees \subseteq OID /\ \A o \in DOMAIN c.trees : c.trees[o] \in Seq(Entry)

ASSUME OIDAssumption   == NoTree \notin OID /\ Slash \in Nat \ {0} /\ MaxTreeDepth \in Nat
ASSUME HorizonAssumption == Horizon \in Nat
ASSUME InputAssumption == \A c \in Input : IsInput(c)

VARIABLES
  in,            \* the call
  ctxCancelled,  \* ctx.Err() # nil
  pc,            \* program counter
  arg,           \* arguments of the recursive call that begins
  stack,         \* frames, outermost first: arguments, entries and position
  emitted,       \* files handed to the callback: path and object
  found          \* what FindTreeEntry returns: one entry or none

vars == << in, ctxCancelled, pc, arg, stack, emitted, found >>

\* ReadObject and ParseTree.
IsReadable(o) == o \in DOMAIN in.trees

Init ==
  /\ in \in Input
  /\ ctxCancelled = FALSE
  /\ pc = in.job
  /\ arg = [old |-> in.old, new |-> in.new, path |-> << >>]
  /\ stack = << >> /\ emitted = << >> /\ found = {}

Cancel ==
  /\ ~ctxCancelled /\ ctxCancelled' = TRUE
  /\ pc \notin {"done", "failed"}
  /\ UNCHANGED << in, pc, arg, stack, emitted, found >>

Top       == stack[Len(stack)]
SetTop(f) == [stack EXCEPT ![Len(stack)] = f]
End(how)  == pc' = how /\ UNCHANGED << arg, stack, emitted >>

\* The callback, or emitBlobOccurrence, behind the path filter.
Emit(p, e) == emitted' = IF p \in in.unwanted THEN emitted
                                              ELSE Append(emitted, << p, e.oid >>)

\* A recursive call returns to the frame below.
Return(loop) ==
  /\ stack' = SubSeq(stack, 1, Len(stack) - 1)
  /\ pc' = IF Len(stack) = 1 THEN "done" ELSE loop
  /\ UNCHANGED << in, ctxCancelled, arg, emitted, found >>

-----------------------------------------------------------------------------
(* diffTreesAndEmit                                                        *)

\* A character of a name; the name of a directory goes on with a slash.
Char(e, k) == CASE k <= Len(e.name) -> e.name[k]
                [] k = Len(e.name) + 1 /\ IsTree(e) -> Slash
                [] OTHER -> 0

\* compareTreeEntries < 0: git's order, by the first character that differs.
Precedes(a, b) ==
  \E k \in 1 .. Len(a.name) + 1 :
    /\ k <= Len(b.name) + 1 /\ Char(a, k) < Char(b, k)
    /\ \A j \in 1 .. k - 1 : Char(a, j) = Char(b, j)

\* The entries of s in order.
Elements(s) == { s[i] : i \in DOMAIN s }
Sorted(s) ==
  CHOOSE t \in [DOMAIN s -> Elements(s)] :
    /\ \A i, k \in DOMAIN s : i < k => ~Precedes(t[k], t[i])
    /\ \A e \in Elements(s) : Cardinality({ i \in DOMAIN s : t[i] = e })
                                = Cardinality({ i \in DOMAIN s : s[i] = e })

\* The entries are taken in the order of the store.
EntriesFault(o) == IF IsReadable(o) THEN in.trees[o] ELSE << >>

\* A tree that is not sorted is sorted first; an unreadable one counts as empty.
Entries(o) == IF IsReadable(o) THEN Sorted(in.trees[o]) ELSE << >>

\* An equal tree is pruned unseen; the old one may be unreadable, not the new.
DiffEnter ==
  /\ pc = "diff"
  /\ CASE arg.old = arg.new ->
            /\ pc' = IF stack = << >> THEN "done" ELSE "merge"
            /\ UNCHANGED << arg, stack, emitted >>
       [] arg.old # arg.new /\ (ctxCancelled \/ ~IsReadable(arg.new)) -> End("failed")
       [] OTHER ->
            /\ stack' = Append(stack, [of |-> arg, old |-> Entries(arg.old), i |-> 1,
                                       new |-> Entries(arg.new), k |-> 1])
            /\ pc' = "merge" /\ UNCHANGED << arg, emitted >>
  /\ UNCHANGED << in, ctxCancelled, found >>

HasNew == Top.k <= Len(Top.new)
HasOld == Top.i <= Len(Top.old)
New    == Top.new[Top.k]
Old    == Top.old[Top.i]

\* An old entry that the new tree lacks.
SkipOld ==
  /\ pc = "merge" /\ HasNew /\ HasOld /\ Precedes(Old, New)
  /\ stack' = SetTop([Top EXCEPT !.i = @ + 1])
  /\ UNCHANGED << in, ctxCancelled, pc, arg, emitted, found >>

\* The entry is in both trees, as a directory or as something else.
SameEntry == HasOld /\ ~Precedes(Old, New) /\ ~Precedes(New, Old)

Advance ==
  SetTop([Top EXCEPT !.k = @ + 1, !.i = IF SameEntry THEN @ + 1 ELSE @])

\* A subtree is compared with the old subtree of its name.
OldSubtree == IF SameEntry /\ IsTree(Old) THEN Old.oid ELSE NoTree

MergeEntry ==
  /\ pc = "merge" /\ HasNew /\ ~(HasOld /\ Precedes(Old, New))
  /\ stack' = Advance
  /\ LET p == Append(Top.of.path, New.name)
     IN  CASE SameEntry /\ Old.oid = New.oid -> UNCHANGED << pc, arg, emitted >>
           [] ~(SameEntry /\ Old.oid = New.oid) /\ IsTree(New) ->
                /\ arg' = [old |-> OldSubtree, new |-> New.oid, path |-> p]
                /\ pc' = "diff" /\ UNCHANGED emitted
           [] ~(SameEntry /\ Old.oid = New.oid) /\ IsBlob(New) ->
                Emit(p, New) /\ UNCHANGED << pc, arg >>
           [] OTHER -> UNCHANGED << pc, arg, emitted >>
  /\ UNCHANGED << in, ctxCancelled, found >>

DiffReturn == pc = "merge" /\ ~HasNew /\ Return("merge")

-----------------------------------------------------------------------------
(* TraverseTree                                                            *)

Visited == { stack[i].of.new : i \in DOMAIN stack }

\* A tree on itself is entered again.
MayEnterFault(o) == Len(stack) <= MaxTreeDepth + 2 /\ IsReadable(o)

\* Neither too deep nor on a cycle.
MayEnter(o) == Len(stack) <= MaxTreeDepth /\ o \notin Visited /\ IsReadable(o)

TraverseEnter ==
  /\ pc = "traverse"
  /\ \/ ~MayEnter(arg.new) /\ End("failed")
     \/ /\ MayEnter(arg.new)
        /\ stack' = Append(stack, [of |-> arg, new |-> in.trees[arg.new], k |-> 1])
        /\ pc' = "entries" /\ UNCHANGED << arg, emitted >>
  /\ UNCHANGED << in, ctxCancelled, found >>

TraverseEntry ==
  /\ pc = "entries" /\ HasNew
  /\ \/ ctxCancelled /\ End("failed")
     \/ /\ ~ctxCancelled
        /\ stack' = SetTop([Top EXCEPT !.k = @ + 1])
        /\ LET p == Append(Top.of.path, New.name)
           IN  /\ IF IsBlob(New) THEN Emit(p, New) ELSE UNCHANGED emitted
               /\ IF IsTree(New)
                  THEN pc' = "traverse" /\ arg' = [arg EXCEPT !.new = New.oid, !.path = p]
                  ELSE UNCHANGED << pc, arg >>
  /\ UNCHANGED << in, ctxCancelled, found >>

TraverseReturn == pc = "entries" /\ ~HasNew /\ Return("entries")

-----------------------------------------------------------------------------
(* FindTreeEntry                                                           *)

\* The search gives up at a name that comes after the one it looks for.
LookupFault(o, n) ==
  LET s       == in.trees[o]
      Flat(e) == [e EXCEPT !.mode = "blob"]
  IN  IF ~IsReadable(o) THEN {}
      ELSE { s[i] : i \in { i \in DOMAIN s :
               s[i].name = n /\ \A k \in 1 .. i - 1 : Precedes(Flat(s[k]), Flat(s[i])) } }

\* The first entry of that name, if there is one.
Lookup(o, n) ==
  LET s == in.trees[o]
  IN  IF ~IsReadable(o) THEN {}
      ELSE { s[i] : i \in { i \in DOMAIN s :
               s[i].name = n /\ \A k \in 1 .. i - 1 : s[k].name # n } }

\* One name of the path.
FindPart ==
  /\ pc = "find"
  /\ LET hit  == Lookup(arg.new, in.path[Len(arg.path) + 1])
         last == Len(arg.path) + 1 = Len(in.path)
         stop == pc' = "done" /\ UNCHANGED arg
     IN  IF ctxCancelled \/ in.path = << >> \/ hit = {} THEN stop /\ UNCHANGED found
         ELSE IF last THEN stop /\ found' = hit
         ELSE /\ UNCHANGED found
              /\ \E e \in hit :
                   IF IsTree(e)
                   THEN /\ arg' = [arg EXCEPT !.new = e.oid, !.path = Append(@, e.name)]
                        /\ UNCHANGED pc
                   ELSE stop
  /\ UNCHANGED << in, ctxCancelled, stack, emitted >>

-----------------------------------------------------------------------------
Next ==
  \/ DiffEnter \/ SkipOld \/ MergeEntry \/ DiffReturn
  \/ TraverseEnter \/ TraverseEntry \/ TraverseReturn
  \/ FindPart \/ Cancel

Spec == Init /\ [][Next]_vars

-----------------------------------------------------------------------------
(* Properties, against the trees as maps from whole paths to entries.      *)

\* Every entry below a tree, with its path, as far as the horizon.
Content(trees) ==
  LET C[d \in 0 .. Horizon] ==
        [o \in OID |->
           IF d = 0 \/ o \notin DOMAIN trees THEN {}
           ELSE UNION { { << << e.name >>, e >> } \cup
                        (IF IsTree(e)
                         THEN { << << e.name >> \o x[1], x[2] >> : x \in C[d - 1][e.oid] } ELSE {})
                        : e \in Elements(trees[o]) }]
  IN  C[Horizon]

\* No tree has two entries of one name, which git fsck calls an error.
HasNoTwins ==
  \A o \in DOMAIN in.trees : \A i, k \in DOMAIN in.trees[o] :
    in.trees[o][i].name = in.trees[o][k].name => i = k

Was  == IF in.old = NoTree THEN {} ELSE Content(in.trees)[in.old]
Is   == Content(in.trees)[in.new]

Files(S)      == { << x[1], x[2].oid >> :
                     x \in { y \in S : IsBlob(y[2]) /\ y[1] \notin in.unwanted } }
Reported      == Elements(emitted)
EachOnce      == Cardinality(Reported) = Len(emitted)
InSight(S)    == { x \in S : Len(x[1]) <= Horizon }

\* The same object was at the same path, as a directory or not as before.
Kept(x) == \E y \in Was :
  y[1] = x[1] /\ y[2].oid = x[2].oid /\ IsTree(y[2]) = IsTree(x[2])

(***************************************************************************)
(* A comparison reports, once each, exactly the files of the new tree that *)
(* the old tree does not have at their path, wherever files and            *)
(* directories change places in git's order, also if it is cancelled but   *)
(* still succeeds.  It fails only on a new subtree that cannot be read and *)
(* was not there before.                                                   *)
(***************************************************************************)
DiffIsExact ==
  in.job = "diff" /\ HasNoTwins =>
    /\ pc = "done" =>
         InSight(Reported) = Files({ x \in Is : ~Kept(x) }) /\ EachOnce
    /\ pc = "failed" /\ ~ctxCancelled =>
         \/ ~IsReadable(in.new) \/ Len(arg.path) > Horizon
         \/ \E x \in Is : IsTree(x[2]) /\ ~IsReadable(x[2].oid) /\ ~Kept(x)

\* A tree below itself, or one level too deep, or unreadable.
Below(x)   == { y[2].oid : y \in { z \in Is : /\ IsTree(z[2]) /\ Len(z[1]) < Len(x[1])
                                              /\ z[1] = SubSeq(x[1], 1, Len(z[1])) } }
Refused(x) == /\ IsTree(x[2])
              /\ \/ ~IsReadable(x[2].oid)
                 \/ Len(x[1]) > MaxTreeDepth
                 \/ x[2].oid \in Below(x) \cup {in.new}

(***************************************************************************)
(* A traversal reports every file of a sound tree, once each, and fails    *)
(* exactly on a tree that is unreadable, too deep or below itself; what it *)
(* reported by then is in the tree.                                        *)
(***************************************************************************)
TraversalIsExact ==
  in.job = "traverse" /\ HasNoTwins =>
    /\ InSight(Reported) \subseteq Files(Is)
    /\ pc = "done" => /\ InSight(Reported) = Files(Is) /\ EachOnce
                      /\ \A x \in Is : ~Refused(x)
    /\ pc = "failed" /\ ~ctxCancelled =>
         ~IsReadable(in.new) \/ Len(arg.path) > Horizon \/ \E x \in Is : Refused(x)

\* FindTreeEntry finds what is at the path; only a cancelled one may miss it.
FindIsTrue ==
  in.job = "find" /\ pc = "done" /\ HasNoTwins /\ Len(in.path) <= Horizon =>
    LET there == { x[2] : x \in { y \in Is : y[1] = in.path } }
    IN  found \subseteq there /\ (ctxCancelled \/ found = there)
=============================================================================
