----------------------------- MODULE MCTreeDiff -----------------------------
(***************************************************************************)
(* Trees over three names that git orders differently as files and as      *)
(* directories, with nested, unreadable and cyclic subtrees.               *)
(***************************************************************************)
EXTENDS TreeDiff, TLC

CONSTANTS r1, r2, s1, s2, s3, sx, b1, b2

\* The names a, a. and a0: a dot comes before the slash, a zero after it.
A  == << 4 >>
AD == << 4, 1 >>
AZ == << 4, 3 >>

E(n, m, o) == [name |-> n, mode |-> m, oid |-> o]

Below3 == s1 :> << E(A, "blob", b1) >>
       @@ s2 :> << E(A, "exec", b2), E(AD, "tree", s1), E(AZ, "blob", b1) >>
       @@ s3 :> << E(A, "tree", s2) >>
Cyclic == s1 :> << E(A, "blob", b1), E(AZ, "tree", s2) >>
       @@ s2 :> << E(AD, "tree", s1) >>
       @@ s3 :> << E(A, "tree", s3) >>

Some(n, K) == { << >> } \cup { << E(n, k[1], k[2]) >> : k \in K }
Kinds      == { << "blob", b1 >>, << "blob", b2 >>, << "tree", s1 >>, << "tree", s2 >> }
FewKinds   == { << "link", b1 >>, << "tree", s1 >> }

\* The entries in git's order and, as a damaged tree may have them, reversed.
Roots ==
  { x \o y \o z : x \in Some(AZ, {<< "blob", b2 >>, << "module", s1 >>}),
                  y \in Some(A, Kinds \cup FewKinds), z \in Some(AD, Kinds) }
InOrder(s) ==
  SelectSeq(s, LAMBDA e : e.name = A /\ ~IsTree(e)) \o SelectSeq(s, LAMBDA e : e.name = AD)
  \o SelectSeq(s, LAMBDA e : e.name = A /\ IsTree(e)) \o SelectSeq(s, LAMBDA e : e.name = AZ)
Bare      == { s \in Roots : Len(s) <= 1 }
Deep      == { << E(A, "tree", o) >> : o \in {s2, s3, sx} }

Call(job, old, new, path, unwanted, trees) ==
  [job |-> job, old |-> old, new |-> new, path |-> path, unwanted |-> unwanted,
   trees |-> trees]

Diffs ==
  { Call("diff", r1, r2, << >>, {}, r1 :> InOrder(s) @@ r2 :> InOrder(t) @@ Below3)
      : s \in Roots, t \in Roots }
Unsorted ==
  { Call("diff", r1, r2, << >>, {<< A >>}, r1 :> s @@ r2 :> InOrder(t) @@ Below3)
      : s \in Roots, t \in Bare }
  \cup { Call("diff", r1, r2, << >>, {<< A, A >>}, r1 :> InOrder(s) @@ r2 :> t @@ Below3)
      : s \in Bare, t \in Roots }
Damaged ==
  { Call("diff", r1, r2, << >>, {}, r1 :> s @@ r2 :> t @@ Below3)
      : s \in Bare \cup Deep, t \in Deep }
  \cup { Call("diff", o, n, << >>, {}, r1 :> << E(A, "blob", b1) >>)
      : o \in {r1, r2}, n \in {r1, r2} }
Traversals ==
  { Call("traverse", NoTree, n, << >>, u, r1 :> s @@ sub)
      : n \in {r1, r2}, u \in {{}, {<< A >>}}, s \in Roots \cup Deep,
        sub \in {Below3, Cyclic} }
Paths  == { << A >>, << AD >>, << A, A >>, << A, AD, A >>, << A, A, AD, A >> }
Finds  ==
  { Call("find", NoTree, n, p, {}, r1 :> s @@ Below3)
      : n \in {r1, r2}, p \in Paths, s \in Roots \cup Deep }

Calls == { c \in Diffs : c.trees[r1] # c.trees[r2] }
         \cup Unsorted \cup Damaged \cup Traversals \cup Finds
=============================================================================
