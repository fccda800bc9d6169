--------------------------- MODULE MCHistoryWalker ---------------------------
(***************************************************************************)
(* Every history of three commits, in two families: Ranges varies the dates*)
(* and the range that is asked for, Contents the trees and the flags, with *)
(* at most one kind of damage or filter at a time.                         *)
(***************************************************************************)
EXTENDS HistoryWalker, TLC

CONSTANTS p, q, b1, b2

Commits == 1 .. 3
Ordered(S) == { s \in UNION { [1 .. n -> S] : n \in 0 .. 2 } :
                  Cardinality({ s[i] : i \in DOMAIN s }) = Len(s) }
Graphs == { g \in [Commits -> Ordered(Commits)] :
              \A c \in Commits : \A i \in DOMAIN g[c] : g[c][i] < c }

File(b) == p :> b @@ q :> NoBlob
Trees   == { File(b) : b \in {NoBlob, b1, b2} } \cup {p :> b1 @@ q :> b1}

Ranges ==
  [parents : Graphs, date : [Commits -> 1 .. 2], tree : {[c \in Commits |-> File(b1)]},
   lost : {{}, {2}}, lostTrees : {{}}, include : { {3}, {1, 3}, {2, 3} },
   exclude : { << >>, << 1 >>, << 2 >> }, rejected : {{}}, wanted : {{p, q}},
   firstParent : BOOLEAN, expand : {FALSE}]

TreesOf == { t \in [Commits -> Trees] : t[1] \in {File(NoBlob), File(b1)} }

Contents(lost, lostTrees, rejected, wanted) ==
  [parents : Graphs, date : {[c \in Commits |-> c]}, tree : TreesOf,
   lost : {lost}, lostTrees : {lostTrees}, include : {{3}},
   exclude : { << >>, << 1 >> }, rejected : {rejected}, wanted : {wanted},
   firstParent : BOOLEAN, expand : BOOLEAN]

Inputs == Ranges \cup Contents({}, {}, {}, {p, q})
                 \cup Contents({1}, {}, {}, {p, q})
                 \cup Contents({}, {File(b1)}, {}, {p, q})
                 \cup Contents({}, {}, {2}, {p, q})
                 \cup Contents({}, {}, {}, {q})
=============================================================================
