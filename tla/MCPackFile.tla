----------------------------- MODULE MCPackFile -----------------------------
(***************************************************************************)
(* One pack with every kind of entry, and small packs for the index.       *)
(***************************************************************************)
EXTENDS PackFile, TLC

CONSTANTS x, y

Narrow(k)     == [wide |-> FALSE, at |-> k]
Wide(k)       == [wide |-> TRUE, at |-> k]
Copy(at, n)   == [kind |-> "copy", at |-> at, size |-> n]
Insert(d)     == [kind |-> "insert", data |-> d]
Zero          == [kind |-> "zero"]
D(base, target, ops) == [header |-> TRUE, base |-> base, target |-> target, ops |-> ops]
Ofs(back, d)  == [kind |-> "ofs", back |-> back, delta |-> d]
Ref(n, d)     == [kind |-> "ref", base |-> n, delta |-> d]
Whole(d)      == [kind |-> "whole", data |-> d]

(***************************************************************************)
(* Chains of one, two and too many deltas, a delta on itself, deltas that  *)
(* fail at each of their checks, and a base that is missing.  The index    *)
(* lists the entries in order.                                             *)
(***************************************************************************)
Entries ==
  << Whole(<< x >>),
     Ofs(1, D(1, 2, << Copy(0, 1), Insert(<< y >>) >>)),
     Ofs(1, D(2, 2, << Copy(1, 1), Copy(0, 1) >>)),
     Ref(<< 0, 1 >>, D(2, 3, << Copy(0, 2), Insert(<< x >>) >>)),
     Ref(<< 1, 0 >>, D(1, 1, << Copy(0, 1) >>)),
     Ofs(4, D(2, 2, << Copy(0, 1), Copy(1, 0) >>)),
     Ofs(5, D(1, 2, << Insert(<< y >>) >>)),
     Ofs(2, D(2, 2, << Insert(<< y >>), Copy(0, 2) >>)),
     Ref(<< 0, 7 >>, D(1, 1, << >>)),
     [kind |-> "damaged"],
     Ofs(12, D(1, 1, << >>)),
     Ofs(11, D(1, 1, << Zero >>)),
     Ofs(12, [D(1, 1, << Copy(0, 1) >>) EXCEPT !.header = FALSE]) >>

Numbered(k) == IF k <= 4 THEN << 0, k - 1 >> ELSE << 1, k - 5 >>

Chain(wanted) ==
  [fanout |-> 0 :> 4 @@ 1 :> Len(Entries),
   names |-> [k \in DOMAIN Entries |-> Numbered(k)],
   offsets |-> [k \in DOMAIN Entries |-> Narrow(k)],
   wide |-> << >>, entries |-> Entries,
   wanted |-> { Numbered(k) : k \in wanted }]

Chains == { Chain({2, 4}), Chain({3, 6}), Chain({4, 8}), Chain({5, 7, 9, 10, 11}),
            Chain({1, 12, 13}) }

(***************************************************************************)
(* Indexes of three names, sound and not: every fanout table, offsets that *)
(* are wide, missing, too large or past the end of the file.               *)
(***************************************************************************)
ThreeNames == { << << 0, 0 >>, << 0, 1 >>, << 1, 0 >> >>,
                << << 0, 1 >>, << 1, 0 >>, << 1, 2 >> >>,
                << << 1, 0 >>, << 1, 1 >>, << 1, 2 >> >>,
                << << 0, 1 >>, << 0, 0 >>, << 1, 1 >> >> }
Indexes ==
  [fanout : [0 .. 1 -> 0 .. 4], names : ThreeNames,
   offsets : { << Narrow(1), Narrow(2), Narrow(1) >>,
               << Wide(0), Wide(1), Narrow(9) >>, << Wide(2), Narrow(1), Wide(7) >> },
   wide : {<< 2, 1, 14 >>}, entries : {<< Whole(<< x >>), Whole(<< y >>) >>},
   wanted : { {n} : n \in {0, 1} \X (0 .. 2) }]

\* A delta whose base has an offset that is too large.
Dangling ==
  [fanout |-> 0 :> 1 @@ 1 :> 3, names |-> << << 0, 1 >>, << 1, 0 >>, << 1, 2 >> >>,
   offsets |-> << Narrow(2), Wide(2), Narrow(1) >>, wide |-> << 2, 1, 14 >>,
   entries |-> << Whole(<< x >>), Ref(<< 1, 0 >>, D(1, 1, << Copy(0, 1) >>)) >>,
   wanted |-> { << 0, 1 >> }]

Packs    == Chains \cup Indexes \cup {Dangling}
Symmetry == Permutations(Worker) \cup Permutations(Buffer)
=============================================================================
