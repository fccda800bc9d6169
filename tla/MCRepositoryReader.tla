------------------------- MODULE MCRepositoryReader -------------------------
(***************************************************************************)
(* Small object stores.  "split" has a corrupt loose copy and a good       *)
(* REF_DELTA copy whose base is in another pack; "cycle" is a REF_DELTA on *)
(* itself; "thin" and "risky" are deltas on an object without a copy and   *)
(* on one whose decoding panics; the first copies of "torn" and "twice"    *)
(* are such deltas, and their second copies are good.                      *)
(***************************************************************************)
EXTENDS RepositoryReader, TLC

CONSTANTS p1, p2

At(src, kind)   == << [src |-> src, kind |-> kind, hops |-> 0, base |-> "base"] >>
DeltaOn(src, o) == << [src |-> src, kind |-> "ref", hops |-> 0, base |-> o] >>

Store == [base  |-> At(p2, "whole"),
          split |-> At(Loose, "corrupt") \o DeltaOn(p1, "base"),
          cycle |-> DeltaOn(p1, "cycle"),
          plain |-> At(Loose, "whole"),
          gone  |-> << >>,
          thin  |-> DeltaOn(p2, "gone"),
          panic |-> At(p2, "panic"),
          risky |-> DeltaOn(p1, "panic"),
          torn  |-> DeltaOn(p1, "gone") \o DeltaOn(p2, "base"),
          twice |-> DeltaOn(p1, "panic") \o At(p2, "whole")]
Objects == DOMAIN Store

\* Only the store that nested reads need: a delta, and its base in full.
SmallStore   == [base |-> Store.base, split |-> Store.split]
SmallObjects == DOMAIN SmallStore

Symmetry == Permutations(Thread) \cup Permutations(ClosingThread)
=============================================================================
