------------------------------ MODULE MCGrgRun ------------------------------
(***************************************************************************)
(* Runs in three families: every mix of outcomes of the search, with and   *)
(* without --quiet; every way to ask for lines and context of one blob;    *)
(* and every spread of two blobs over two paths and two commits, in every  *)
(* mode of output.                                                         *)
(***************************************************************************)
EXTENDS GrgRun

Plain == [invert |-> FALSE, max |-> 0, before |-> 0, after |-> 0, text |-> FALSE,
          expand |-> FALSE, unordered |-> FALSE, mode |-> "grouped"]

B(kind, lines, raw) == [kind |-> kind, lines |-> lines, raw |-> raw]

\* Three commits, two of them of the same date, and two with one short hash.
Hist(blob) == [date |-> << 1, 2, 2 >>, short |-> << 1, 2, 1 >>, blob |-> blob]

Run(occs, blob, c, q, help) ==
  [occs |-> occs, hist |-> Hist(blob), cfg |-> c, quiet |-> q, info |-> help]

O(p, c, b) == [path |-> p, commit |-> c, blob |-> b]

-----------------------------------------------------------------------------
Outcome == { B("text", << FALSE >>, FALSE), B("text", << TRUE, TRUE >>, TRUE),
             B("unreadable", << >>, FALSE), B("panic", << >>, FALSE) }

Outcomes ==
  { Run([ i \in DOMAIN bs |-> O(i, 3, i) ], bs, Plain, q, FALSE)
      : bs \in UNION { [1 .. n -> Outcome] : n \in 0 .. 3 }, q \in BOOLEAN }
  \cup { Run(<< >>, << >>, Plain, FALSE, TRUE) }

-----------------------------------------------------------------------------
\* What the expression finds in the bytes may differ from what it finds in lines.
Text(n) == { B("text", ls, raw) : ls \in [1 .. n -> BOOLEAN], raw \in BOOLEAN }

Around == { << 0, 0 >>, << 1, 0 >>, << 0, 1 >>, << 1, 1 >>, << 0, MaxInt >> }

Lines ==
  { Run(<< O(1, 3, 1) >>, << b >>,
        [Plain EXCEPT !.invert = inv, !.max = m, !.before = a[1], !.after = a[2],
                      !.mode = "single"], FALSE, FALSE)
      : b \in { x \in Text(4) \cup Text(0) : x.raw \/ TRUE \in ToSet(x.lines) },
        inv \in BOOLEAN, m \in {0, 2}, a \in Around }

-----------------------------------------------------------------------------
Content == << B("text", << TRUE, FALSE, TRUE >>, TRUE), B("binary", << TRUE >>, TRUE) >>

\* At most three paths of commits are reported, each with one of the blobs.
Spread == { s \in [ {3, 2, 1} \X {1, 2} -> {0, 1, 2} ] :
              Cardinality({ x \in DOMAIN s : s[x] # 0 }) <= 3 }

\* In the order of the walk: newest commit first, in a commit by path.
Reported(s) ==
  SelectSeq([ i \in 1 .. 6 |-> LET c == 3 - ((i - 1) \div 2)
                                   p == 1 + ((i - 1) % 2) IN O(p, c, s[<< c, p >>]) ],
            LAMBDA o : o.blob # 0)

\* Without --expand-commits a blob is reported once at each path.
ReportedOnce(occs) ==
  \A i, j \in DOMAIN occs : occs[i].path = occs[j].path /\ occs[i].blob = occs[j].blob => i = j

Layouts ==
  { Run(Reported(s), Content,
        [Plain EXCEPT !.expand = ~ReportedOnce(Reported(s)), !.unordered = u[1], !.text = u[2],
                      !.after = u[3], !.mode = u[4]], FALSE, FALSE)
      : s \in Spread, u \in { << FALSE, FALSE, 1, "grouped" >>, << TRUE, FALSE, 0, "grouped" >>,
                              << FALSE, TRUE, 0, "single" >>, << FALSE, TRUE, 1, "count" >>,
                              << FALSE, FALSE, 0, "names" >> } }

Runs == Outcomes \cup Lines \cup Layouts
=============================================================================
