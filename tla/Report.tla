------------------------------- MODULE Report -------------------------------
(***************************************************************************)
(* From the occurrences that the walk collected to the lines on stdout:    *)
(* one task for each blob (ExecuteContext and processTask of               *)
(* internal/search/pipeline.go), its matching lines and their context      *)
(* (matcher.go, context.go), the report by file and commit                 *)
(* (internal/aggregator), and its rendering (internal/output).             *)
(*                                                                         *)
(* A line is TRUE if the regular expression finds something in it.  A blob *)
(* has its lines, raw for what the expression finds in the bytes before    *)
(* line ends are stripped, and a kind.  Commits are numbers, in the order  *)
(* of their hashes, paths as well.                                         *)
(*                                                                         *)
(* An operator named ...Fault is a wrong variant of the one it precedes.   *)
(***************************************************************************)
EXTENDS Integers, Sequences, SequencesExt, FiniteSets

CONSTANT MaxInt    \* the largest int

\* A question: lines, context, which occurrences are shown, and how.
IsConfig(cfg) ==
  /\ DOMAIN cfg = {"invert", "max", "before", "after", "text", "expand", "unordered",
                   "mode"}
  /\ {cfg.invert, cfg.text, cfg.expand, cfg.unordered} \subseteq BOOLEAN
  /\ {cfg.max, cfg.before, cfg.after} \subseteq 0 .. MaxInt
  /\ cfg.mode \in {"grouped", "single", "count", "names"}

IsBlob(b) ==
  /\ DOMAIN b = {"kind", "lines", "raw"}
  /\ b.kind \in {"text", "binary", "unreadable", "panic"}
  /\ b.lines \in Seq(BOOLEAN) /\ b.raw \in BOOLEAN

\* The elements of s at these positions, in their order.
Picked(s, positions) ==
  LET picked[k \in 0 .. Len(s)] ==
        IF k = 0 THEN << >>
        ELSE IF k \in positions THEN Append(picked[k - 1], s[k]) ELSE picked[k - 1]
  IN  picked[Len(s)]

\* The elements of s with a property.
Those(s, Has(_)) == Picked(s, { i \in DOMAIN s : Has(s[i]) })

\* The elements of s that are the first of their kind.
Firsts(s, Same(_, _)) ==
  Picked(s, { i \in DOMAIN s : \A j \in 1 .. i - 1 : ~Same(s[j], s[i]) })

\* s rearranged so that no element comes after one it belongs before.
Arranged(s, Before(_, _)) ==
  LET p == CHOOSE p \in Surjection(DOMAIN s, DOMAIN s) :
             \A i, j \in DOMAIN s : i < j => ~Before(s[p[j]], s[p[i]])
  IN  [ i \in DOMAIN s |-> s[p[i]] ]

-----------------------------------------------------------------------------
(* Tasks and their results.                                                *)

\* Occurrences of one blob share a task; tasks are in first-seen order.
Tasks(occs) ==
  LET firsts == Firsts(occs, LAMBDA o, p : o.blob = p.blob)
  IN  [ i \in DOMAIN firsts |->
          [oid  |-> firsts[i].blob,
           occs |-> Those(occs, LAMBDA o : o.blob = firsts[i].blob)] ]

\* MatchBytes: on a whole blob, the inverse of a match.
MatchBytes(b, cfg) == b.raw # cfg.invert

\* The first --max-count lines that match, or that do not.
MatchLines(b, cfg) ==
  LET all == Picked([ i \in DOMAIN b.lines |-> i ],
                    { i \in DOMAIN b.lines : b.lines[i] # cfg.invert })
  IN  IF cfg.max > 0 /\ cfg.max < Len(all) THEN SubSeq(all, 1, cfg.max) ELSE all

\* MatchBlob: a blob without a match in its bytes is not split into lines.
MatchBlob(b, cfg) ==
  IF ~cfg.invert /\ ~MatchBytes(b, cfg) THEN << >> ELSE MatchLines(b, cfg)

-----------------------------------------------------------------------------
(* ExtractContextGroups                                                    *)

\* The sum of two ints.
Plus(m, n) == IF m + n > MaxInt THEN m + n - 2 * (MaxInt + 1) ELSE m + n

Least(m, n)    == IF m < n THEN m ELSE n
Greatest(m, n) == IF m < n THEN n ELSE m

\* The lines around a match, as far as they exist.
Interval(m, total, cfg) == [start |-> Greatest(m - cfg.before, 1),
                            end   |-> Least(Plus(m, cfg.after), total)]

\* Intervals are joined only if they overlap.
MergeFault(merged, next) ==
  LET curr == Last(merged)
  IN  IF next.start <= curr.end
      THEN Append(Front(merged), [curr EXCEPT !.end = Greatest(@, next.end)])
      ELSE Append(merged, next)

\* An interval that overlaps the current one, or is adjacent to it, extends it.
Merge(merged, next) ==
  LET curr == Last(merged)
  IN  IF next.start <= curr.end + 1
      THEN Append(Front(merged), [curr EXCEPT !.end = Greatest(@, next.end)])
      ELSE Append(merged, next)

\* The lines of an interval, with those that match marked.
Group(iv, matches) ==
  [ k \in 1 .. Greatest(iv.end - iv.start + 1, 0) |->
      [n |-> iv.start + k - 1, isMatch |-> iv.start + k - 1 \in ToSet(matches)] ]

\* The intervals, joined from left to right.
Joined(ivs) ==
  LET joined[k \in DOMAIN ivs] == IF k = 1 THEN << ivs[1] >> ELSE Merge(joined[k - 1], ivs[k])
  IN  joined[Len(ivs)]

ContextGroups(matches, total, cfg) ==
  LET joined == Joined([ i \in DOMAIN matches |-> Interval(matches[i], total, cfg) ])
  IN  IF matches = << >> THEN << >>
      ELSE [ g \in DOMAIN joined |-> Group(joined[g], matches) ]

HasContext(cfg) == cfg.before > 0 \/ cfg.after > 0

\* processTask, for a blob b that can be read: with context, from the groups.
ProcessTask(occs, b, cfg) ==
  LET matches == MatchBlob(b, cfg)
      groups  == ContextGroups(matches, Len(b.lines), cfg)
      shown   == FlattenSeq(groups)
      marked  == Those(shown, LAMBDA l : l.isMatch)
      result(m, g, bin) == [occs |-> occs, matches |-> m, groups |-> g, isBinary |-> bin]
  IN  IF b.kind = "binary" /\ ~cfg.text THEN result(<< >>, << >>, MatchBytes(b, cfg))
      ELSE IF HasContext(cfg) THEN result([ i \in DOMAIN marked |-> marked[i].n ], groups, FALSE)
      ELSE result(matches, << >>, FALSE)

\* What the pipeline does with the result: see SearchContract.
ResultKind(b, cfg) ==
  CASE b.kind = "unreadable" -> "unreadable"
    [] b.kind = "panic"      -> "fatal"
    [] OTHER -> LET res == ProcessTask(<< >>, b, cfg)
                IN  IF res.matches # << >> \/ res.isBinary THEN "hit" ELSE "silent"

-----------------------------------------------------------------------------
(* The aggregator.  A history h has dates, short hashes and blobs.         *)

\* selectOccurrences: of one blob at one path, the introducing commit.
IntroducedBefore(h, o, p) ==
  \/ h.date[o.commit] < h.date[p.commit]
  \/ h.date[o.commit] = h.date[p.commit] /\ o.commit < p.commit

SelectOccurrences(h, occs, cfg) ==
  LET firsts == Firsts(occs, LAMBDA o, p : o.path = p.path)
      best(path) == Those(occs, LAMBDA o :
                      /\ o.path = path
                      /\ \A p \in ToSet(occs) : p.path = path => ~IntroducedBefore(h, p, o))[1]
  IN  IF cfg.expand THEN occs ELSE [ i \in DOMAIN firsts |-> best(firsts[i].path) ]

\* processBlobResult on all results: each path of a commit is entered once.
Entries(h, results, cfg) ==
  LET entry(o, res)  == [path |-> o.path, commit |-> o.commit, res |-> res]
      entries(res)   == LET occs == SelectOccurrences(h, res.occs, cfg)
                        IN  [ i \in DOMAIN occs |-> entry(occs[i], res) ]
  IN  Firsts(FlattenSeq([ i \in DOMAIN results |-> entries(results[i]) ]),
             LAMBDA d, e : d.path = e.path /\ d.commit = e.commit)

\* Commits newest first, then by hash.
CommitBefore(h, c, d) ==
  \/ h.date[c.commit] > h.date[d.commit]
  \/ h.date[c.commit] = h.date[d.commit] /\ c.commit > d.commit

\* NewestCommitDate
NewestDate(h, f) == Max({0} \cup { h.date[c.commit] : c \in ToSet(f.commits) })

\* Files of one date stay in the order in which their results arrived.
FileBeforeFault(h, f, g) == NewestDate(h, f) > NewestDate(h, g)

\* Files by the newest commit, then by path.
FileBefore(h, f, g) ==
  \/ NewestDate(h, f) > NewestDate(h, g)
  \/ NewestDate(h, f) = NewestDate(h, g) /\ f.path < g.path

\* Aggregate, with finalizeResults: unless --unordered, arrival does not show.
Aggregate(h, results, cfg) ==
  LET entries == Entries(h, results, cfg)
      firsts  == Firsts(entries, LAMBDA d, e : d.path = e.path)
      commits(path) == Those(entries, LAMBDA e : e.path = path)
      file(path) == [path |-> path,
                     commits |-> IF cfg.unordered THEN commits(path)
                                 ELSE Arranged(commits(path),
                                               LAMBDA c, d : CommitBefore(h, c, d))]
      files == [ i \in DOMAIN firsts |-> file(firsts[i].path) ]
  IN  IF cfg.unordered THEN files
      ELSE Arranged(files, LAMBDA f, g : FileBefore(h, f, g))

-----------------------------------------------------------------------------
(* The formatters: what Format does, step by step.  Each step prints one   *)
(* item or, as a boundary, looks at ctx; the lines that are counted lead   *)
(* to such a look as well, at intervals.                                   *)

Item(what, path, commit, n) ==
  [what |-> what, path |-> path, commit |-> commit, n |-> n]

IsCounted(item) == item.what \in {"match", "context", "count", "name"}

Line(path, commit, l) == Item(IF l.isMatch THEN "match" ELSE "context", path, commit, l.n)

\* The lines of one commit: groups with separators between them, or matches.
PrintLines(path, c) ==
  LET print(g) == (IF g > 1 THEN << Item("separator", path, c.commit, 0) >> ELSE << >>)
                  \o [ l \in DOMAIN c.res.groups[g] |->
                         Line(path, c.commit, c.res.groups[g][l]) ]
  IN  IF c.res.groups # << >> THEN FlattenSeq([ g \in DOMAIN c.res.groups |-> print(g) ])
      ELSE [ i \in DOMAIN c.res.matches |->
               Item("match", path, c.commit, c.res.matches[i]) ]

PrintCommit(path, c) ==
  IF c.res.isBinary THEN << Item("binary", path, c.commit, 0) >> ELSE PrintLines(path, c)

\* CountFormatter: a binary file counts as one match.
PrintCount(path, c) ==
  LET count == IF c.res.isBinary THEN 1 ELSE Len(c.res.matches)
  IN  IF count = 0 THEN << >> ELSE << Item("count", path, c.commit, count) >>

\* One file of GroupedFormatter, SingleLineFormatter, CountFormatter and
\* FilesWithMatchesFormatter, the last one with repeated names.
PrintFile(f, isFirst, cfg) ==
  LET each(print(_, _)) ==
        FlattenSeq([ k \in DOMAIN f.commits |-> print(f.path, f.commits[k]) ])
      title(p, c) == << Item("commit", p, c.commit, 0) >> \o PrintCommit(p, c)
      name(p, c)  == << Item("name", p, c.commit, 0) >>
  IN  << Item("boundary", f.path, 0, 0) >> \o
      CASE cfg.mode = "grouped" ->
             (IF isFirst THEN << >> ELSE << Item("blank", f.path, 0, 0) >>)
             \o << Item("file", f.path, 0, 0) >> \o each(title)
        [] cfg.mode = "single" -> each(PrintCommit)
        [] cfg.mode = "count"  -> each(PrintCount)
        [] cfg.mode = "names"  -> each(name)

\* seen of FilesWithMatchesFormatter: what is printed is printed once.
Distinct(h, items) ==
  Firsts(items, LAMBDA x, y : /\ x.what = "name" /\ y.what = "name" /\ x.path = y.path
                              /\ h.short[x.commit] = h.short[y.commit])

\* NewFormatter and Format.
Rendering(h, files, cfg) ==
  Distinct(h, FlattenSeq([ i \in DOMAIN files |-> PrintFile(files[i], i = 1, cfg) ]))
=============================================================================
