------------------------------- MODULE GrgRun -------------------------------
(***************************************************************************)
(* One run of the program, cmd/grg/main.go: set up, walk the history,      *)
(* search the blobs, render, and turn the outcome into an exit code, while *)
(* interrupts may arrive at any moment.  The search is any behaviour that  *)
(* SearchContract allows, the promise that SearchPipeline keeps; what it   *)
(* finds and how that is printed is computed in Report.                    *)
(*                                                                         *)
(* An operator named ...Fault is a wrong variant of the one it precedes,   *)
(* kept to show that the properties would notice.                          *)
(***************************************************************************)
EXTENDS Report

CONSTANTS MaxJobs,             \* bound: most distinct blobs that the walk finds
          CancelCheckInterval, \* lines between two looks at ctx
          Input                \* what is asked, and what there is to be found

\* The history: hist.date and hist.short of commits, hist.blob of object ids.  A
\* commit has one blob at a path, and unless --expand-commits asks for more, the
\* walk reports a blob once at a path (ReportedOnce of HistoryWalker).
IsInput(c) ==
  /\ DOMAIN c = {"occs", "hist", "cfg", "quiet", "info"}
  /\ IsConfig(c.cfg) /\ {c.quiet, c.info} \subseteq BOOLEAN
  /\ DOMAIN c.hist = {"date", "short", "blob"}
  /\ DOMAIN c.hist.date \subseteq Nat /\ \A d \in DOMAIN c.hist.date : c.hist.date[d] \in Nat
  /\ \A b \in DOMAIN c.hist.blob : IsBlob(c.hist.blob[b])
  /\ c.occs \in Seq([path : Nat, commit : DOMAIN c.hist.date, blob : DOMAIN c.hist.blob])
  /\ \A o, p \in ToSet(c.occs) : o.path = p.path =>
       /\ o.commit = p.commit => o = p
       /\ o.blob = p.blob /\ ~c.cfg.expand => o = p
  /\ \E n \in 0 .. MaxJobs : DOMAIN Tasks(c.occs) = 1 .. n

ASSUME IntervalAssumption == CancelCheckInterval \in Nat \ {0} /\ MaxInt \in Nat \ {0}
ASSUME InputAssumption    == \A c \in Input : IsInput(c)

VARIABLES
  in,             \* arguments and history, which never change
  jobOrder, quiet, callerCancelled, delivered, published, closed,  \* the search
  arrived,        \* the tasks with a match, in the order of their results
  handler,        \* the handler of interrupts is installed
  pc,             \* the step of runContext
  walkCancelled,  \* the context was cancelled before Walk returned
  skipped,        \* number of unreadable blobs reported
  err,            \* the error that runContext returns, "none" for nil
  todo,           \* what Format has yet to do
  left,           \* cancelGuard: lines until the next look at ctx
  text,           \* what has been printed on stdout
  diagnosed,      \* something has been written to stderr
  exit            \* the exit code, NoExit while the program runs

search == << delivered, published, closed >>
given  == << in, jobOrder, quiet >>
signal == << callerCancelled, handler >>
format == << todo, left >>
output == << text, diagnosed, skipped >>
vars   == << search, given, arrived, signal, format, output, pc, walkCancelled, err, exit >>

Search == INSTANCE SearchContract

NoExit == 3

Init ==
  /\ in \in Input
  /\ jobOrder = [ i \in DOMAIN Tasks(in.occs) |->
                    ResultKind(in.hist.blob[Tasks(in.occs)[i].oid], in.cfg) ]
  /\ quiet = in.quiet
  /\ callerCancelled = FALSE /\ handler = TRUE
  /\ delivered = {} /\ published = << >> /\ closed = FALSE /\ arrived = << >>
  /\ pc = "parse" /\ walkCancelled = FALSE
  /\ skipped = 0 /\ err = "none" /\ diagnosed = FALSE
  /\ todo = << >> /\ left = 0 /\ text = << >>
  /\ exit = NoExit

\* The steps of runContext in order; the steps named ctx look at ctx.Err().
Step == << "parse", "ctxParsed", "info", "validate", "ctxValid", "discover", "open",
           "matcher", "filter", "walk", "ctxWalked", "occurrences", "search",
           "errCh", "ctxSearched", "report", "emit", "render" >>

GoOn == pc' = Step[1 + CHOOSE i \in DOMAIN Step : Step[i] = pc]

\* runContext returns e to realMain.
Return(e) == pc' = "return" /\ err' = e

-----------------------------------------------------------------------------
(* Set-up.                                                                 *)

\* The error of a step that fails.
SetUpError(s) == IF s \in {"discover", "open"} THEN "repo" ELSE "cli"

SetUp ==
  /\ pc \in {"parse", "validate", "discover", "open", "matcher", "filter"}
  /\ \/ GoOn /\ UNCHANGED err
     \/ Return(SetUpError(pc))
  /\ UNCHANGED << search, given, arrived, format, signal, output, walkCancelled, exit >>

\* Help and version are printed before anything is validated.
PrintInfo ==
  /\ pc = "info"
  /\ IF in.info THEN Return("none") ELSE GoOn /\ UNCHANGED err
  /\ UNCHANGED << search, given, arrived, format, signal, output, walkCancelled, exit >>

\* Nobody looks at ctx between the walk and the search.
CheckCtxFault ==
  /\ pc \in {"ctxParsed", "ctxValid", "ctxWalked", "ctxSearched"}
  /\ IF callerCancelled /\ pc # "ctxWalked" THEN Return("cancel") ELSE GoOn /\ UNCHANGED err
  /\ UNCHANGED << search, given, arrived, format, signal, output, walkCancelled, exit >>

CheckCtx ==
  /\ pc \in {"ctxParsed", "ctxValid", "ctxWalked", "ctxSearched"}
  /\ IF callerCancelled THEN Return("cancel") ELSE GoOn /\ UNCHANGED err
  /\ UNCHANGED << search, given, arrived, format, signal, output, walkCancelled, exit >>

-----------------------------------------------------------------------------
(* Walk and search.                                                        *)

\* What any error amounts to once ctx is cancelled.
OrCancel(e) == IF callerCancelled THEN "cancel" ELSE e

\* Walk may fail, or return without an error though ctx is cancelled by then.
Walk ==
  /\ pc = "walk"
  /\ walkCancelled' = callerCancelled
  /\ \/ GoOn /\ UNCHANGED err
     \/ Return(OrCancel("walk"))
  /\ UNCHANGED << search, given, arrived, format, signal, output, exit >>

CountOccurrences ==
  /\ pc = "occurrences"
  /\ IF jobOrder = << >> THEN Return("noMatch") ELSE GoOn /\ UNCHANGED err
  /\ UNCHANGED << search, given, arrived, format, signal, output, walkCancelled, exit >>

(***************************************************************************)
(* The pipeline hands over results and closes its channels.  Nothing is    *)
(* received from errCh, which holds one error, before resultsCh is closed. *)
(***************************************************************************)
SearchStep ==
  /\ pc = "search"
  /\ \/ \E j \in Search!Job :
          /\ Search!Deliver(j)
          /\ arrived' = IF jobOrder[j] = "hit" THEN Append(arrived, j) ELSE arrived
     \/ /\ \/ published = << >> /\ (Search!PublishFatal \/ Search!PublishCancelled)
           \/ Search!Close \/ Search!CloseCancelled
        /\ UNCHANGED arrived
  /\ UNCHANGED << in, handler, format, output, pc, walkCancelled, err, exit >>

EndOfResults ==
  /\ pc = "search" /\ closed
  /\ GoOn
  /\ UNCHANGED << search, given, arrived, format, signal, output, walkCancelled, err, exit >>

\* An error does not count when there is a match.
ReceiveErrFault ==
  /\ pc = "errCh"
  /\ IF published = << >> \/ arrived # << >> THEN GoOn /\ UNCHANGED err
     ELSE Return(IF published[1] = "cancelled" THEN "cancel" ELSE OrCancel("search"))
  /\ UNCHANGED << search, given, arrived, format, signal, output, walkCancelled, exit >>

ReceiveErr ==
  /\ pc = "errCh"
  /\ IF published = << >> THEN GoOn /\ UNCHANGED err
     ELSE Return(IF published[1] = "cancelled" THEN "cancel" ELSE OrCancel("search"))
  /\ UNCHANGED << search, given, arrived, format, signal, output, walkCancelled, exit >>

-----------------------------------------------------------------------------
(* Output.                                                                 *)

Unreadable == { j \in delivered : jobOrder[j] = "unreadable" }

\* The unreadable blobs are counted without a warning.
ReportSkippedFault ==
  /\ pc = "report"
  /\ skipped' = Cardinality(Unreadable)
  /\ GoOn
  /\ UNCHANGED << search, given, arrived, format, signal, text, diagnosed, walkCancelled, err, exit >>

\* reportSkippedBlobs: a warning on stderr for each.
ReportSkipped ==
  /\ pc = "report"
  /\ skipped' = Cardinality(Unreadable)
  /\ diagnosed' = (diagnosed \/ Unreadable # {})
  /\ GoOn
  /\ UNCHANGED << search, given, arrived, format, signal, text, walkCancelled, err, exit >>

\* No match takes precedence over blobs that could not be read.
WithSkippedFault(e) == IF skipped > 0 /\ e = "none" /\ ~quiet THEN "skipped" ELSE e

\* A match takes precedence, quiet or not.
WithSkippedFault2(e) == IF skipped > 0 /\ e = "noMatch" THEN "skipped" ELSE e

\* withSkippedBlobs
WithSkipped(e) ==
  IF skipped > 0 /\ (e = "noMatch" \/ (e = "none" /\ ~quiet)) THEN "skipped" ELSE e

\* What the pipeline finds in a blob that can be read.
Result(j) == LET task == Tasks(in.occs)[j]
             IN  ProcessTask(task.occs, in.hist.blob[task.oid], in.cfg)

\* The report on the results with a match, in the order of their arrival.
Report == Aggregate(in.hist, [ k \in DOMAIN arrived |-> Result(arrived[k]) ], in.cfg)

\* emitResults up to the call of Format.
Emit ==
  /\ pc = "emit"
  /\ IF arrived = << >> THEN Return(WithSkipped("noMatch")) /\ UNCHANGED format
     ELSE IF quiet THEN Return(WithSkipped("none")) /\ UNCHANGED format
     ELSE /\ todo' = Rendering(in.hist, Report, in.cfg)
          /\ left' = CancelCheckInterval
          /\ GoOn /\ UNCHANGED err
  /\ UNCHANGED << search, given, arrived, signal, output, walkCancelled, exit >>

\* Format goes on, or returns the error of ctx if it looks at it now.
GoOnUnless(looks) ==
  IF looks /\ callerCancelled THEN Return(WithSkipped("cancel")) ELSE UNCHANGED << pc, err >>

\* boundary
RenderBoundary ==
  /\ pc = "render" /\ todo # << >> /\ Head(todo).what = "boundary"
  /\ todo' = Tail(todo) /\ left' = CancelCheckInterval
  /\ GoOnUnless(TRUE)
  /\ UNCHANGED << search, given, arrived, signal, output, walkCancelled, exit >>

\* One item is printed and, if it counts, recorded with the guard.
RenderItem ==
  /\ pc = "render" /\ todo # << >> /\ Head(todo).what # "boundary"
  /\ todo' = Tail(todo) /\ text' = Append(text, Head(todo))
  /\ LET isDue == IsCounted(Head(todo)) /\ left <= 1
     IN  /\ left' = IF ~IsCounted(Head(todo)) THEN left
                    ELSE IF isDue THEN CancelCheckInterval ELSE left - 1
         /\ GoOnUnless(isDue)
  /\ UNCHANGED << search, given, arrived, signal, diagnosed, skipped, walkCancelled, exit >>

\* Stdout cannot be written.
RenderFails ==
  /\ pc = "render" /\ todo # << >> /\ Head(todo).what # "boundary"
  /\ Return(WithSkipped(OrCancel("write")))
  /\ UNCHANGED << search, given, arrived, format, signal, output, walkCancelled, exit >>

RenderDone ==
  /\ pc = "render" /\ todo = << >>
  /\ Return(WithSkipped("none"))
  /\ UNCHANGED << search, given, arrived, format, signal, output, walkCancelled, exit >>

-----------------------------------------------------------------------------
(* realMain and signals.                                                   *)

\* exitCodeForError
ExitCode(e) == CASE e = "none" -> 0 [] e = "noMatch" -> 1 [] OTHER -> 2

\* isQuietError
IsQuietError(e) == e = "skipped" \/ (e = "cancel" /\ quiet)

\* realMain: the error is printed unless it is quiet or says only "no match".
Exit ==
  /\ pc = "return"
  /\ exit' = ExitCode(err)
  /\ diagnosed' = (diagnosed \/ (ExitCode(err) = 2 /\ ~IsQuietError(err)))
  /\ pc' = "exited"
  /\ UNCHANGED << search, given, arrived, format, signal, text, skipped, walkCancelled, err >>

HasEnded == pc \in {"exited", "killed"}

\* An interrupt cancels ctx, or ends the process once the handler is gone.
Interrupt ==
  /\ ~HasEnded
  /\ IF handler
     THEN /\ Search!CallerCancel /\ UNCHANGED pc
     ELSE /\ pc' = "killed"
          /\ UNCHANGED << search, jobOrder, quiet, callerCancelled >>
  /\ UNCHANGED << in, arrived, handler, format, output, walkCancelled, err, exit >>

\* The goroutine that waits for ctx restores the default disposition.
ReleaseHandler ==
  /\ handler /\ callerCancelled /\ ~HasEnded
  /\ handler' = FALSE
  /\ UNCHANGED << search, given, arrived, format, callerCancelled, output, pc, walkCancelled, err, exit >>

-----------------------------------------------------------------------------
Main ==
  \/ SetUp \/ PrintInfo \/ CheckCtx \/ Walk \/ CountOccurrences
  \/ SearchStep \/ EndOfResults \/ ReceiveErr
  \/ ReportSkipped \/ Emit
  \/ RenderBoundary \/ RenderItem \/ RenderFails \/ RenderDone \/ Exit

\* The process is gone; before that, deadlock would be a program that hangs.
Ended == HasEnded /\ UNCHANGED vars

Next == Main \/ Interrupt \/ ReleaseHandler \/ Ended

Spec == Init /\ [][Next]_vars
-----------------------------------------------------------------------------
(* Reference: what there is to be printed.                                 *)

cfg     == in.cfg
Blob(o) == in.hist.blob[o.blob]
Date(c) == in.hist.date[c]

IsBinary(b) == b.kind = "binary" /\ ~cfg.text

\* The regular expression sees line ends that are not part of any line: what it
\* does not find in the whole is not looked for in the lines.
IsPassedOver(b) == ~cfg.invert /\ ~b.raw

\* Lines that match, or that do not, as many as are wanted.
Wanted(b) ==
  LET all == { i \in DOMAIN b.lines : b.lines[i] # cfg.invert }
  IN  IF IsPassedOver(b) THEN {}
      ELSE { i \in all : cfg.max = 0 \/ Cardinality({ j \in all : j <= i }) <= cfg.max }

\* Context that ends beyond the largest int; its lines are lost.
Overflows(b) == \E i \in Wanted(b) : i + cfg.after > MaxInt

\* A wanted line, or one close enough to a wanted line.
IsNear(b, n) == \E i \in Wanted(b) : i - cfg.before <= n /\ n <= i + cfg.after

HasMatch(b) == IF IsBinary(b) THEN b.raw # cfg.invert ELSE Wanted(b) # {}

\* Items that stand for a find, without headings and separators.
IsFind(item) == item.what \in {"match", "context", "binary", "count", "name"}

\* What is to be printed for an occurrence.
Finds(o) ==
  LET b == Blob(o)
      item(what, n) == Item(what, o.path, o.commit, n)
  IN  IF ~HasMatch(b) THEN {}
      ELSE IF cfg.mode = "names" THEN { item("name", 0) }
      ELSE IF cfg.mode = "count"
           THEN { item("count", IF IsBinary(b) THEN 1 ELSE Cardinality(Wanted(b))) }
      ELSE IF IsBinary(b) THEN { item("binary", 0) }
      ELSE { item(IF n \in Wanted(b) THEN "match" ELSE "context", n)
               : n \in { n \in DOMAIN b.lines : IsNear(b, n) } }

AllFinds == UNION { Finds(o) : o \in ToSet(in.occs) }

\* The newest commit with a find at a path.
Newest(path) ==
  Max({ Date(o.commit) : o \in { p \in ToSet(in.occs) : p.path = path /\ HasMatch(Blob(p)) } })

\* The order of finds: files by their newest commit, commits by date, lines.
Precedes(x, y) ==
  IF x.path # y.path
  THEN \/ Newest(x.path) > Newest(y.path)
       \/ Newest(x.path) = Newest(y.path) /\ x.path < y.path
  ELSE IF x.commit # y.commit
  THEN \/ Date(x.commit) > Date(y.commit)
       \/ Date(x.commit) = Date(y.commit) /\ x.commit > y.commit
  ELSE x.n < y.n

\* A path and a short hash are shown once by --files-with-matches.
SameName(x, y) == /\ x.what = "name" /\ y.what = "name" /\ x.path = y.path
                  /\ in.hist.short[x.commit] = in.hist.short[y.commit]

NoneOverflows == HasContext(cfg) => \A o \in ToSet(in.occs) : ~Overflows(Blob(o))

-----------------------------------------------------------------------------
(* Properties.                                                             *)

\* Exit code 1 is given only to a complete walk and a complete search.
NegativeIsEarned ==
  exit = 1 => /\ Search!Loud = {} /\ text = << >>
              /\ closed \/ jobOrder = << >>
              /\ ~walkCancelled

(***************************************************************************)
(* Exit code 1 says that nothing matches: then every blob was read and     *)
(* searched without a match, by the lines themselves, the walk was not cut *)
(* short, and stdout is empty.  (Context beyond the largest int loses      *)
(* matches, and then even the exit code is wrong.)                         *)
(***************************************************************************)
NegativeIsTrue ==
  /\ NegativeIsEarned
  /\ exit = 1 /\ NoneOverflows => AllFinds = {}

(***************************************************************************)
(* Exit code 1 says that nothing matches, whatever numbers were given to   *)
(* -A, -B and -C.  (README.md:246: "No match found and no error occurred") *)
(***************************************************************************)
ExitOneMeansNoMatch == exit = 1 => AllFinds = {}

\* Exit code 0 is given only to a search with a true match, complete unless quiet.
PositiveIsEarned ==
  exit = 0 /\ ~in.info =>
    /\ arrived # << >> /\ AllFinds # {}
    /\ quiet \/ Search!Loud = ToSet(arrived)

(***************************************************************************)
(* Exit code 0 says that there is a match, and unless --quiet asked for no *)
(* more, that every blob could be searched and every find was printed.     *)
(***************************************************************************)
PositiveIsTrue ==
  /\ PositiveIsEarned
  /\ exit = 0 /\ ~in.info /\ ~quiet /\ NoneOverflows =>
       \A x \in AllFinds : \E y \in ToSet(text) : x = y \/ SameName(x, y)

\* A blob whose search failed outright is never passed over in the exit code.
FatalIsNotMasked ==
  (\E j \in delivered : jobOrder[j] = "fatal") => exit \in {2, NoExit}

\* A program that fails says why, unless it is quiet and was interrupted.
FailureIsDiagnosed ==
  exit = 2 => diagnosed \/ (quiet /\ callerCancelled)

\* Nothing is printed that a cancelled walk has collected.
CancelledWalkIsNotShown == walkCancelled => text = << >> /\ exit \in {2, NoExit}

(***************************************************************************)
(* What is on stdout when the process has ended, however it did, is the    *)
(* beginning of one sequence that does not depend on the order in which    *)
(* the workers finished: true finds only, none twice, none passed over,    *)
(* each under the heading of its file and commit.  With --unordered only   *)
(* the order is free.                                                      *)
(***************************************************************************)
OutputIsPrefix ==
  HasEnded /\ text # << >> /\ NoneOverflows =>
    LET finds == SelectSeq(text, IsFind)
        all   == AllFinds
        under(what, k) == \E j \in 1 .. k - 1 :
          /\ text[j].what = what /\ text[j].path = text[k].path
          /\ what = "commit" => text[j].commit = text[k].commit
          /\ \A i \in j + 1 .. k - 1 : text[i].what # what
    IN  /\ ToSet(finds) \subseteq all
        /\ \A j, k \in DOMAIN finds : j < k =>
             IF cfg.unordered THEN finds[j] # finds[k] ELSE Precedes(finds[j], finds[k])
        /\ ~cfg.unordered => \A k \in DOMAIN finds : \A x \in all :
             Precedes(x, finds[k]) => \E j \in 1 .. k : x = finds[j] \/ SameName(x, finds[j])
        /\ cfg.mode = "grouped" => \A k \in DOMAIN text :
             IsFind(text[k]) => under("file", k) /\ under("commit", k)

(***************************************************************************)
(* Lines of one file and commit are printed with a separator between them  *)
(* exactly where lines in between are left out, and never without context. *)
(***************************************************************************)
ContextIsExact ==
  HasEnded /\ text # << >> /\ NoneOverflows => \A k \in DOMAIN text :
    LET isLine(j) == j \in DOMAIN text /\ text[j].what \in {"match", "context"}
        isSep(j)  == j \in DOMAIN text /\ text[j].what = "separator"
        same(i, j) == text[i].path = text[j].path /\ text[i].commit = text[j].commit
    IN  /\ isLine(k) /\ isLine(k + 1) /\ same(k, k + 1) /\ HasContext(cfg) =>
             text[k + 1].n = text[k].n + 1
        /\ isSep(k) =>
             /\ HasContext(cfg) /\ isLine(k - 1) /\ same(k - 1, k)
             /\ isLine(k + 1) => same(k - 1, k + 1) /\ text[k + 1].n > text[k - 1].n + 1
=============================================================================
