# grg in TLA+

`grg` searches the history of a git repository for a pattern.  These modules
model it from the command line to the exit code: parsing and validation, a git
that changes references meanwhile, the walk of a possibly damaged history, delta
chains through pooled buffers, the concurrent search, the report, and interrupts
at any moment.  TLC checks them on small instances; TLAPS proves the guarantees of
the pipeline, the object reader, the pack reader, the history walker, the comparison
of trees and the exit code for every value of the constants.

## The system

One run is a straight line with one concurrent stretch:

    cmd/grg/main.go  realMain, runContext
      cli.Parse, cli.Validate            arguments -> model.Config
      gitengine.Discover                 -> RepoInfo
      gitengine.NewRepositoryReader      loose objects and packs, shared
      HistoryWalker.Walk                 commits -> blob occurrences   (sequential)
      Pipeline.ExecuteContext            occurrences -> BlobResults    (concurrent)
      reportSkippedBlobs, Aggregate      results -> files and commits
      Formatter.Format                   -> stdout
      exitCodeForError                   0 match, 1 no match, 2 anything else

| component | state | operations | what is hard | what makes it correct |
|---|---|---|---|---|
| search pipeline (`internal/search/pipeline.go`) | three channels, a counter, a derived context | dispatch, runWorker, closer | three kinds of goroutines, first error wins, quiet early stop, caller cancels or stops reading | no error means complete; an internal stop is never reported as a cancellation; nothing is sent on a closed channel; no goroutine is left behind |
| object reader (`object.go`, `loose.go`) | `mu`, `closed`, `inflight`, loose and packs | ReadObject, HasObject, Close | reads nest through REF_DELTA and race Close | no read on a closed descriptor; no deadlock; answers are true |
| pack reader (`pack.go`, `pack_index.go`, `delta.go`) | an open file, an index, pooled buffers | readObjectAt, FindOffset, ApplyDeltaWithBuffer | depth limit across packs, corrupt bytes, pooled arrays handed up a chain | bounded recursion; a buffer has one owner; indices in range |
| history walker (`walker.go`, `revlist.go`, `tree.go`) | heap, visited, excluded, seenBlobOcc | collectOrderedCommits, diffTreesAndEmit, emitBlobOccurrence | merges, date order against ancestry, unreadable objects, cancellation in the middle | the range is exact; no file is lost to pruning; a merge is credited only with what is new |
| program run (`cmd/grg`) | context, error | runContext, emitResults, withSkippedBlobs | signals at any point, soft and fatal errors in one exit code | exit codes 0 and 1 are true; failures are diagnosed |
| aggregator (`internal/aggregator`) | maps by path and commit | Aggregate, AggregateChannel | results arrive in any order; one occurrence stands for several | the report does not depend on the schedule, nothing is lost or told twice |
| matcher, context (`matcher.go`, `context.go`) | none | MatchBlob, ExtractContextGroups | a fast path on raw bytes, intervals that merge, inversion and --max-count together | groups are disjoint, ordered and complete |
| refs, discovery (`refs.go`, `discovery.go`) | files of the repository | ResolveRef, ListAllRefs, DiscoverWithEnv | git updates, packs and prunes between two reads; worktrees; symbolic cycles | a reference that exists all the time is found, with a value it had |
| revision list (`revlist.go`) | none | ParseRevSpec, ParseFilterDate | ranges, ancestry, what validation let through | a revision is honoured or refused, never read as something else |
| command line (`internal/cli`) | Config, positionals | ParseArgs, Validate | flags in clusters, attached values, three flags on two fields | the last of the case flags wins |
| output (`internal/output`) | cancelGuard | Format | cancellation between two lines | what is printed is the beginning of the whole report |
| filters (`internal/filter`), commit parsing, data model | none | Match, ParseCommit | | |

## Modules

| module | models | composed with |
|---|---|---|
| `SearchContract` | what a call of ExecuteContext promises, without goroutines or channels | implemented by `SearchPipeline`, used by `GrgRun` |
| `SearchPipeline` | dispatcher, workers, closer and the most general caller | refines `SearchContract` (`KeepsContract`) |
| `SearchPipeline_proofs` | the invariants of `SearchPipeline`, and that it implements `SearchContract`, proved | |
| `RepositoryReader` | RWMutex, wait group, nested reads, Close | takes the decoding of a copy as given |
| `PackFile` | index search, delta chains, buffer pool | is that decoding, inside one pack |
| `HistoryWalker` | exclusion, collection, comparison of trees, attribution | takes tree comparison as a comparison of maps |
| `TreeDiff` | merge of sorted entries, traversal, descent along a path | is that comparison, on nested trees |
| `Report` | tasks, matching lines, context, aggregation, formats; operators only | extended by `GrgRun` |
| `GrgRun` | a whole run with signals, output and exit code | instantiates `SearchContract`, extends `Report` |
| `CommandLine` | ParseArgs, positionals, Validate | extended by `Revisions` |
| `Refs` | discovery, ResolveRef and ListAllRefs, read by read, and a git at work | extended by `Revisions` |
| `Revisions` | from arguments to the commits where the search begins | composes the two above |
| `RepositoryReader_proofs`, `PackFile_proofs`, `HistoryWalker_proofs`, `TreeDiff_proofs`, `Revisions_proofs`, `GrgRun_proofs` | theorems about the module of that name | extend it |
| `RecursionLemmas` | induction over numbers and the existence of recursive functions | used by these proofs |
| `MC...` | instances for TLC | |

Operators named `...Fault` are wrong variants of the operator that they precede:
what a slip in that piece of code would look like.  No specification uses them.
They are there to show that each property would notice.

### SearchPipeline

Each goroutine is a program counter and each action is one access to what the
goroutines share.  `dispatcher` is the goroutine of dispatch; `pc[w]` follows
runWorker: `select` (WorkerQuit, WorkerDrained, WorkerReceive), `read` and `match`
(safeProcessTask with its two looks at ctx), `check` (CheckTeardown), `publish`
(PublishErr), `send` (SendResult, AbandonResult), `count`, `stop`.  `closer` waits
for the pool, publishes the caller's cancellation if the counter says that the
run was cut short, and closes resultsCh and errCh.  A `select` with several ready
arms is a choice between actions.  A blob is abstracted to the kind of its result:
`silent`, `hit` (text or binary match), `unreadable` (BlobReadError), `fatal` (any
other error, or a panic that safeProcessTask recovers).  tasksCh has one sender
that walks jobOrder, so two counters, `sent` and `received`, stand for its content.
The caller may receive from either channel at any time, stop for good, or cancel;
cancellation reaches the derived context in a step of its own, as in package
context.

### RepositoryReader

`readers` and `writer` are the RWMutex: a goroutine in Lock, waiting or not, keeps
new readers out.  `inflight` holds one entry for each registered read, nested ones
included, so that the wait group's counter is its size.  `stack[t]` holds the nested
reads of one goroutine; each frame keeps the snapshot of the sources, the next copy
to try and the first error.  acquire is RLock, CheckClosed, Register, RUnlock;
Close is AwaitLock, TakeSources, AwaitReads, ReleasePack, ReturnClose.  The
constant `Copies` gives the copies of each object in lookup order (loose before
packs) and what decoding each of them meets: data, corruption, a panic, or a delta,
reached over `hops` OFS_DELTA steps, on a base that is looked up through the reader.
`Resolve` is what a read yields when nobody interferes: the first copy that succeeds
or panics, or else the error of the first copy.  `Yields` is what it may yield when
Close cuts off some bases: the outcome of any copy, or closed.

### HistoryWalker

Walk is sequential, so one program counter and one nondeterminism of the
environment, the cancellation.  `exclude` is traverseExclude, `collect` the loop on
the heap (VisitCommit takes any commit of the newest date), `walk` the loop over
the matched commits, `diff` and `full` the entries of one of them (diffTreesAndEmit
or TraverseTree), `other` and `find` the search of a merge's other parents.  The
history, its damage and the arguments are one record, `in`, that never changes.  A
root tree is a map from paths to blobs.  That stands for nested trees as well,
whose pruning compares object ids exactly as the comparison of entries does;
`TreeDiff` has the order of entries and the recursion.  `Without` drops the excluded commits
from a sequence, and `Reach` gives the commits that a traversal gets to through
commits it can read; both are recursive functions, which the proofs can unfold.

### PackFile

The workers of a search read from one pack that never changes.  `Call` is
ReadObject, `SearchStep`, `SearchHit` and `SearchMiss` the binary search of
FindOffset with `low` and `high` in the frame, `ReadEntry` the header of an entry
and the recursion into its base.  A delta is decoded in steps of its own, because
other workers use the pool in between: `GetBuffer`, one `RunOp` for each
instruction, `EndOps`, then `PutBase` for the buffer of the base and `HandUp` or
`CopyOut` and `PutOwn` for the result.  `pool` counts how often a buffer is pooled,
so that a double put shows; `mem` is what the arrays hold, and a slice of a buffer
that was put back changes under its reader.  Collect is the garbage collector
emptying the pool.

`Decode` says in one definition what the entry at an offset stands for: the bytes,
or the error of the first thing that is wrong with it, in the order in which the
code would meet it.  `Decoded` is the recursion through the bases up to the depth
limit, and `Meaning` gives each name that is looked up the object or the error.

### TreeDiff

`stack` holds the frames of the recursion, with the two positions of the merge.
Names are sequences of characters, since git sorts a directory as if its name
ended in a slash: with the names `a`, `a.` and `a0` a file and a directory of one
name stand at different places.  The caller may cancel before any step.  The
properties compare with the trees as sets of whole paths (`Content`), which damage may
make infinite, since a tree can be below itself: they look at the paths of at most
`Horizon` names, a constant that may be any number.  They ask for trees without two
entries of one name (`HasNoTwins`).

### Report and GrgRun

`Report` has no state: its operators follow the data from the occurrences of the
walk to what Format prints, item by item.  A line is TRUE if it matches; a blob also
says whether the expression finds anything in its raw bytes, which is what the
matcher asks first.  Integers are those up to `MaxInt` and wrap (`Plus`).

`GrgRun` has one action per step of runContext, in the order of `Step`, then Exit for
the end of realMain.  The pipeline is any behaviour of `SearchContract`; the instance
shares the variables of the contract, and `arrived` is the order in which results
came.  Publishing is limited to one error, since the caller does not receive from
errCh before resultsCh is closed.  Format prints one item of `todo` per step, looks
at ctx at each boundary and whenever `left` has counted down, and may fail to write.
`walkCancelled` and `diagnosed` only record.  Interrupts arrive at any time; the first
cancels the context, and after ReleaseHandler another one kills the process.

### CommandLine, Refs and Revisions

An argument is what the scanner tells apart: a long flag with or without an attached
value, a cluster of short ones, `--`, or a word.  What a text means (a number, a
date, a boolean, a revision, a bad expression) is given by constants.  ParseArgs is
one action per argument, then EndOfArgs and Validate.

A file system is a map from paths to files, links and directories.  `Discover` is
DiscoverWithEnv, with GIT_DIR, gitdir files and commondir.  ResolveRef and
ListAllRefs read one file per step (`ReadLoose`, `ReadPacked`, `ListPacked`,
`ScanEntry`), and between any two of these git may update a reference, write
packed-refs, or remove a loose file that it has packed, in git's own order: packed
first, removed afterwards and only if unchanged.  `had` and `pruned` record, for the
properties, which values a reference has had since the call began and whose file was
removed.  `Revisions` then follows ParseRevSpec and the first part of
collectOrderedCommits: `todo` holds the names to be resolved with their role.

References are neither created nor deleted meanwhile, HEAD is not switched, and
reading fails only for a file that is missing, a directory, or below a file.

## Runs

| run | instance | shows |
|---|---|---|
| `pipeline` | 2 workers, 3 blobs, buffers of 1, 629 thousand states | safety of the pipeline, and that it implements `SearchContract` |
| `pipeline_live` | 2 workers, 2 blobs | no goroutine leak if the caller drains or cancels |
| `reader` | 2 readers, 2 closers, 10 objects, depth limit 1, 548 thousand states | no read on a closed pack, truth of answers, wait group used properly |
| `reader_live` | 2 readers, 2 closers, 2 objects | reads and closes return |
| `reader_doc` | as `reader_live` | a counterexample, see Findings |
| `history` | every history of 3 commits in two families, 464 thousand states | exact range, order, no file lost, merges credited rightly, Walk ends |
| `history_doc` | as `history` | a counterexample, see Findings |
| `pack` | 2 workers, 4 buffers, 13 entries, 1801 small indexes, 200 thousand states | one owner per buffer, search inside the table, objects as their bytes say |
| `tree` | every pair of trees over 3 names and their subtrees, 217 thousand states | comparison, traversal and descent agree with the trees as maps |
| `run` | up to 3 blobs of any kinds, texts of 4 lines, 2 paths and 3 commits, 562 thousand states | exit code, stdout and stderr agree with what there is to be found |
| `run_doc` | as `run` | a counterexample, see Findings |
| `revisions` | command lines of up to 4 arguments, 40 names and revisions in 11 kinds of repository, 540 thousand states | what is searched is what was asked for, also while git works |

Properties, by the question that they answer:

- *Is the result of a search trustworthy?* `NoErrorMeansComplete`, `DeliveredOnce`,
  `FatalErrorPrecedesResult`, `CompleteIsNotCancelled`,
  `InternalStopIsNotCancellation`, `EarlyStopIsJustified`, and all together
  `KeepsContract`.
- *Does it stop?* `NoSendOnClosedChannel`, `NoGoroutineLeak`, `WalkEnds`,
  `ReadsReturn`, `ClosesReturn`, and the deadlock check of `run`.
- *Does a reader survive Close and damage?* `NoReadOnClosedPack`, `NoAddDuringWait`,
  `ReadsAreTrue` (the answer is always in `Yields`, and exactly `Resolve` unless the
  reader was closed), `HasObjectIsTrue`.
- *Is what is read what was stored?* `OneOwner`, `SearchKeepsTheName`,
  `ReadsTheObject` (against `Meaning`, the object without pool or search).
- *Is the history complete and credited rightly?* `CollectsTheRange` (against
  reachability through the commits that can be read), `NewestFirst`, `NoFileMissed`, `CreditsTheAuthor`, `ReportedOnce`,
  `DiffIsExact`, `TraversalIsExact`, `FindIsTrue`.
- *Is the right thing searched?* `LastCaseFlagWins`, `ResolvesToALiveValue`,
  `ListsEveryRef`, `RangeIsHonoured`.
- *Does the program tell the truth?* `NegativeIsTrue` (exit 1), `PositiveIsTrue`
  (exit 0), each of them what the run has done to earn the code (`NegativeIsEarned`,
  `PositiveIsEarned`) and that it agrees with the texts; `FatalIsNotMasked`, `FailureIsDiagnosed`, `CancelledWalkIsNotShown`, and
  of stdout `OutputIsPrefix` and `ContextIsExact` (against `Finds`, which says for
  each occurrence what is to be printed, line by line).

### Bounds, and why they are enough

- Two workers are what it takes for one to stop the run while another publishes,
  sends or counts; the workers are interchangeable (symmetry).  With three blobs
  and buffers of one, the dispatcher blocks on a full tasksCh, workers on a full
  resultsCh, and a blob is still queued when the run is stopped.  Buffers are never
  smaller than 32 in the code; the proofs cover every size.
- A depth limit of 1 (50 in the code) lets a delta on a base succeed and makes a
  cycle hit the limit.  Two closers show the second Close, two readers a read that
  registers while another drains.  `Store` has an object for every way in which a
  read can end; `torn` and `twice` have a first copy on a base that is missing or
  panics and a good second one, so that the order of the copies decides.
- Three commits are the smallest history with a merge whose parents are related or
  not, and with a change and its revert.  The family `Ranges` varies dates, tips
  and exclusions over one tree; `Contents` varies trees and flags with one kind of
  damage or filter at a time.  Two paths tell a changed tree from a changed file.
- `PackFile`: a depth limit of 2 has chains of one, two and too many deltas; the
  entries fail at each check of delta.go once.  Four buffers are what two workers
  can hold in chains of that length, and the capacities (2 when new, 2 at most
  pooled, 3 at most) let a buffer grow and then be dropped.  The indexes have every
  fanout table over two buckets, sorted names and unsorted ones, and
  `Dangling` a delta whose base has an offset that is too large.
- `TreeDiff`: a depth limit of 2 (256 in the code) with trees one level deeper, and a
  horizon of 4, beyond the deepest path of the sound trees; the three names are the smallest set that sorts differently as files and directories.
- `GrgRun`: texts of four lines have two matches that are apart, adjacent,
  overlapping in context and at both ends; MaxInt = 7 makes only the largest context
  wrap.  ctx is looked at every 2 lines instead of 1024.
- `Revisions`: a chain of symbolic references may have 2 links (10 in the code); git
  does at most 3 updates and packs (pruning not counted), enough to pack, prune and
  update again behind one call.

Deadlock is checked in the runs of pipeline, reader, pack and run, whose
specifications let a finished system stutter or be called again.  It is switched off
for `HistoryWalker`, `TreeDiff` and `Revisions`: their calls return.

### Fairness

`SearchPipeline`: weak fairness for each goroutine and for the propagation of a
cancellation, which the Go scheduler and package context give.  For the caller
nothing is assumed but the precondition of `NoGoroutineLeak`, which is the one that
the code states: it drains resultsCh or cancels.  `RepositoryReader`: weak fairness
for a goroutine inside a call; nobody has to call.  `HistoryWalker`: weak fairness for
the one goroutine that runs.  The other specifications state none; that `GrgRun` ends
follows from the deadlock check, since each of its steps goes forward.

## Findings

- `reader_doc`: the comment on Close (`object.go:219-220`) says that a concurrent
  read completes or fails with ErrReaderClosed.  A read whose loose copy is corrupt
  goes on to a packed REF_DELTA copy; when Close comes before the nested read of the
  base, the copy fails with ErrReaderClosed, but the read returns the first error it
  met, ErrCorruptObject.  In the same way the read of an object whose first copy is a
  delta on a missing base can end as not found when Close cuts off the second copy,
  against `object.go:97-98`; `ReadsAreTrue` therefore claims no more than `Yields`.
- `history_doc`: README.md:194 promises the first commit that created the content.
  Commits are walked newest first and a content is reported once per path, so after
  a change and a revert the reverting commit is credited.
- `run_doc`: README.md:246 gives exit code 1 to a run in which nothing matches.
  Context that ends beyond the largest int wraps (`context.go:58`): the group is empty
  and with it the match is lost, so that `-A 9223372036854775807` exits with 1 on a
  blob that matches.  The properties of `run` leave such arguments out
  (`NoneOverflows`).

Noted while modelling, without a run of their own:

- `--since "2 weeks ago"` (README.md:134 and :232) passes validation, but
  ParseFilterDate does not know it and `walker.go:349` drops the error: the filter does
  not apply.
- README.md:310 (also :18 and :128, and the comment at `validate.go:152`) describes
  `A...B`.  Validation splits it into `A` and `.B`, and refuses the dot at the beginning
  of the second (`RevSpecIsValid`; the text `dev...main` of the run `revisions`).
- `--branch release/v1.0` (README.md:144) is refused by validateBranchName.
- A quiet run that has delivered its match and is interrupted before the closer looks
  at the context exits with 2, because the blobs that it skipped were never counted
  (`pipeline.go:187-191`).  README.md:247 counts a cancellation among the errors.
- `refs.go:46` calls the candidates a precedence order, but all loose candidates are
  tried before any packed one: a loose tag hides a packed branch of the same name.
  `Tips`, the reference of `RangeIsHonoured`, is the order that the code has.
- An annotated tag is not peeled: its history is not searched, and nothing says so.
- ListAllRefs reads packed-refs before the loose files, so that a reference packed
  in between is missing, or old; `ListsEveryRef` says when.  ResolveRef reads in the
  other order and is safe.
- A file of the git directory is taken for a reference by its name (`Junk`).

## Proofs

What is proved holds for every value of the constants that satisfies the named
assumptions of the modules: any number of workers, goroutines, buffers and blobs, any
history, store or pack, any limits.  The assumptions say that the inputs are well
formed and that tokens such as `NoBuffer` are no member of the set they stand beside;
the pool of workers is finite and not empty.

| theorem | states | module |
|---|---|---|
| `TypeCorrect`, `Completeness`, `NoFalseCancellation`, `NoLateCancellation`, `ErrorFirst`, `NoCauselessStop`, `NoSendAfterClose` | `TypeOK`, `NoErrorMeansComplete`, `InternalStopIsNotCancellation`, `CompleteIsNotCancelled`, `FatalErrorPrecedesResult`, `EarlyStopIsJustified`, `NoSendOnClosedChannel` | `SearchPipeline_proofs` |
| `NoResultTwice`, `PipelineKeepsContract` | `DeliveredOnce`, `KeepsContract` | `SearchPipeline_proofs` |
| `ReaderTypeCorrect`, `NoReadOnReleasedPack`, `WaitGroupNeverReused`, `ReadObjectIsTrue`, `HasObjectTellsTheTruth` | `TypeOK`, `NoReadOnClosedPack`, `NoAddDuringWait`, `ReadsAreTrue`, `HasObjectIsTrue` | `RepositoryReader_proofs` |
| `OneOwnerAlways`, `SearchNeverLosesTheName`, `ReadsAreWhatTheBytesSay` | `OneOwner`, `SearchKeepsTheName`, `ReadsTheObject` | `PackFile_proofs` |
| `CommitsComeNewestFirst`, `NothingIsReportedTwice`, `CreditGoesToTheAuthor`, `NoFileIsMissed`, `TheRangeIsCollected` | `NewestFirst`, `ReportedOnce`, `CreditsTheAuthor`, `NoFileMissed`, `CollectsTheRange` | `HistoryWalker_proofs` |
| `DiffFindsWhatIsNew`, `TraversalFindsEveryFile`, `DescentFindsTheEntry` | `DiffIsExact`, `TraversalIsExact`, `FindIsTrue` | `TreeDiff_proofs` |
| `NamesResolveToLiveValues`, `ListingMissesNothing`, `TheLastCaseFlagWins` | `ResolvesToALiveValue`, `ListsEveryRef`, `LastCaseFlagWins` | `Revisions_proofs` |
| `FatalReachesTheExitCode`, `FailureIsAlwaysDiagnosed`, `CancelledWalkStaysSilent` | `FatalIsNotMasked`, `FailureIsDiagnosed`, `CancelledWalkIsNotShown` | `GrgRun_proofs` |
| `NegativeIsTheTruth`, `PositiveIsTheTruth` | `NegativeIsTrue`, `PositiveIsTrue` | `GrgRun_proofs` |
| `NegativeIsNeverGuessed`, `PositiveIsNeverGuessed` | `NegativeIsEarned` and `PositiveIsEarned`, the first parts of `NegativeIsTrue` and `PositiveIsTrue` | `GrgRun_proofs` |

Hardly any of these is inductive by itself.  Each module strengthens them in layers,
every layer resting on the ones before, with a lemma for Init and one for each action
that can disturb it.

`SearchPipeline_proofs`: `IInv` is the conjunction of

1. `TypeInv`: types, and that a worker between `select` and `stop` has a real
   job in hand.
2. `ControlInv`: which program counters go together (the closer moves only when
   all workers have exited), and that the result a worker holds is that of its job
   or a cancellation.
3. `ErrorInv`: a fatal result is sent only after an error was published, a worker
   about to count a result has handed it over, and an early stop has a reason.
4. `CountInv`: no two workers hold the same job, every job that was taken and is in
   nobody's hands has been searched and handed over if there was anything to
   report, and the counter is the number of these jobs.  This is what ties the
   closer's comparison of two numbers to what the caller has got; it rests on the
   theorems about cardinalities.
5. `EndInv`: why the dispatcher and each worker ended, and that once all have, there
   is an error, or a quiet match, or nothing left to hand over.

The contract rests on one more: `OnceInv` says that what was received and what waits in
resultsCh repeat nothing, stem from jobs that were taken, and that a worker with
such a job in hand is about to count it.  Then
the refinement, in the two usual parts: `InitContract` maps the initial states, and
`NextContract` each action to a step of the contract (SendResult delivers, PublishErr
and the closer publish, the last receive closes) or to a stutter, with the contents of
the channels counted as delivered and published.

`RepositoryReader_proofs`: `TypeInv` says what a goroutine has at each label (a call
and a stack, a result exactly when its innermost read is decided).  `LockInv` ties
the lock, `closed` and `inflight` together: `inflight` is exactly the reads begun and
not ended, nobody is about to register once `closed` is set, and descriptors are
released only when nothing is registered and nothing can be.  `CallInv` says of each
frame of each nested read that the copies before the one it is at have failed, that
the error it keeps is the first of them, and that the next frame reads its base; so
the result at every depth is one of `Yields`, and that of `Resolve` as long as nobody
closes.

`PackFile_proofs`: `TypeInv`, with what each label implies for the innermost frame.
`OwnInv`: each buffer has at most one place, in the pool or in one frame of one
worker.  `SearchInv`: in a sound index the interval between `low` and `high`
encloses every position of the name.  `ToldInv` is the one for `ReadsTheObject`: for
each worker there is a witness `said`, one outcome of `Decode` for each frame, such
that whatever the frame above it returns completes to that outcome, the bytes
written into the buffer so far are those of the instructions run so far, and a base
that is being read still holds its bytes since nobody else owns its buffer.  Each
step keeps the witness, shortens it or adds to it.

`HistoryWalker_proofs`: `ControlInv` is types, what is left of the commit in hand
(`EntryInv`) and that the matched commits are readable and pass the filters
(`MatchInv`).  `DateInv` keeps the list by date; it holds if no commit is older than
its parents, as `NewestFirst` demands.  `OnceInv` ties the emitted occurrences to the
set of keys that were seen, `SettledInv` says which paths of which commits are
settled so far: reported, or equal to what the first parent had, which is settled
because of how pruning goes.  `RangeInv` says that the stack and the heap are the
frontier of the two traversals: every parent of a commit that has been dealt with is
excluded, visited or on the frontier, and nothing is there that cannot be reached.
`ReachFacts` gives the three
facts about `Reach` that this needs: it contains its start, is closed, and is the
least such set.

`TreeDiff_proofs` has three parts.  The order first: `Precedes` is a total order on
the entries of a tree, two of one kind and one name being the same place in it
(`PrecedesTotal`, `PrecedesTransitive`, `PrecedesSameKey`), so that every sequence of
entries has the sorted rearrangement that `Sorted` chooses, and a tree without twins a
strictly increasing one (`SortedFacts`).  Then what a path means: `Levels` is the
recursion inside `Content`, `LevelsFacts` shows that it exists and unfolds, and
`Sits(c, T, p, o)` says that the tree `o` lies at the path `p` of `T`, so that what is
below `p` in `T` is what is in `o` (`SitsUnder`).  Last the walk: `WalkInv` says of the
stack of frames that each is the call that the one below it has made last (`Spine`),
that the tree of a frame sits where its path says (`Focus`), that exactly those wanted
files have been reported, once each, that lie behind the positions of all frames
(`Exact`), and that no tree behind them ought to have been refused (`Careful`).  A frame
of the merge adds that the old entries passed come before all new ones that are left
(`Merging`), from which `MergeMatch` concludes that a name of the old tree which the
new entry in hand shares can only be the old one in hand.  When the
stack is empty, everything is behind.  `FindInv` does the same for the descent, where
only one tree is in hand.

`Revisions_proofs`: `IsFileSystem` is what the proofs assume of the files, and TLC
evaluates it on every file system of the instances.  It says what git keeps to: what is
packed is at a path where there is no file but that of the reference, no reference is
the directory of another, and the git directory of a linked worktree lies apart from the
shared references.  The first half is about one file system at a time: `GoodFiles` is
kept by an update, a pack and a prune, none of which adds or loses a reference, and a
prune removes only what packed-refs says as well.  Discovery finds paths that lie apart
(`DiscoverFacts`), and whatever the command line says, the names to be resolved are paths
(`CmdStep`, `RevGoalsFacts`).  The second half is the invariant `Inv`.  `WatchInv`:
while a call runs, `had` knows every reference and its present value.  `CallInv`: each
candidate behind the one in hand is `Passed`, that is, no reference or one that
packed-refs has with a value it has had since the call began.  Since git writes
packed-refs before it removes a file, and a packed value was the value when it was
written, `Passed` is never lost; so when all files have been tried in vain, packed-refs
has every candidate that is a reference.  `ScanInv` does the same for the listing:
every reference whose file was not removed is `Settled`, listed with a value of its
own, or `Covered` by an entry on the list of what is still to be read; a directory is
replaced by entries of which one covers the reference (`DirGoesOn`), and when the list is
empty, all are settled.

The last part is about the command line.  `HeardInv` joins two readings of it: the
parser's, which has used up so many arguments, and that by position, which says what an
argument is from the one before (`IsUnit`).  `IsNext`: the argument in hand is no value,
and `--` has been seen if it stands among those before.  `Heard`: the four fields about
case are what the last of the arguments read so far says that says anything, or the
default.  A flag with a value passes two arguments, of which the second is heard by
neither reading (`PassTwo`); in a bundle the greatest position of a letter about case
counts (`BundleCase`).

`GrgRun_proofs`: `RunInv` says of each step of runContext what has been published,
delivered and printed by then, and of each error which stage it came from.  The
pipeline appears as `SearchContract`, whose promises are part of the invariant; that
the goroutines keep them is `PipelineKeepsContract`.  `GivenInv` adds that the kind of
result of each task is what `ResultKind` computes from the blob, and the rest is about
that computation.  For exit code 1 it is enough to follow the first match: what is picked from a sequence (`PickedFacts`), what `MatchBlob`
finds against the lines that are wanted (`MatchBlobFacts`), that joining intervals never
loses the line of the first match (`MergeCovers`, `JoinedCovers`) nor marking the groups
(`ContextShowsMatch`), and that the tasks have the blobs of all occurrences
(`TasksCover`).  So a blob the pipeline is silent about has no match
(`SilentMeansNoMatch`) and one it reports has one (`HitMeansMatch`).

For exit code 0 every match is followed to the end.  What is picked stays in order
(`PickedInOrder`), so the matcher finds all wanted lines, in ascending order and as
many as `--max-count` allows (`MatchBlobExact`); joining keeps every line of every
interval and keeps the intervals apart (`JoinedExact`), so the groups have the lines
near a wanted one, each once (`GroupsExact`), and a result is exact (`TaskIsExact`).
Removing what is like an earlier element leaves one for each (`FirstsRepresent`,
`FirstsDiffer`), which gives the occurrences that are selected (`AllAreSelected`), the
entries (`EntriesExact`), the files (`FilesExact`) and the names (`RenderingExact`).
Sorting loses nothing because the order can be satisfied at all: it is total on
commits and files that differ (`CanBeArranged`).  `ReportIsComplete` puts these
together, and `RenderInv` says that while Format is at work every item due has been
printed or is in `todo`, and after a return without an error has been printed.
The input is assumed to be what the walk delivers: a commit has one blob at a path,
and without `--expand-commits` a blob is reported once at a path, which for the walker
is `NothingIsReportedTwice`.

Where a claim needs induction over numbers (the recursive functions `Resolve`,
`Yields`, `Decoded`, `Without`, `Reach`, `Content`, `Picked`, `Joined`), the proofs take the least counterexample.
`RecursionLemmas` states this once, with sets and functions where the library's
theorems have operator parameters, for recursions that look upwards (depths) and
downwards (lengths) and those that go through a sequence, and shows that such
functions exist.

### Only model-checked

- Liveness and whatever rests on fairness: `NoGoroutineLeak`, `ReadsReturn`,
  `ClosesReturn`, `WalkEnds`.  The prover has neither ENABLED nor fairness.
- `OutputIsPrefix` and `ContextIsExact`: they are about the order of what is printed,
  where `PositiveIsTrue` is about its elements.  What they need of merging is proved
  (`GroupsExact`); the order after flattening, sorting and `SelectSeq` is not.
- `RangeIsHonoured`, which says which of the candidates a name stands for, that every
  `--branch` that stands for something is searched, and what is left out.  Its reference
  (`Is`, `Tips`) follows one symbolic reference and reads HEAD alone from the directory
  of a linked worktree, which is all there is in the file systems of its run.  It is not what the code does in every file system: a
  chain of symbolic references, or a file such as ORIG_HEAD that a worktree keeps to
  itself, has a meaning that the reference leaves out.

## Plan

Proofs left: `OutputIsPrefix` and `ContextIsExact`, which add order to `TaskIsExact` and
`FilesExact`; `RangeIsHonoured`, once its reference follows chains of symbolic
references and the files of a worktree, on top of `Inv` of `Revisions_proofs`.

Models left: buildPathFilter with its bases and subdirectories, and AggregateChannel
composed with `SearchPipeline`.

## Not modelled

- Globs, file types and the path arguments of buildPathFilter (`internal/filter`,
  `main.go:218-270`): functions of strings.  `HistoryWalker` and `TreeDiff` see the
  set of paths that are wanted.
- Regular expressions, zlib, the variable-length integers of packs, and the parsing
  of commits: functions of their input, which appear as their result.
- AggregateChannel, AggregateStream and Execute: used by tests only.
- Colour, wording of messages, and help.

`PROJECT.json` lists every component and every hazard, with the properties that cover
it or the reason why none does.
