--------------------------- MODULE SearchPipeline ---------------------------
(***************************************************************************)
(* The concurrent search pipeline of internal/search/pipeline.go:          *)
(* ExecuteContext starts one dispatcher, a pool of workers and one closer, *)
(* and returns two channels to its caller.                                 *)
(*                                                                         *)
(*   dispatcher --tasksCh--> workers --resultsCh--> caller                 *)
(*                              |                     ^                    *)
(*                              +-------errCh---------+                    *)
(*                                                                         *)
(* Each goroutine is a program counter; one action is one atomic access to *)
(* what the goroutines share.  The caller is the most general one: it may  *)
(* receive from either channel at any time, stop receiving for good, and   *)
(* cancel its context at any time, before the call too.                    *)
(*                                                                         *)
(* A blob is abstracted to the kind of result its search yields.           *)
(*                                                                         *)
(* An operator named ...Fault is a wrong variant of the one it precedes,   *)
(* kept to show that the properties would notice.                          *)
(***************************************************************************)
EXTENDS Naturals, Sequences, FiniteSets

CONSTANTS Worker,     \* the pool: one element per worker goroutine
          MaxJobs,    \* bound: most distinct blobs a call is given
          BufSize     \* capacity of tasksCh and of resultsCh

ASSUME WorkerAssumption  == Worker # {} /\ IsFiniteSet(Worker)
ASSUME MaxJobsAssumption == MaxJobs \in Nat
ASSUME BufSizeAssumption == BufSize \in Nat \ {0}

(***************************************************************************)
(* What searching a blob yields: no match, a match or a binary match, a    *)
(* BlobReadError, any other error or a panic.                              *)
(***************************************************************************)
Kind == {"silent", "hit", "unreadable", "fatal"}

VARIABLES
  jobOrder,         \* the distinct blobs in first-seen order, by kind
  quiet,            \* cfg.Quiet
  callerCancelled,  \* callerCtx.Err() # nil
  ctxCancelled,     \* ctx.Err() # nil, for the derived ctx
  sent,             \* tasks the dispatcher has put in tasksCh
  received,         \* tasks the workers have taken out of tasksCh
  dispatcher,       \* program counter of dispatch; "done": tasksCh is closed
  pc,               \* program counter of each worker
  task,             \* the job a worker holds, 0 for none
  res,              \* the kind of result it holds, "none" for none
  searched,         \* the counter of fully delivered tasks
  resultsCh,        \* jobs whose results are buffered in resultsCh
  errCh,            \* errors buffered in errCh, capacity 1
  closer,           \* program counter of the closer
  collected,        \* jobs whose results the caller has received
  reported          \* errors the caller has received

vars == << jobOrder, quiet, callerCancelled, ctxCancelled, sent, received,
           dispatcher, pc, task, res, searched, resultsCh, errCh, closer,
           collected, reported >>

input   == << jobOrder, quiet >>
context == << callerCancelled, ctxCancelled >>
tasksCh == << sent, received, dispatcher >>
held    == << task, res, searched >>
workers == << pc, task, res, searched >>
caller  == << collected, reported >>
outputs == << resultsCh, errCh, collected, reported >>

NumJobs == Len(jobOrder)
Job     == 1 .. NumJobs

(***************************************************************************)
(* tasksCh is a FIFO with one sender that walks jobOrder, so at any moment *)
(* it holds the jobs received+1 .. sent in this order.                     *)
(***************************************************************************)
TasksBuffered == sent - received
TasksClosed   == dispatcher = "done"

\* tasksCh without a capacity.
TasksRoomFault == TRUE
TasksRoom      == TasksBuffered < BufSize

\* The last task is forgotten.
AllSentFault == sent + 1 >= NumJobs
AllSent      == sent = NumJobs

ResultsClosed == closer \in {"closeErr", "cancel", "done"}
ErrClosed     == closer \in {"cancel", "done"}

\* Only matches, binary matches and errors are put on resultsCh.
Reportable(kind) == kind # "silent"

\* A non-blocking send on errCh: the error is dropped when the slot is taken.
SendErr(e) == errCh' = IF errCh = << >> THEN << e >> ELSE errCh

Init ==
  /\ jobOrder \in UNION { [1 .. n -> Kind] : n \in 0 .. MaxJobs }
  /\ quiet \in BOOLEAN
  /\ callerCancelled \in BOOLEAN
  /\ ctxCancelled = FALSE
  /\ sent = 0 /\ received = 0 /\ searched = 0
  /\ dispatcher = "unborn" /\ closer = "unborn"
  /\ pc   = [w \in Worker |-> "unborn"]
  /\ task = [w \in Worker |-> 0]
  /\ res  = [w \in Worker |-> "none"]
  /\ resultsCh = << >> /\ errCh = << >>
  /\ collected = << >> /\ reported = << >>

-----------------------------------------------------------------------------
(* The synchronous part of ExecuteContext.                                 *)

(***************************************************************************)
(* A caller that is already cancelled, or that brings no blob, gets closed *)
(* channels and no goroutine.                                              *)
(***************************************************************************)
ReturnClosed ==
  /\ closer = "unborn"
  /\ callerCancelled \/ NumJobs = 0
  /\ errCh' = IF callerCancelled THEN << "cancelled" >> ELSE << >>
  /\ dispatcher' = "done" /\ closer' = "done"
  /\ pc' = [w \in Worker |-> "exited"]
  /\ UNCHANGED << input, context, sent, received, held, resultsCh, caller >>

Spawn ==
  /\ closer = "unborn"
  /\ ~callerCancelled /\ NumJobs > 0
  /\ dispatcher' = "run" /\ closer' = "wait"
  /\ pc' = [w \in Worker |-> "select"]
  /\ UNCHANGED << input, context, sent, received, held, outputs >>

-----------------------------------------------------------------------------
(* dispatch: for each task, select between ctx.Done and a send on tasksCh; *)
(* tasksCh is closed on return.                                            *)

DispatchSend ==
  /\ dispatcher = "run"
  /\ ~AllSent /\ TasksRoom
  /\ sent' = sent + 1
  /\ UNCHANGED << input, context, received, dispatcher, workers, outputs,
                  closer >>

DispatchReturn ==
  /\ dispatcher = "run"
  /\ ctxCancelled \/ AllSent
  /\ dispatcher' = "done"
  /\ UNCHANGED << input, context, sent, received, workers, outputs, closer >>

Dispatch == DispatchSend \/ DispatchReturn

-----------------------------------------------------------------------------
(* runWorker, one action per shared access of its loop.                    *)

Goto(w, label) == pc' = [pc EXCEPT ![w] = label]

\* select { <-ctx.Done(): return ... }
WorkerQuit(w) ==
  /\ pc[w] = "select" /\ ctxCancelled
  /\ Goto(w, "exited")
  /\ UNCHANGED << input, context, tasksCh, held, outputs, closer >>

\* select { ... task, ok := <-tasksCh: !ok, return }
WorkerDrained(w) ==
  /\ pc[w] = "select" /\ TasksClosed /\ TasksBuffered = 0
  /\ Goto(w, "exited")
  /\ UNCHANGED << input, context, tasksCh, held, outputs, closer >>

\* The task stays in tasksCh, for the next worker to take it again.
WorkerReceiveFault(w) ==
  /\ pc[w] = "select" /\ TasksBuffered > 0
  /\ task' = [task EXCEPT ![w] = received + 1]
  /\ Goto(w, "read")
  /\ UNCHANGED << input, context, tasksCh, res, searched, outputs, closer >>

WorkerReceive(w) ==
  /\ pc[w] = "select" /\ TasksBuffered > 0
  /\ received' = received + 1
  /\ task' = [task EXCEPT ![w] = received']
  /\ Goto(w, "read")
  /\ UNCHANGED << input, context, sent, dispatcher, res, searched, outputs,
                  closer >>

(***************************************************************************)
(* processTask, first half: nothing is read once ctx is cancelled; a blob  *)
(* that cannot be read yields a BlobReadError.                             *)
(***************************************************************************)
ReadBlob(w) ==
  /\ pc[w] = "read"
  /\ \/ /\ ctxCancelled
        /\ res' = [res EXCEPT ![w] = "cancelled"] /\ Goto(w, "check")
     \/ /\ ~ctxCancelled /\ jobOrder[task[w]] = "unreadable"
        /\ res' = [res EXCEPT ![w] = "unreadable"] /\ Goto(w, "check")
     \/ /\ ~ctxCancelled /\ jobOrder[task[w]] # "unreadable"
        /\ UNCHANGED res /\ Goto(w, "match")
  /\ UNCHANGED << input, context, tasksCh, task, searched, outputs, closer >>

\* processTask, second half: ctx is looked at again before the matcher runs.
MatchBlob(w) ==
  /\ pc[w] = "match"
  /\ res' = [res EXCEPT ![w] = IF ctxCancelled THEN "cancelled"
                                               ELSE jobOrder[task[w]]]
  /\ Goto(w, "check")
  /\ UNCHANGED << input, context, tasksCh, task, searched, outputs, closer >>

\* A recovered panic taken for an unreadable blob.
FatalFault(w) == res[w] = "cancelled"

\* Every error that is not a BlobReadError is fatal.
Fatal(w) == res[w] \in {"fatal", "cancelled"}

\* The cancellation that a torn-down task carries is taken for its result.
CheckTeardownFault(w) ==
  /\ pc[w] = "check"
  /\ \/ Fatal(w) /\ Goto(w, "publish")
     \/ ~Fatal(w) /\ Reportable(res[w]) /\ Goto(w, "send")
     \/ ~Reportable(res[w]) /\ Goto(w, "count")
  /\ UNCHANGED << input, context, tasksCh, held, outputs, closer >>

\* A result computed while the run is torn down is dropped with its error.
CheckTeardown(w) ==
  /\ pc[w] = "check"
  /\ \/ ctxCancelled /\ Goto(w, "exited")
     \/ ~ctxCancelled /\ Fatal(w) /\ Goto(w, "publish")
     \/ ~ctxCancelled /\ ~Fatal(w) /\ Reportable(res[w]) /\ Goto(w, "send")
     \/ ~ctxCancelled /\ ~Reportable(res[w]) /\ Goto(w, "count")
  /\ UNCHANGED << input, context, tasksCh, held, outputs, closer >>

\* A blocking send on errCh.
PublishErrFault(w) ==
  /\ pc[w] = "publish" /\ errCh = << >>
  /\ SendErr(res[w])
  /\ Goto(w, "send")
  /\ UNCHANGED << input, context, tasksCh, held, resultsCh, closer, caller >>

PublishErr(w) ==
  /\ pc[w] = "publish"
  /\ SendErr(res[w])
  /\ Goto(w, "send")
  /\ UNCHANGED << input, context, tasksCh, held, resultsCh, closer, caller >>

\* select { <-ctx.Done(): return, resultsCh <- res }
SendResult(w) ==
  /\ pc[w] = "send"
  /\ Len(resultsCh) < BufSize
  /\ resultsCh' = Append(resultsCh, task[w])
  /\ Goto(w, "count")
  /\ UNCHANGED << input, context, tasksCh, held, errCh, closer, caller >>

\* An abandoned result counts as delivered.
AbandonResultFault(w) ==
  /\ pc[w] = "send" /\ ctxCancelled
  /\ Goto(w, "count")
  /\ UNCHANGED << input, context, tasksCh, held, outputs, closer >>

AbandonResult(w) ==
  /\ pc[w] = "send" /\ ctxCancelled
  /\ Goto(w, "exited")
  /\ UNCHANGED << input, context, tasksCh, held, outputs, closer >>

\* Whatever is reported ends a quiet run.
EndsRunFault(w) == Fatal(w) \/ (quiet /\ Reportable(res[w]))

\* After this result the remaining blobs are pointless.
EndsRun(w) == Fatal(w) \/ (quiet /\ res[w] = "hit")

\* searched.Add(1), then back to the loop or on to the end of the run.
CountSearched(w) ==
  /\ pc[w] = "count"
  /\ searched' = searched + 1
  /\ task' = [task EXCEPT ![w] = 0]
  /\ res'  = [res  EXCEPT ![w] = "none"]
  /\ Goto(w, IF EndsRun(w) THEN "stop" ELSE "select")
  /\ UNCHANGED << input, context, tasksCh, outputs, closer >>

\* cancelWork(); return
StopRun(w) ==
  /\ pc[w] = "stop"
  /\ ctxCancelled' = TRUE
  /\ Goto(w, "exited")
  /\ UNCHANGED << input, callerCancelled, tasksCh, held, outputs, closer >>

RunWorker(w) ==
  \/ WorkerQuit(w) \/ WorkerDrained(w) \/ WorkerReceive(w)
  \/ ReadBlob(w) \/ MatchBlob(w)
  \/ CheckTeardown(w) \/ PublishErr(w)
  \/ SendResult(w) \/ AbandonResult(w)
  \/ CountSearched(w) \/ StopRun(w)

-----------------------------------------------------------------------------
(* The closer: wg.Wait, publish the caller's cancellation if the run was   *)
(* cut short, close resultsCh, close errCh, cancelWork.                    *)

\* wg.Wait(); the fault waits for the tasks instead of the workers.
WaitOverFault == TasksClosed /\ TasksBuffered = 0
WaitOver      == \A w \in Worker : pc[w] = "exited"

\* The caller was cut short; the fault: any cancellation by the caller counts.
CutShortFault == callerCancelled
CutShort      == searched < NumJobs /\ callerCancelled

CloserPublish ==
  /\ closer = "wait" /\ WaitOver
  /\ IF CutShort THEN SendErr("cancelled") ELSE UNCHANGED errCh
  /\ closer' = "closeResults"
  /\ UNCHANGED << input, context, tasksCh, workers, resultsCh, caller >>

CloserClose ==
  /\ \/ closer = "closeResults" /\ closer' = "closeErr"
     \/ closer = "closeErr"     /\ closer' = "cancel"
  /\ UNCHANGED << input, context, tasksCh, workers, outputs >>

CloserReturn ==
  /\ closer = "cancel"
  /\ ctxCancelled' = TRUE
  /\ closer' = "done"
  /\ UNCHANGED << input, callerCancelled, tasksCh, workers, outputs >>

Closer == CloserPublish \/ CloserClose \/ CloserReturn

-----------------------------------------------------------------------------
(* The context package and the caller.                                     *)

CallerCancel ==
  /\ ~callerCancelled
  /\ callerCancelled' = TRUE
  /\ UNCHANGED << input, ctxCancelled, tasksCh, workers, outputs, closer >>

(***************************************************************************)
(* context.WithCancel: the parent's Err is visible before its cancellation *)
(* has reached the child.                                                  *)
(***************************************************************************)
PropagateCancel ==
  /\ callerCancelled /\ ~ctxCancelled
  /\ closer \notin {"unborn", "done"}
  /\ ctxCancelled' = TRUE
  /\ UNCHANGED << input, callerCancelled, tasksCh, workers, outputs, closer >>

ReceiveResult ==
  /\ resultsCh # << >>
  /\ collected' = Append(collected, Head(resultsCh))
  /\ resultsCh' = Tail(resultsCh)
  /\ UNCHANGED << input, context, tasksCh, workers, errCh, closer, reported >>

ReceiveErr ==
  /\ errCh # << >>
  /\ reported' = Append(reported, Head(errCh))
  /\ errCh' = << >>
  /\ UNCHANGED << input, context, tasksCh, workers, resultsCh, closer,
                  collected >>

-----------------------------------------------------------------------------
AllExited ==
  /\ TasksClosed /\ closer = "done"
  /\ WaitOver

\* Nothing is left to run or to receive: the call is over.
Finished ==
  /\ AllExited /\ resultsCh = << >> /\ errCh = << >>
  /\ UNCHANGED vars

Goroutines == Dispatch \/ (\E w \in Worker : RunWorker(w)) \/ Closer

Next ==
  \/ ReturnClosed \/ Spawn
  \/ Goroutines
  \/ CallerCancel \/ PropagateCancel
  \/ ReceiveResult \/ ReceiveErr
  \/ Finished

(***************************************************************************)
(* The Go scheduler runs every goroutine that can run, and the context     *)
(* package delivers a cancellation.  Nothing is assumed of the caller.     *)
(***************************************************************************)
Fairness ==
  /\ WF_vars(ReturnClosed \/ Spawn)
  /\ WF_vars(Dispatch)
  /\ \A w \in Worker : WF_vars(RunWorker(w))
  /\ WF_vars(Closer)
  /\ WF_vars(PropagateCancel)

Spec     == Init /\ [][Next]_vars
FairSpec == Spec /\ Fairness
-----------------------------------------------------------------------------
(* Properties.                                                             *)

Elements(s) == { s[i] : i \in DOMAIN s }

Published == reported \o errCh
Delivered == Elements(collected) \cup Elements(resultsCh)
Searched  == (1 .. received) \ { task[w] : w \in Worker }

\* Values stay in range; buffers respect their capacities.
TypeOK ==
  /\ jobOrder \in Seq(Kind) /\ quiet \in BOOLEAN
  /\ callerCancelled \in BOOLEAN /\ ctxCancelled \in BOOLEAN
  /\ sent \in 0 .. NumJobs /\ received \in 0 .. sent
  /\ TasksBuffered <= BufSize
  /\ dispatcher \in {"unborn", "run", "done"}
  /\ closer \in {"unborn", "wait", "closeResults", "closeErr", "cancel", "done"}
  /\ pc \in [Worker -> {"unborn", "select", "read", "match", "check", "publish",
                        "send", "count", "stop", "exited"}]
  /\ task \in [Worker -> 0 .. NumJobs]
  /\ res \in [Worker -> Kind \cup {"none", "cancelled"}]
  /\ searched \in Nat
  /\ resultsCh \in Seq(Job) /\ Len(resultsCh) <= BufSize
  /\ errCh \in Seq({"fatal", "cancelled"}) /\ Len(errCh) <= 1
  /\ collected \in Seq(Job) /\ reported \in Seq({"fatal", "cancelled"})

(***************************************************************************)
(* A call that closes errCh without having published an error handed over  *)
(* every result there is, or was quiet and handed over a match.            *)
(***************************************************************************)
NoErrorMeansComplete ==
  ErrClosed /\ Published = << >> =>
    \/ \A j \in Job : Reportable(jobOrder[j]) => j \in Delivered
    \/ quiet /\ \E j \in Delivered : jobOrder[j] = "hit"

(***************************************************************************)
(* "Only cancellation of ctx itself is reported on errCh": the internal    *)
(* stop after a fatal error or a quiet match never surfaces as one.        *)
(***************************************************************************)
InternalStopIsNotCancellation ==
  "cancelled" \in Elements(Published) => callerCancelled

(***************************************************************************)
(* A caller who was handed every result is not told that it was cut short, *)
(* whenever its cancellation arrived.                                      *)
(***************************************************************************)
CompleteIsNotCancelled ==
  Searched = Job /\ Job # {} => "cancelled" \notin Elements(Published)

\* No result is handed over twice, whoever takes the tasks.
DeliveredOnce ==
  LET handed == collected \o resultsCh
  IN  \A i, k \in DOMAIN handed : handed[i] = handed[k] => i = k

\* A caller that holds the result of a fatal blob finds an error on errCh.
FatalErrorPrecedesResult ==
  \A j \in Delivered : jobOrder[j] = "fatal" => "fatal" \in Elements(Published)

(***************************************************************************)
(* The run is stopped early only by the caller, after a fatal error was    *)
(* published, or after a quiet match was handed over.                      *)
(***************************************************************************)
EarlyStopIsJustified ==
  ctxCancelled /\ closer # "done" =>
    \/ callerCancelled
    \/ "fatal" \in Elements(Published)
    \/ quiet /\ \E j \in Delivered : jobOrder[j] = "hit"

\* resultsCh and errCh are closed when no goroutine is left that could send.
NoSendOnClosedChannel ==
  ResultsClosed => \A w \in Worker : pc[w] \notin {"publish", "send"}

(***************************************************************************)
(* "The pipeline leaks no goroutines provided the caller either drains     *)
(* resultsCh to completion or cancels ctx"; errCh need not be read at all. *)
(***************************************************************************)
NoGoroutineLeak ==
  []<>(resultsCh = << >>) \/ <>callerCancelled => <>AllExited

(***************************************************************************)
(* The pipeline implements the promise: what the caller has received and   *)
(* what still waits in the channels count as handed over.                  *)
(***************************************************************************)
Contract == INSTANCE SearchContract WITH
  delivered <- Delivered,
  published <- Published,
  closed    <- ErrClosed

KeepsContract == Contract!Spec
=============================================================================
