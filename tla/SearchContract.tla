--------------------------- MODULE SearchContract ---------------------------
(***************************************************************************)
(* What a call of Pipeline.ExecuteContext promises its caller, with no     *)
(* goroutine and no channel: results are handed over one at a time, errors *)
(* are published, and once the call is closed both are final.  The promise *)
(* is in the guards: what may be handed over when, which errors may be     *)
(* published, and what a call that closes must have accomplished.          *)
(***************************************************************************)
EXTENDS Naturals, Sequences

CONSTANT MaxJobs    \* bound: most distinct blobs a call is given

VARIABLES
  jobOrder,         \* the distinct blobs, by the kind of result they yield
  quiet,            \* only the first match matters
  callerCancelled,  \* the caller has cancelled its context
  delivered,        \* jobs whose results have been handed over
  published,        \* errors published so far, in order
  closed            \* both channels are closed

vars == << jobOrder, quiet, callerCancelled, delivered, published, closed >>

Kind     == {"silent", "hit", "unreadable", "fatal"}
Job      == 1 .. Len(jobOrder)
Loud     == {j \in Job : jobOrder[j] # "silent"}
HasError == published # << >>

\* A match has been handed over to a caller that wants no more than one.
Satisfied == quiet /\ \E j \in delivered : jobOrder[j] = "hit"

Init ==
  /\ jobOrder \in UNION { [1 .. n -> Kind] : n \in 0 .. MaxJobs }
  /\ quiet \in BOOLEAN /\ callerCancelled \in BOOLEAN
  /\ delivered = {} /\ published = << >> /\ closed = FALSE

\* A fatal error is published before the result that carries it.
Deliver(j) ==
  /\ ~closed /\ j \in Loud \ delivered
  /\ jobOrder[j] = "fatal" => HasError
  /\ delivered' = delivered \cup {j}
  /\ UNCHANGED << jobOrder, quiet, callerCancelled, published, closed >>

\* Only a blob whose search failed outright makes the call fail.
PublishFatal ==
  /\ ~closed /\ \E j \in Job \ delivered : jobOrder[j] = "fatal"
  /\ published' = Append(published, "fatal")
  /\ UNCHANGED << jobOrder, quiet, callerCancelled, delivered, closed >>

\* Only a caller that cancelled is told so, and only when cut short.
PublishCancelled ==
  /\ ~closed /\ callerCancelled
  /\ Job \ delivered # {}
  /\ published' = Append(published, "cancelled")
  /\ UNCHANGED << jobOrder, quiet, callerCancelled, delivered, closed >>

\* A call may close without an error only if it did all that was asked.
Close ==
  /\ ~closed
  /\ HasError \/ Satisfied \/ Loud \subseteq delivered
  /\ closed' = TRUE
  /\ UNCHANGED << jobOrder, quiet, callerCancelled, delivered, published >>

\* A caller that is cancelled before the call learns it at once.
CloseCancelled ==
  /\ ~closed /\ callerCancelled /\ delivered = {} /\ ~HasError
  /\ published' = << "cancelled" >> /\ closed' = TRUE
  /\ UNCHANGED << jobOrder, quiet, callerCancelled, delivered >>

CallerCancel ==
  /\ ~callerCancelled /\ callerCancelled' = TRUE
  /\ UNCHANGED << jobOrder, quiet, delivered, published, closed >>

Next ==
  \/ \E j \in Job : Deliver(j)
  \/ PublishFatal \/ PublishCancelled \/ Close \/ CloseCancelled
  \/ CallerCancel

Spec == Init /\ [][Next]_vars
=============================================================================
