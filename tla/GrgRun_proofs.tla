---------------------------- MODULE GrgRun_proofs ----------------------------
(***************************************************************************)
(* Proofs about GrgRun: for every history, question and outcome of the     *)
(* search, and for interrupts at any moment, the exit code is honest.      *)
(***************************************************************************)
EXTENDS GrgRun, RecursionLemmas, SequenceTheorems, FiniteSetTheorems, TLAPS

\* The steps up to the search, and those that follow it.
Early == {"parse", "ctxParsed", "info", "validate", "ctxValid", "discover", "open",
          "matcher", "filter", "walk", "ctxWalked", "occurrences"}
Late  == {"ctxSearched", "report", "emit", "render"}
Running == Early \cup {"search", "errCh"} \cup Late

(***************************************************************************)
(* What the search hands over: one error at most, which a fatal result     *)
(* comes after, and a caller told of a cancellation did cancel.  A search  *)
(* that closed without an error did all that was asked.                    *)
(***************************************************************************)
SearchInv ==
  /\ jobOrder \in Seq(Search!Kind) /\ delivered \subseteq Search!Job
  /\ published \in {<< >>, << "fatal" >>, << "cancelled" >>}
  /\ published = << "cancelled" >> => callerCancelled = TRUE
  /\ \A j \in delivered : jobOrder[j] = "fatal" => published # << >>
  /\ arrived \in Seq(Nat)
  /\ ToSet(arrived) = { j \in delivered : jobOrder[j] = "hit" }
  /\ delivered \subseteq Search!Loud
  /\ closed = TRUE /\ published = << >> => Search!Satisfied \/ Search!Loud \subseteq delivered

\* What is known at each step of runContext.
StepInv ==
  /\ pc \in Running \cup {"return", "exited", "killed"}
  /\ {callerCancelled, walkCancelled, quiet, diagnosed, closed} \subseteq BOOLEAN
  /\ pc \in Running => err = "none"
  /\ pc \in Early => delivered = {} /\ published = << >> /\ arrived = << >> /\ closed = FALSE
  /\ pc \in Running \ {"render"} => text = << >>
  /\ pc \in Late => published = << >>
  /\ pc \in Late \cup {"errCh"} => closed = TRUE
  /\ pc \in {"emit", "render"} => skipped = Cardinality(Unreadable) /\ (skipped > 0 => diagnosed)
  /\ pc = "render" => arrived # << >> /\ quiet = FALSE
  /\ walkCancelled => /\ callerCancelled /\ text = << >>
                      /\ pc \in {"ctxWalked", "killed"} \/ err = "cancel"
  /\ published # << >> => pc \in {"search", "errCh", "killed"} \/ err \in {"cancel", "search"}

\* What the error says that runContext returns.
ErrInv ==
  pc \in {"return", "exited"} =>
    /\ err \in {"none", "cli", "repo", "cancel", "walk", "search", "noMatch", "skipped", "write"}
    /\ err = "none" => in.info \/ /\ arrived # << >>
                                  /\ quiet \/ Search!Loud = ToSet(arrived)
    /\ err = "noMatch" => /\ text = << >>
                          /\ jobOrder = << >> \/ (closed /\ Search!Loud = {})
    /\ err = "cancel" => callerCancelled
    /\ err = "skipped" => diagnosed

\* The exit code and the diagnosis follow from that error.
ExitInv ==
  /\ pc # "exited" => exit = NoExit
  /\ pc = "exited" => exit = ExitCode(err) /\ (exit = 2 => diagnosed \/ (quiet /\ callerCancelled))

RunInv == SearchInv /\ StepInv /\ ErrInv /\ ExitInv

-----------------------------------------------------------------------------
(* The steps of runContext.                                                *)

\* Where GoOn leads.
LEMMA GoOnLeads ==
  ASSUME GoOn
  PROVE  /\ pc = "parse"       => pc' = "ctxParsed"
         /\ pc = "ctxParsed"   => pc' = "info"
         /\ pc = "info"        => pc' = "validate"
         /\ pc = "validate"    => pc' = "ctxValid"
         /\ pc = "ctxValid"    => pc' = "discover"
         /\ pc = "discover"    => pc' = "open"
         /\ pc = "open"        => pc' = "matcher"
         /\ pc = "matcher"     => pc' = "filter"
         /\ pc = "filter"      => pc' = "walk"
         /\ pc = "walk"        => pc' = "ctxWalked"
         /\ pc = "ctxWalked"   => pc' = "occurrences"
         /\ pc = "occurrences" => pc' = "search"
         /\ pc = "search"      => pc' = "errCh"
         /\ pc = "errCh"       => pc' = "ctxSearched"
         /\ pc = "ctxSearched" => pc' = "report"
         /\ pc = "report"      => pc' = "emit"
         /\ pc = "emit"        => pc' = "render"
<1>1. DOMAIN Step = 1 .. 18
  BY DEF Step
<1>2. \A i, k \in 1 .. 18 : Step[i] = Step[k] => i = k
  BY DEF Step
<1>3. /\ Step[1] = "parse" /\ Step[2] = "ctxParsed" /\ Step[3] = "info"
      /\ Step[4] = "validate" /\ Step[5] = "ctxValid" /\ Step[6] = "discover"
      /\ Step[7] = "open" /\ Step[8] = "matcher" /\ Step[9] = "filter"
      /\ Step[10] = "walk" /\ Step[11] = "ctxWalked" /\ Step[12] = "occurrences"
      /\ Step[13] = "search" /\ Step[14] = "errCh" /\ Step[15] = "ctxSearched"
      /\ Step[16] = "report" /\ Step[17] = "emit" /\ Step[18] = "render"
  BY DEF Step
<1> HIDE DEF Step
<1>4. ASSUME NEW k \in 1 .. 17, pc = Step[k] PROVE pc' = Step[k + 1]
  <2>1. (CHOOSE i \in DOMAIN Step : Step[i] = pc) = k
    BY <1>1, <1>2, <1>4
  <2>2. pc' = Step[1 + k]
    BY <2>1, Zenon DEF GoOn
  <2>3. 1 + k = k + 1
    OBVIOUS
  <2>4. QED
    BY <2>2, <2>3
<1>5. QED
  BY <1>3, <1>4

\* A result is of one of the four kinds.
LEMMA ResultKinds == ASSUME NEW b, NEW c PROVE ResultKind(b, c) \in Search!Kind
BY DEF ResultKind, Search!Kind

\* The invariant holds at first.
LEMMA InitRunInv == Init => RunInv
<1> SUFFICES ASSUME Init PROVE RunInv
  OBVIOUS
<1>1. PICK n \in 0 .. MaxJobs : DOMAIN Tasks(in.occs) = 1 .. n
  BY InputAssumption DEF Init, IsInput
<1>2. jobOrder \in [1 .. n -> Search!Kind]
  BY <1>1, ResultKinds DEF Init
<1>3. jobOrder \in Seq(Search!Kind)
  BY <1>2, IsASeq
<1>4. arrived = << >> /\ ToSet(arrived) = {} /\ arrived \in Seq(Nat)
  BY EmptySeq DEF Init, ToSet
<1>5. SearchInv
  BY <1>3, <1>4 DEF Init, SearchInv
<1>6. quiet \in BOOLEAN
  BY InputAssumption DEF Init, IsInput
<1>7. StepInv
  BY <1>6 DEF Init, StepInv, Running, Early, Late
<1>8. ErrInv /\ ExitInv
  BY DEF Init, ErrInv, ExitInv
<1>9. QED
  BY <1>5, <1>7, <1>8 DEF RunInv

-----------------------------------------------------------------------------
(* Each step preserves the invariant.                                      *)

\* What the search has handed over does not change by other steps.
LEMMA SearchKept ==
  ASSUME SearchInv, UNCHANGED << jobOrder, delivered, published, closed, arrived, quiet >>,
         callerCancelled' = callerCancelled \/ callerCancelled' = TRUE
  PROVE  SearchInv'
BY DEF SearchInv, Search!Satisfied, Search!Loud, Search!Job

\* The steps before the search.
LEMMA EarlySteps ==
  ASSUME RunInv, SetUp \/ PrintInfo \/ (CheckCtx /\ pc # "ctxSearched") \/ CountOccurrences
  PROVE  RunInv'
<1>1. /\ UNCHANGED << jobOrder, delivered, published, closed, arrived, quiet, in, skipped,
                      callerCancelled, text, diagnosed, walkCancelled, exit >>
      /\ pc \in Early
  BY DEF SetUp, PrintInfo, CheckCtx, CountOccurrences, search, given, signal, output, Early
<1>2. SearchInv'
  BY <1>1, SearchKept DEF RunInv
<1>3. /\ err = "none" /\ exit = NoExit /\ text = << >> /\ delivered = {}
      /\ published = << >> /\ arrived = << >> /\ closed = FALSE
  BY <1>1 DEF RunInv, StepInv, ExitInv, Running, Early, Late
<1>4. walkCancelled => callerCancelled /\ pc = "ctxWalked"
  BY <1>1, <1>3 DEF RunInv, StepInv, Early
<1>5. CASE GoOn /\ UNCHANGED err /\ (pc = "ctxWalked" => callerCancelled = FALSE)
  <2>1. pc' \in Early \cup {"search"} /\ err' = "none"
    BY <1>1, <1>3, <1>5, GoOnLeads DEF Early
  <2>2. walkCancelled = FALSE
    BY <1>4, <1>5 DEF RunInv, StepInv
  <2>3. StepInv'
    BY <1>1, <1>3, <2>1, <2>2 DEF RunInv, StepInv, Running, Early, Late
  <2>4. ErrInv' /\ ExitInv'
    BY <1>1, <1>3, <2>1 DEF ErrInv, ExitInv, Early
  <2>5. QED
    BY <1>2, <2>3, <2>4 DEF RunInv
<1>6. ASSUME NEW e \in {"none", "cli", "repo", "cancel", "noMatch"}, Return(e),
             e = "none" => in.info, e = "noMatch" => jobOrder = << >>,
             e = "cancel" => callerCancelled, pc = "ctxWalked" => e = "cancel"
      PROVE  RunInv'
  <2>1. pc' = "return" /\ err' = e
    BY <1>6 DEF Return
  <2>2. StepInv'
    BY <1>1, <1>3, <1>4, <1>6, <2>1 DEF RunInv, StepInv, Running, Early, Late
  <2>3. ErrInv' /\ ExitInv'
    BY <1>1, <1>3, <1>4, <1>6, <2>1 DEF ErrInv, ExitInv
  <2>4. QED
    BY <1>2, <2>2, <2>3 DEF RunInv
<1>7. CASE SetUp
  BY <1>5, <1>6, <1>7 DEF SetUp, SetUpError
<1>8. CASE PrintInfo
  BY <1>5, <1>6, <1>8 DEF PrintInfo
<1>9. CASE (CheckCtx /\ pc # "ctxSearched")
  <2>1. callerCancelled \in BOOLEAN
    BY DEF RunInv, StepInv
  <2>2. QED
    BY <1>5, <1>6, <1>9, <2>1 DEF CheckCtx
<1>10. CASE CountOccurrences
  BY <1>5, <1>6, <1>10 DEF CountOccurrences
<1>11. QED
  BY <1>7, <1>8, <1>9, <1>10

\* The walk.
LEMMA WalkStep == ASSUME RunInv, Walk PROVE RunInv'
<1>1. /\ UNCHANGED << jobOrder, delivered, published, closed, arrived, quiet, in, skipped,
                      callerCancelled, text, diagnosed, exit >>
      /\ pc = "walk" /\ walkCancelled' = callerCancelled
  BY DEF Walk, search, given, signal, output
<1>2. SearchInv'
  BY <1>1, SearchKept DEF RunInv
<1>3. /\ err = "none" /\ exit = NoExit /\ text = << >> /\ delivered = {}
      /\ published = << >> /\ arrived = << >> /\ closed = FALSE
  BY <1>1 DEF RunInv, StepInv, ExitInv, Running, Early, Late
<1>4. \/ pc' = "ctxWalked" /\ err' = "none"
      \/ pc' = "return" /\ err' = IF callerCancelled THEN "cancel" ELSE "walk"
  BY <1>1, <1>3, GoOnLeads DEF Walk, Return, OrCancel
<1>5. StepInv'
  BY <1>1, <1>3, <1>4 DEF RunInv, StepInv, Running, Early, Late
<1>6. ErrInv' /\ ExitInv'
  BY <1>1, <1>3, <1>4 DEF ErrInv, ExitInv
<1>7. QED
  BY <1>2, <1>5, <1>6 DEF RunInv

\* The search hands over a result or an error, or closes.
LEMMA SearchSteps == ASSUME RunInv, SearchStep PROVE RunInv'
<1>1. /\ UNCHANGED << in, handler, text, diagnosed, skipped, pc, walkCancelled, err, exit >>
      /\ UNCHANGED << jobOrder, quiet, callerCancelled >> /\ pc = "search"
  BY DEF SearchStep, output, Search!Deliver, Search!PublishFatal, Search!PublishCancelled,
         Search!Close, Search!CloseCancelled
<1>2. SearchInv'
  <2>1. CASE \E j \in Search!Job :
               /\ Search!Deliver(j)
               /\ arrived' = IF jobOrder[j] = "hit" THEN Append(arrived, j) ELSE arrived
    <3>1. PICK j \in Search!Job :
               /\ Search!Deliver(j)
               /\ arrived' = IF jobOrder[j] = "hit" THEN Append(arrived, j) ELSE arrived
      BY <2>1
    <3>2. /\ closed = FALSE \/ closed # TRUE
          /\ delivered' = delivered \cup {j} /\ published' = published /\ closed' = closed
          /\ ~closed /\ jobOrder[j] = "fatal" => published # << >>
          /\ j \in Search!Loud
      BY <3>1 DEF Search!Deliver, Search!HasError
    <3>3. j \in Nat /\ Search!Job' = Search!Job /\ Search!Loud' = Search!Loud
      BY <1>1 DEF Search!Job, Search!Loud
    <3>4. arrived' \in Seq(Nat) /\ ToSet(arrived') = { i \in delivered' : jobOrder'[i] = "hit" }
      <4>1. CASE jobOrder[j] = "hit"
        <5>1. arrived' = Append(arrived, j) /\ arrived \in Seq(Nat)
          BY <3>1, <4>1 DEF RunInv, SearchInv
        <5>2. /\ arrived' \in Seq(Nat) /\ DOMAIN arrived' = 1 .. Len(arrived) + 1
              /\ DOMAIN arrived = 1 .. Len(arrived) /\ Len(arrived) \in Nat
              /\ \A i \in 1 .. Len(arrived) : arrived'[i] = arrived[i]
              /\ arrived'[Len(arrived) + 1] = j
          BY <3>3, <5>1, AppendProperties, LenProperties
        <5>3. ToSet(arrived') = ToSet(arrived) \cup {j}
          BY <5>2 DEF ToSet
        <5>4. QED
          BY <1>1, <3>2, <4>1, <5>2, <5>3 DEF RunInv, SearchInv
      <4>2. CASE jobOrder[j] # "hit"
        BY <1>1, <3>1, <3>2, <4>2 DEF RunInv, SearchInv
      <4>3. QED
        BY <4>1, <4>2
    <3>5. QED
      BY <1>1, <3>1, <3>2, <3>3, <3>4 DEF RunInv, SearchInv
  <2>2. CASE published = << >> /\ Search!PublishFatal /\ UNCHANGED arrived
    <3>1. /\ published' = << "fatal" >> /\ UNCHANGED << delivered, closed, arrived >>
          /\ ~closed
      BY <2>2 DEF Search!PublishFatal
    <3>2. QED
      BY <1>1, <3>1 DEF RunInv, SearchInv, Search!Job, Search!Loud
  <2>3. CASE published = << >> /\ Search!PublishCancelled /\ UNCHANGED arrived
    <3>1. /\ published' = << "cancelled" >> /\ UNCHANGED << delivered, closed, arrived >>
          /\ ~closed /\ callerCancelled
      BY <2>3 DEF Search!PublishCancelled
    <3>2. QED
      BY <1>1, <3>1 DEF RunInv, SearchInv, StepInv, Search!Job, Search!Loud
  <2>4. CASE Search!Close /\ UNCHANGED arrived
    <3>1. /\ UNCHANGED << delivered, published, arrived >>
          /\ published # << >> \/ Search!Satisfied \/ Search!Loud \subseteq delivered
      BY <2>4 DEF Search!Close, Search!HasError
    <3>2. QED
      BY <1>1, <3>1 DEF RunInv, SearchInv, Search!Satisfied, Search!Job, Search!Loud
  <2>5. CASE Search!CloseCancelled /\ UNCHANGED arrived
    <3>1. /\ published' = << "cancelled" >> /\ UNCHANGED << delivered, arrived >>
          /\ callerCancelled
      BY <2>5 DEF Search!CloseCancelled
    <3>2. QED
      BY <1>1, <3>1 DEF RunInv, SearchInv, StepInv, Search!Job, Search!Loud
  <2>6. QED
    BY <2>1, <2>2, <2>3, <2>4, <2>5 DEF SearchStep
<1>3. err = "none" /\ exit = NoExit /\ text = << >> /\ walkCancelled = FALSE
  BY <1>1 DEF RunInv, StepInv, ExitInv, Running, Early, Late
<1>4. closed' \in BOOLEAN
  BY DEF RunInv, StepInv, SearchStep, Search!Deliver, Search!PublishFatal,
         Search!PublishCancelled, Search!Close, Search!CloseCancelled
<1>5. StepInv'
  BY <1>1, <1>3, <1>4 DEF RunInv, StepInv, Running, Early, Late
<1>6. ErrInv' /\ ExitInv'
  BY <1>1, <1>3 DEF ErrInv, ExitInv
<1>7. QED
  BY <1>2, <1>5, <1>6 DEF RunInv

\* The results are at an end, and the error of the search is received.
LEMMA AfterSearch ==
  ASSUME RunInv, EndOfResults \/ ReceiveErr \/ (CheckCtx /\ pc = "ctxSearched")
  PROVE  RunInv'
<1>1. /\ UNCHANGED << jobOrder, delivered, published, closed, arrived, quiet, in, skipped,
                      callerCancelled, text, diagnosed, walkCancelled, exit >>
      /\ pc \in {"search", "errCh", "ctxSearched"}
  BY DEF EndOfResults, ReceiveErr, CheckCtx, search, given, signal, output
<1>2. SearchInv'
  BY <1>1, SearchKept DEF RunInv
<1>3. err = "none" /\ exit = NoExit /\ text = << >> /\ walkCancelled = FALSE
  BY <1>1 DEF RunInv, StepInv, ExitInv, Running, Early, Late
<1>4. CASE GoOn /\ UNCHANGED err /\ closed = TRUE /\ (pc # "search" => published = << >>)
  <2>1. pc' \in {"errCh", "ctxSearched", "report"} /\ err' = "none"
        /\ (pc' # "errCh" => published = << >>)
    BY <1>1, <1>3, <1>4, GoOnLeads
  <2>2. StepInv'
    BY <1>1, <1>3, <1>4, <2>1 DEF RunInv, StepInv, Running, Early, Late
  <2>3. ErrInv' /\ ExitInv'
    BY <1>1, <1>3, <2>1 DEF ErrInv, ExitInv
  <2>4. QED
    BY <1>2, <2>2, <2>3 DEF RunInv
<1>5. ASSUME NEW e \in {"cancel", "search"}, Return(e), e = "cancel" => callerCancelled
      PROVE  RunInv'
  <2>1. pc' = "return" /\ err' = e
    BY <1>5 DEF Return
  <2>2. StepInv'
    BY <1>1, <1>3, <1>5, <2>1 DEF RunInv, StepInv, Running, Early, Late
  <2>3. ErrInv' /\ ExitInv'
    BY <1>1, <1>3, <1>5, <2>1 DEF ErrInv, ExitInv
  <2>4. QED
    BY <1>2, <2>2, <2>3 DEF RunInv
<1>6. CASE EndOfResults
  BY <1>4, <1>6 DEF EndOfResults, RunInv, StepInv
<1>7. CASE ReceiveErr
  <2>1. /\ published \in {<< >>, << "fatal" >>, << "cancelled" >>}
        /\ published = << "cancelled" >> => callerCancelled
        /\ closed = TRUE
    BY <1>7 DEF ReceiveErr, RunInv, SearchInv, StepInv
  <2>2. CASE published = << >>
    BY <1>4, <1>7, <2>1, <2>2 DEF ReceiveErr
  <2>3. CASE published # << >>
    BY <1>5, <1>7, <2>1, <2>3 DEF ReceiveErr, OrCancel
  <2>4. QED
    BY <2>2, <2>3
<1>8. CASE (CheckCtx /\ pc = "ctxSearched")
  <2>1. published = << >> /\ closed = TRUE
    BY <1>8 DEF RunInv, StepInv, Late
  <2>2. QED
    BY <1>4, <1>5, <1>8, <2>1 DEF CheckCtx
<1>9. QED
  BY <1>6, <1>7, <1>8

\* The unreadable blobs are finitely many.
LEMMA UnreadableIsFinite ==
  ASSUME SearchInv
  PROVE  /\ IsFiniteSet(Unreadable) /\ Cardinality(Unreadable) \in Nat
         /\ Cardinality(Unreadable) = 0 <=> Unreadable = {}
<1>1. Search!Job = 1 .. Len(jobOrder) /\ Len(jobOrder) \in Nat
  BY LenProperties DEF SearchInv, Search!Job
<1>2. Unreadable \subseteq 1 .. Len(jobOrder)
  BY <1>1 DEF SearchInv, Unreadable
<1>3. IsFiniteSet(1 .. Len(jobOrder))
  BY <1>1, FS_Interval
<1>4. IsFiniteSet(Unreadable)
  BY <1>2, <1>3, FS_Subset
<1>5. Cardinality(Unreadable) \in Nat
  BY <1>4, FS_CardinalityType
<1>6. Cardinality(Unreadable) = 0 <=> Unreadable = {}
  BY <1>4, FS_EmptySet
<1>7. QED
  BY <1>4, <1>5, <1>6

\* Unreadable blobs are counted and reported.
LEMMA ReportStep == ASSUME RunInv, ReportSkipped PROVE RunInv'
<1>1. /\ UNCHANGED << jobOrder, delivered, published, closed, arrived, quiet, in, err,
                      callerCancelled, text, walkCancelled, exit >>
      /\ pc = "report" /\ pc' = "emit"
      /\ skipped' = Cardinality(Unreadable) /\ diagnosed' = (diagnosed \/ Unreadable # {})
  BY GoOnLeads DEF ReportSkipped, search, given, signal
<1>2. SearchInv'
  BY <1>1, SearchKept DEF RunInv
<1>3. err = "none" /\ exit = NoExit /\ text = << >> /\ walkCancelled = FALSE
  BY <1>1 DEF RunInv, StepInv, ExitInv, Running, Early, Late
<1>4. skipped' = Cardinality(Unreadable') /\ (skipped' > 0 => diagnosed') /\ diagnosed' \in BOOLEAN
  <2>1. Unreadable' = Unreadable
    BY <1>1 DEF Unreadable
  <2>2. Cardinality(Unreadable) > 0 => Unreadable # {}
    BY UnreadableIsFinite DEF RunInv
  <2>3. diagnosed' \in BOOLEAN /\ (Unreadable # {} => diagnosed')
    BY <1>1, Zenon DEF RunInv, StepInv
  <2>4. QED
    BY <1>1, <2>1, <2>2, <2>3
<1>5. StepInv'
  BY <1>1, <1>3, <1>4 DEF RunInv, StepInv, Running, Early, Late
<1>6. ErrInv' /\ ExitInv'
  BY <1>1, <1>3 DEF ErrInv, ExitInv
<1>7. QED
  BY <1>2, <1>5, <1>6 DEF RunInv

\* A search without an error that has skipped no blob delivered only matches.
LEMMA NothingSkipped ==
  ASSUME SearchInv, closed = TRUE, published = << >>, Unreadable = {}, ~Search!Satisfied
  PROVE  Search!Loud = ToSet(arrived)
<1>1. Search!Loud = delivered
  BY DEF SearchInv
<1>2. ASSUME NEW j \in delivered PROVE jobOrder[j] = "hit"
  <2>1. j \in Search!Job /\ jobOrder[j] # "silent"
    BY <1>1, <1>2 DEF Search!Loud
  <2>2. jobOrder[j] \in Search!Kind
    BY <2>1, ElementOfSeq DEF SearchInv, Search!Job
  <2>3. jobOrder[j] # "fatal"
    BY DEF SearchInv
  <2>4. jobOrder[j] # "unreadable"
    BY <1>2 DEF Unreadable
  <2>5. QED
    BY <2>1, <2>2, <2>3, <2>4 DEF Search!Kind
<1>3. QED
  BY <1>1, <1>2 DEF SearchInv

\* What is known when the output is due.
LEMMA OutputDue ==
  ASSUME RunInv, pc \in {"emit", "render"}
  PROVE  /\ err = "none" /\ exit = NoExit /\ walkCancelled = FALSE
         /\ published = << >> /\ closed = TRUE
         /\ skipped \in Nat /\ (skipped > 0 => diagnosed)
         /\ skipped = 0 => Unreadable = {}
         /\ {quiet, callerCancelled, diagnosed} \subseteq BOOLEAN
<1>1. err = "none" /\ exit = NoExit /\ published = << >> /\ closed = TRUE
  BY DEF RunInv, StepInv, ExitInv, Running, Late
<1>2. walkCancelled = FALSE
  BY <1>1 DEF RunInv, StepInv
<1>3. skipped = Cardinality(Unreadable) /\ (skipped > 0 => diagnosed)
  BY DEF RunInv, StepInv
<1>4. skipped \in Nat /\ (skipped = 0 => Unreadable = {})
  BY <1>3, UnreadableIsFinite DEF RunInv
<1>5. QED
  BY <1>1, <1>2, <1>3, <1>4 DEF RunInv, StepInv

\* Returning from the output: no match only of nothing, a match only of all.
LEMMA OutputReturns ==
  ASSUME RunInv, pc \in {"emit", "render"},
         UNCHANGED << search, given, arrived, signal, output, walkCancelled, exit >>,
         NEW e, Return(e),
         e \in {"none", "noMatch", "skipped", "cancel", "write"},
         e = "none" => arrived # << >> /\ (quiet \/ Search!Loud = ToSet(arrived)),
         e = "noMatch" => text = << >> /\ Search!Loud = {},
         e = "skipped" => diagnosed, e = "cancel" => callerCancelled
  PROVE  RunInv'
<1>1. /\ UNCHANGED << jobOrder, delivered, published, closed, arrived, quiet, in, skipped,
                      callerCancelled, text, diagnosed, walkCancelled, exit >>
      /\ pc' = "return" /\ err' = e
  BY DEF search, given, signal, output, Return
<1>2. SearchInv'
  BY <1>1, SearchKept DEF RunInv
<1>3. Search!Loud' = Search!Loud
  BY <1>1 DEF Search!Loud, Search!Job
<1>4. StepInv'
  BY <1>1, OutputDue DEF RunInv, StepInv, Running, Early, Late
<1>5. ErrInv' /\ ExitInv'
  BY <1>1, <1>3, OutputDue DEF ErrInv, ExitInv
<1>6. QED
  BY <1>2, <1>4, <1>5 DEF RunInv

\* The output is begun, or there is none.
LEMMA EmitStep == ASSUME RunInv, Emit PROVE RunInv'
<1>1. /\ UNCHANGED << search, given, arrived, signal, output, walkCancelled, exit >>
      /\ pc = "emit" /\ text = << >>
  BY DEF Emit, RunInv, StepInv, Running, Late
<1>2. CASE arrived = << >>
  <2>1. Return(WithSkipped("noMatch"))
    BY <1>2 DEF Emit
  <2>2. CASE skipped > 0
    <3>1. Return("skipped") /\ diagnosed
      BY <1>1, <2>1, <2>2, OutputDue DEF WithSkipped
    <3>2. QED
      BY <1>1, <3>1, OutputReturns
  <2>3. CASE skipped = 0
    <3>1. Return("noMatch")
      BY <2>1, <2>3 DEF WithSkipped
    <3>2. ToSet(arrived) = {}
      BY <1>2 DEF ToSet
    <3>3. ~Search!Satisfied
      BY <3>2 DEF RunInv, SearchInv, Search!Satisfied
    <3>4. Search!Loud = {}
      BY <1>1, <2>3, <3>2, <3>3, NothingSkipped, OutputDue DEF RunInv
    <3>5. QED
      BY <1>1, <3>1, <3>4, OutputReturns
  <2>4. QED
    BY <1>1, <2>2, <2>3, OutputDue
<1>3. CASE arrived # << >> /\ quiet
  <2>1. Return("none")
    BY <1>3 DEF Emit, WithSkipped
  <2>2. QED
    BY <1>1, <1>3, <2>1, OutputReturns
<1>4. CASE arrived # << >> /\ ~quiet
  <2>1. pc' = "render" /\ err' = "none" /\ quiet = FALSE
    BY <1>1, <1>4, GoOnLeads, OutputDue DEF Emit
  <2>2. UNCHANGED << jobOrder, delivered, published, closed, arrived, quiet, in, skipped,
                     callerCancelled, text, diagnosed, walkCancelled, exit >>
    BY <1>1 DEF search, given, signal, output
  <2>3. SearchInv'
    BY <2>2, SearchKept DEF RunInv
  <2>4. Unreadable' = Unreadable
    BY <2>2 DEF Unreadable
  <2>5. StepInv'
    BY <1>1, <1>4, <2>1, <2>2, <2>4, OutputDue DEF RunInv, StepInv, Running, Early, Late
  <2>6. ErrInv' /\ ExitInv'
    BY <1>1, <2>1, <2>2, OutputDue DEF ErrInv, ExitInv
  <2>7. QED
    BY <2>3, <2>5, <2>6 DEF RunInv
<1>5. QED
  BY <1>2, <1>3, <1>4

\* The output goes on.
LEMMA OutputGoesOn ==
  ASSUME RunInv, pc = "render",
         UNCHANGED << search, given, arrived, signal, diagnosed, skipped, walkCancelled, exit >>,
         UNCHANGED << pc, err >> \/ (callerCancelled /\ Return("cancel"))
  PROVE  RunInv'
<1>1. /\ UNCHANGED << jobOrder, delivered, published, closed, arrived, quiet, in, skipped,
                      callerCancelled, diagnosed, walkCancelled, exit >>
      /\ \/ pc' = "render" /\ err' = "none"
         \/ pc' = "return" /\ err' = "cancel" /\ callerCancelled
  BY OutputDue DEF search, given, signal, Return
<1>2. SearchInv'
  BY <1>1, SearchKept DEF RunInv
<1>3. Unreadable' = Unreadable
  BY <1>1 DEF Unreadable
<1>4. StepInv'
  BY <1>1, <1>3, OutputDue DEF RunInv, StepInv, Running, Early, Late
<1>5. ErrInv' /\ ExitInv'
  BY <1>1, OutputDue DEF ErrInv, ExitInv
<1>6. QED
  BY <1>2, <1>4, <1>5 DEF RunInv

\* The steps of the output.
LEMMA RenderSteps ==
  ASSUME RunInv, RenderBoundary \/ RenderItem \/ RenderFails \/ RenderDone
  PROVE  RunInv'
<1>1. CASE RenderBoundary \/ RenderItem
  <2>1. pc = "render"
        /\ UNCHANGED << search, given, arrived, signal, diagnosed, skipped, walkCancelled, exit >>
    BY <1>1 DEF RenderBoundary, RenderItem, output
  <2>2. UNCHANGED << pc, err >> \/ (callerCancelled /\ Return("cancel"))
    <3>1. ASSUME NEW looks, GoOnUnless(looks)
          PROVE  UNCHANGED << pc, err >> \/ (callerCancelled /\ Return("cancel"))
      <4>1. WithSkipped("cancel") = "cancel"
        BY DEF WithSkipped
      <4>2. Return(WithSkipped("cancel")) => Return("cancel")
        BY <4>1, Zenon
      <4>3. CASE looks /\ callerCancelled
        BY <3>1, <4>2, <4>3, Zenon DEF GoOnUnless
      <4>4. CASE ~(looks /\ callerCancelled)
        BY <3>1, <4>4, Zenon DEF GoOnUnless
      <4>5. QED
        BY <4>3, <4>4
    <3>2. CASE RenderBoundary
      BY <3>1, <3>2, Zenon DEF RenderBoundary
    <3>3. CASE RenderItem
      BY <3>1, <3>3, Zenon DEF RenderItem
    <3>4. QED
      BY <1>1, <3>2, <3>3
  <2>3. QED
    BY <2>1, <2>2, OutputGoesOn
<1>2. CASE RenderFails
  <2>1. /\ pc = "render"
        /\ UNCHANGED << search, given, arrived, signal, output, walkCancelled, exit >>
    BY <1>2 DEF RenderFails
  <2>2. Return(IF callerCancelled THEN "cancel" ELSE "write")
    BY <1>2 DEF RenderFails, OrCancel, WithSkipped
  <2>3. QED
    BY <2>1, <2>2, OutputReturns
<1>3. CASE RenderDone
  <2>1. /\ pc = "render" /\ arrived # << >> /\ quiet = FALSE
        /\ UNCHANGED << search, given, arrived, signal, output, walkCancelled, exit >>
    BY <1>3 DEF RenderDone, RunInv, StepInv
  <2>2. CASE skipped > 0
    <3>1. Return("skipped") /\ diagnosed
      BY <1>3, <2>1, <2>2, OutputDue DEF RenderDone, WithSkipped
    <3>2. QED
      BY <2>1, <3>1, OutputReturns
  <2>3. CASE skipped = 0
    <3>1. Return("none")
      BY <1>3, <2>3 DEF RenderDone, WithSkipped
    <3>2. Search!Loud = ToSet(arrived)
      BY <2>1, <2>3, NothingSkipped, OutputDue DEF RunInv, Search!Satisfied
    <3>3. QED
      BY <2>1, <3>1, <3>2, OutputReturns
  <2>4. QED
    BY <2>1, <2>2, <2>3, OutputDue
<1>4. QED
  BY <1>1, <1>2, <1>3

\* The program ends by itself.
LEMMA ExitStep == ASSUME RunInv, Exit PROVE RunInv'
<1>1. /\ UNCHANGED << jobOrder, delivered, published, closed, arrived, quiet, in, skipped,
                      callerCancelled, text, walkCancelled, err >>
      /\ pc = "return" /\ pc' = "exited" /\ exit' = ExitCode(err)
      /\ diagnosed' = (diagnosed \/ (ExitCode(err) = 2 /\ ~IsQuietError(err)))
  BY DEF Exit, search, given, signal
<1>2. SearchInv'
  BY <1>1, SearchKept DEF RunInv
<1>3. Search!Loud' = Search!Loud
  BY <1>1 DEF Search!Loud, Search!Job
<1>4. diagnosed' \in BOOLEAN /\ (diagnosed => diagnosed')
  BY <1>1, Zenon DEF RunInv, StepInv
<1>5. StepInv'
  BY <1>1, <1>4 DEF RunInv, StepInv, Running, Early, Late
<1>6. ErrInv'
  BY <1>1, <1>3, <1>4 DEF RunInv, ErrInv
<1>7. ExitInv'
  <2>1. ExitCode(err) = 2 /\ ~IsQuietError(err) => diagnosed'
    BY <1>1, Zenon
  <2>2. IsQuietError(err) => diagnosed' \/ (quiet' /\ callerCancelled')
    BY <1>1, <1>4 DEF RunInv, ErrInv, IsQuietError
  <2>3. QED
    BY <1>1, <2>1, <2>2 DEF ExitInv
<1>8. QED
  BY <1>2, <1>5, <1>6, <1>7 DEF RunInv

\* Interrupts.
LEMMA SignalSteps == ASSUME RunInv, Interrupt \/ ReleaseHandler PROVE RunInv'
<1>1. /\ UNCHANGED << jobOrder, delivered, published, closed, arrived, quiet, in, skipped,
                      text, diagnosed, walkCancelled, err, exit >>
      /\ callerCancelled' = callerCancelled \/ callerCancelled' = TRUE
      /\ pc' \in {pc, "killed"} /\ pc \notin {"exited", "killed"}
  BY DEF Interrupt, ReleaseHandler, HasEnded, search, given, output, format, Search!CallerCancel
<1>2. SearchInv'
  BY <1>1, SearchKept DEF RunInv
<1>3. Unreadable' = Unreadable /\ Search!Loud' = Search!Loud
  BY <1>1 DEF Unreadable, Search!Loud, Search!Job
<1>4. StepInv'
  <2>1. callerCancelled' \in BOOLEAN /\ (callerCancelled => callerCancelled')
    <3>1. callerCancelled \in BOOLEAN
      BY DEF RunInv, StepInv
    <3>2. CASE callerCancelled' = callerCancelled
      BY <3>1, <3>2, Zenon
    <3>3. CASE callerCancelled' = TRUE
      BY <3>3, Zenon
    <3>4. QED
      BY <1>1, <3>2, <3>3
  <2>2. CASE pc' = pc
    BY <1>1, <1>3, <2>1, <2>2 DEF RunInv, StepInv
  <2>3. CASE pc' = "killed"
    <3>1. walkCancelled => callerCancelled' /\ text' = << >>
      BY <1>1, <2>1, Zenon DEF RunInv, StepInv
    <3>2. {callerCancelled', walkCancelled', quiet', diagnosed', closed'} \subseteq BOOLEAN
      BY <1>1, <2>1 DEF RunInv, StepInv
    <3>3. /\ pc' \notin Running \cup {"emit", "render"} \cup Late \cup {"errCh"}
          /\ pc' \notin Early /\ pc' \in {"return", "exited", "killed"} /\ pc' = "killed"
      BY <2>3 DEF Running, Early, Late
    <3>4. QED
      BY <1>1, <3>1, <3>2, <3>3 DEF StepInv
  <2>4. QED
    BY <1>1, <2>2, <2>3
<1>5. ErrInv' /\ ExitInv'
  BY <1>1, <1>3 DEF RunInv, ErrInv, ExitInv
<1>6. QED
  BY <1>2, <1>4, <1>5 DEF RunInv

\* Nothing changes.
LEMMA StutterStep == ASSUME RunInv, UNCHANGED vars PROVE RunInv'
BY DEF RunInv, SearchInv, StepInv, ErrInv, ExitInv, vars, search, given, signal, output,
       Unreadable, Search!Satisfied, Search!Loud, Search!Job

\* Every step preserves the invariant.
LEMMA NextRunInv == RunInv /\ [Next]_vars => RunInv'
<1> SUFFICES ASSUME RunInv, [Next]_vars PROVE RunInv'
  OBVIOUS
<1>1. CASE SetUp \/ PrintInfo \/ CountOccurrences \/ (CheckCtx /\ pc # "ctxSearched")
  BY <1>1, EarlySteps
<1>2. CASE EndOfResults \/ ReceiveErr \/ (CheckCtx /\ pc = "ctxSearched")
  BY <1>2, AfterSearch
<1>3. CASE Walk
  BY <1>3, WalkStep
<1>4. CASE SearchStep
  BY <1>4, SearchSteps
<1>5. CASE ReportSkipped
  BY <1>5, ReportStep
<1>6. CASE Emit
  BY <1>6, EmitStep
<1>7. CASE RenderBoundary \/ RenderItem \/ RenderFails \/ RenderDone
  BY <1>7, RenderSteps
<1>8. CASE Exit
  BY <1>8, ExitStep
<1>9. CASE Interrupt \/ ReleaseHandler
  BY <1>9, SignalSteps
<1>10. CASE UNCHANGED vars
  BY <1>10, StutterStep
<1>11. QED
  BY <1>1, <1>2, <1>3, <1>4, <1>5, <1>6, <1>7, <1>8, <1>9, <1>10 DEF Next, Main, Ended

\* The invariant always holds.
LEMMA AlwaysRunInv == Spec => []RunInv
BY InitRunInv, NextRunInv, PTL DEF Spec

-----------------------------------------------------------------------------
(* What is picked, flattened and joined.                                    *)

\* Picking goes from one element to the next.
PicksFrom(f, s, P) ==
  /\ f[0] = << >>
  /\ \A k \in 1 .. Len(s) : f[k] = IF k \in P THEN Append(f[k - 1], s[k]) ELSE f[k - 1]

LEMMA PickedUnfolds ==
  ASSUME NEW X, NEW s \in Seq(X), NEW P
  PROVE  \E f : /\ PicksFrom(f, s, P) /\ Picked(s, P) = f[Len(s)]
               /\ \A k \in 0 .. Len(s) : f[k] \in Seq(X)
<1> DEFINE N == Len(s)
           V == Seq(X)
           Row(q, k) == IF k \in P THEN Append(q, s[k]) ELSE q
           Def(g) == [k \in 0 .. N |-> IF k = 0 THEN << >> ELSE
                                       IF k \in P THEN Append(g[k - 1], s[k]) ELSE g[k - 1]]
           S == [k \in 1 .. N |-> [q \in V |-> Row(q, k)]]
           f == CHOOSE g : g = Def(g)
<1>1. N \in Nat /\ \A k \in 1 .. N : s[k] \in X
  BY LenProperties, ElementOfSeq
<1>2. ASSUME NEW k \in 1 .. N, NEW q \in V PROVE Row(q, k) \in V
  <2>1. Append(q, s[k]) \in Seq(X)
    BY <1>1, AppendProperties
  <2>2. QED
    BY <2>1
<1>3. << >> \in V
  BY EmptySeq
<1> HIDE DEF V, N
<1>4. \A k \in 1 .. N, q \in V : S[k][q] = Row(q, k) /\ S[k][q] \in V
  BY <1>2
<1>5. PICK g \in [0 .. N -> V] : Runs(g, N, << >>, S)
  <2> HIDE DEF S
  <2>1. QED
    BY <1>1, <1>3, <1>4, RunExists
<1>6. g = Def(g)
  <2>1. g = [k \in 0 .. N |-> IF k = 0 THEN << >> ELSE S[k][g[k - 1]]]
    BY <1>5 DEF Runs
  <2> HIDE DEF S
  <2>2. ASSUME NEW k \in 0 .. N, k # 0 PROVE S[k][g[k - 1]] = Row(g[k - 1], k)
    <3>1. k \in 1 .. N /\ g[k - 1] \in V
      BY <1>1, <2>2
    <3>2. QED
      BY <1>4, <3>1
  <2>3. QED
    BY <2>1, <2>2
<1>7. f = Def(f)
  BY <1>6
<1>8. Picked(s, P) = f[N]
  BY DEF Picked, N
<1> HIDE DEF f
<1>9. f[0] = << >> /\ \A k \in 1 .. N : f[k] = Row(f[k - 1], k)
  <2>1. \A k \in 0 .. N : f[k] = IF k = 0 THEN << >> ELSE Row(f[k - 1], k)
    BY <1>7, Zenon
  <2>2. 0 \in 0 .. N /\ \A k \in 1 .. N : k \in 0 .. N /\ k # 0
    BY <1>1
  <2>3. QED
    BY <2>1, <2>2
<1> DEFINE G == { k \in 0 .. N : f[k] \in V }
<1>10. ASSUME NEW n \in 0 .. N, \A k \in 0 .. N : k < n => k \in G PROVE n \in G
  <2>1. CASE n = 0
    BY <1>3, <1>9, <2>1
  <2>2. CASE n # 0
    <3>1. n - 1 \in 0 .. N /\ n - 1 < n /\ n \in 1 .. N
      BY <1>1, <2>2
    <3>2. f[n - 1] \in V /\ f[n] = Row(f[n - 1], n)
      BY <1>9, <1>10, <3>1
    <3>3. QED
      BY <1>2, <3>1, <3>2
  <2>3. QED
    BY <2>1, <2>2
<1> HIDE DEF G
<1>11. \A n \in 0 .. N : n \in G
  <2>1. 0 .. N \in SUBSET Nat
    BY <1>1
  <2>2. QED
    BY <1>1, <1>10, <2>1, InductionFromBelow
<1>12. \A k \in 0 .. N : f[k] \in Seq(X)
  BY <1>11 DEF G, V
<1>13. PicksFrom(f, s, P) /\ Picked(s, P) = f[Len(s)]
  BY <1>8, <1>9 DEF PicksFrom, N
<1>14. QED
  BY <1>12, <1>13 DEF N

\* What q has picked of the first k elements of s.
HasPicked(q, s, P, k) ==
  /\ \A i \in 1 .. k : i \in P => \E m \in 1 .. Len(q) : q[m] = s[i]
  /\ \A m \in 1 .. Len(q) : \E i \in 1 .. k : i \in P /\ q[m] = s[i]
  /\ \A i \in 1 .. k : i \in P /\ (\A j \in 1 .. i - 1 : j \notin P) => q # << >> /\ q[1] = s[i]

\* All elements at these positions are picked, no others, and the first one first.
LEMMA PickedFacts ==
  ASSUME NEW X, NEW s \in Seq(X), NEW P
  PROVE  Picked(s, P) \in Seq(X) /\ HasPicked(Picked(s, P), s, P, Len(s))
<1> DEFINE N == Len(s)
           V == Seq(X)
<1>1. N \in Nat /\ \A k \in 1 .. N : s[k] \in X
  BY LenProperties, ElementOfSeq
<1>3. << >> \in V
  BY EmptySeq
<1>8. PICK f : /\ PicksFrom(f, s, P) /\ Picked(s, P) = f[N]
              /\ \A k \in 0 .. N : f[k] \in V
  BY PickedUnfolds
<1> HIDE DEF V, N
<1>9. f[0] = << >> /\ \A k \in 1 .. N : f[k] = IF k \in P THEN Append(f[k - 1], s[k]) ELSE f[k - 1]
  BY <1>8 DEF PicksFrom, N
<1> DEFINE G == { k \in 0 .. N : f[k] \in V /\ HasPicked(f[k], s, P, k) }
<1>10. ASSUME NEW n \in 0 .. N, \A k \in 0 .. N : k < n => k \in G PROVE n \in G
  <2>1. CASE n = 0
    <3>1. Len(f[n]) = 0
      BY <1>9, <2>1, EmptySeq
    <3>2. QED
      BY <1>3, <1>9, <2>1, <3>1 DEF HasPicked
  <2>2. CASE n # 0
    <3> DEFINE q == f[n - 1]
               x == s[n]
    <3>1. n - 1 \in 0 .. N /\ n - 1 < n /\ n \in 1 .. N
      BY <1>1, <2>2
    <3>2. q \in Seq(X) /\ HasPicked(q, s, P, n - 1)
      BY <1>10, <3>1 DEF V
    <3>3. f[n] = IF n \in P THEN Append(q, x) ELSE q
      BY <1>9, <3>1
    <3>4. x \in X /\ Len(q) \in Nat
      BY <1>1, <3>1, <3>2
    <3>5. \A i \in 1 .. n : i \in 1 .. n - 1 \/ i = n
      BY <3>1
    <3>6. \A i \in 1 .. n - 1 : i \in 1 .. n
      BY <3>1
    <3>7. n \in 1 .. n
      BY <3>1
    <3> HIDE DEF q, x
    <3>8. CASE n \notin P
      <4>1. f[n] = q
        BY <3>3, <3>8
      <4>2. HasPicked(q, s, P, n)
        BY <3>2, <3>5, <3>6, <3>8 DEF HasPicked
      <4>3. QED
        BY <3>2, <4>1, <4>2 DEF V
    <3>9. CASE n \in P
      <4> DEFINE r == Append(q, x)
      <4>1. /\ r \in Seq(X) /\ Len(r) = Len(q) + 1 /\ r[Len(q) + 1] = x
            /\ \A m \in 1 .. Len(q) : r[m] = q[m]
        BY <3>2, <3>4, AppendProperties
      <4> HIDE DEF r
      <4>2. (\A m \in 1 .. Len(q) : m \in 1 .. Len(r)) /\ Len(q) + 1 \in 1 .. Len(r)
            /\ \A m \in 1 .. Len(r) : m \in 1 .. Len(q) \/ m = Len(q) + 1
        BY <3>4, <4>1
      <4>3. \A i \in 1 .. n : i \in P => \E m \in 1 .. Len(r) : r[m] = s[i]
        <5>1. r[Len(q) + 1] = s[n]
          BY <4>1 DEF x
        <5>2. ASSUME NEW i \in 1 .. n - 1, i \in P PROVE \E m \in 1 .. Len(r) : r[m] = s[i]
          <6>1. PICK m \in 1 .. Len(q) : q[m] = s[i]
            BY <3>2, <5>2 DEF HasPicked
          <6>2. QED
            BY <4>1, <4>2, <6>1
        <5>3. QED
          BY <3>5, <4>2, <5>1, <5>2
      <4>4. ASSUME NEW m \in 1 .. Len(r) PROVE \E i \in 1 .. n : i \in P /\ r[m] = s[i]
        <5>1. CASE m = Len(q) + 1
          BY <3>7, <3>9, <4>1, <5>1 DEF x
        <5>2. CASE m \in 1 .. Len(q)
          <6>1. PICK i \in 1 .. n - 1 : i \in P /\ q[m] = s[i]
            BY <3>2, <5>2 DEF HasPicked
          <6>2. QED
            BY <3>6, <4>1, <5>2, <6>1
        <5>3. QED
          BY <4>2, <5>1, <5>2
      <4>5. ASSUME NEW i \in 1 .. n, i \in P, \A j \in 1 .. i - 1 : j \notin P
            PROVE  r # << >> /\ r[1] = s[i]
        <5>1. r # << >>
          BY <3>4, <4>1, EmptySeq
        <5>2. CASE i = n
          <6>1. q = << >>
            <7>1. \A m \in 1 .. Len(q) : FALSE
              BY <3>2, <4>5, <5>2 DEF HasPicked
            <7>2. Len(q) = 0
              BY <3>4, <7>1
            <7>3. QED
              BY <3>2, <7>2, EmptySeq
          <6>2. Len(q) + 1 = 1
            BY <6>1, EmptySeq
          <6>3. QED
            BY <4>1, <5>1, <5>2, <6>2 DEF x
        <5>3. CASE i \in 1 .. n - 1
          <6>1. q # << >> /\ q[1] = s[i]
            BY <3>2, <4>5, <5>3 DEF HasPicked
          <6>2. 1 \in 1 .. Len(q)
            BY <3>2, <3>4, <6>1, EmptySeq
          <6>3. QED
            BY <4>1, <5>1, <6>1, <6>2
        <5>4. QED
          BY <3>5, <5>2, <5>3
      <4>6. HasPicked(r, s, P, n)
        BY <4>3, <4>4, <4>5 DEF HasPicked
      <4>7. QED
        BY <3>3, <3>9, <4>1, <4>6 DEF V, r
    <3>10. QED
      BY <3>8, <3>9
  <2>3. QED
    BY <2>1, <2>2
<1> HIDE DEF G
<1>11. \A n \in 0 .. N : n \in G
  <2>1. 0 .. N \in SUBSET Nat
    BY <1>1
  <2>2. QED
    BY <1>1, <1>10, <2>1, InductionFromBelow
<1>12. N \in G
  BY <1>1, <1>11
<1>13. QED
  BY <1>8, <1>12 DEF G, V, N

\* Sequences are flattened one after another.
FlattensFrom(f, ss) ==
  /\ f[1] = ss[1]
  /\ \A k \in 2 .. Len(ss) : f[k] = f[k - 1] \o ss[k]

LEMMA FlattenUnfolds ==
  ASSUME NEW X, NEW ss \in Seq(Seq(X)), ss # << >>
  PROVE  \E f : /\ FlattensFrom(f, ss) /\ FlattenSeq(ss) = f[Len(ss)]
               /\ \A k \in 1 .. Len(ss) : f[k] \in Seq(X)
<1> DEFINE N == Len(ss)
           a == ss[1]
           V == Seq(X)
           Def(g) == [i \in 1 .. N |-> IF i = 1 THEN ss[i] ELSE g[i - 1] \o ss[i]]
           S == [k \in 2 .. N |-> [q \in V |-> q \o ss[k]]]
           f == CHOOSE g : g = Def(g)
<1>1. N \in Nat \ {0} /\ \A k \in 1 .. N : ss[k] \in Seq(X)
  BY EmptySeq, ElementOfSeq
<1>2. a \in V
  BY <1>1
<1>3. ASSUME NEW k \in 2 .. N, NEW q \in V PROVE q \o ss[k] \in V
  BY <1>1, ConcatProperties
<1> HIDE DEF V, a, N
<1>4. \A k \in 2 .. N, q \in V : S[k][q] = q \o ss[k] /\ S[k][q] \in V
  BY <1>3
<1>5. PICK h \in [1 .. N -> V] : RunsFromOne(h, N, a, S)
  <2>1. \A k \in 2 .. N, v \in V : S[k][v] \in V
    BY <1>4, Zenon
  <2>2. N \in Nat \ {0} /\ a \in V
    BY <1>1, <1>2
  <2> HIDE DEF S
  <2>3. QED
    BY <2>1, <2>2, RunFromOne
<1>6. h = Def(h)
  <2> HIDE DEF S
  <2>1. ASSUME NEW k \in 1 .. N, k # 1 PROVE S[k][h[k - 1]] = h[k - 1] \o ss[k]
    <3>1. k \in 2 .. N /\ k - 1 \in 1 .. N
      BY <1>1, <2>1
    <3>2. QED
      BY <1>4, <3>1
  <2>2. QED
    BY <1>5, <2>1 DEF RunsFromOne, a
<1>7. f = Def(f)
  BY <1>6
<1>8. FlattenSeq(ss) = f[N]
  BY <1>1 DEF FlattenSeq, N
<1> HIDE DEF f
<1>9. f[1] = ss[1] /\ \A k \in 2 .. N : f[k] = f[k - 1] \o ss[k]
  <2>1. \A k \in 1 .. N : f[k] = IF k = 1 THEN ss[k] ELSE f[k - 1] \o ss[k]
    BY <1>7, Zenon
  <2>2. 1 \in 1 .. N /\ \A k \in 2 .. N : k \in 1 .. N /\ k # 1
    BY <1>1
  <2>3. QED
    BY <2>1, <2>2
<1> DEFINE G == { k \in 0 .. N : k = 0 \/ f[k] \in V }
<1>10. ASSUME NEW n \in 0 .. N, \A k \in 0 .. N : k < n => k \in G PROVE n \in G
  <2>1. CASE n = 0
    BY <2>1
  <2>2. CASE n = 1
    BY <1>2, <1>9, <2>2 DEF a
  <2>3. CASE n \notin {0, 1}
    <3>1. n \in 2 .. N /\ n \in 1 .. N /\ n # 1 /\ n - 1 \in 0 .. N /\ n - 1 < n /\ n - 1 # 0
      BY <1>1, <2>3
    <3>2. f[n] = f[n - 1] \o ss[n] /\ f[n - 1] \in V
      BY <1>9, <1>10, <3>1
    <3>3. QED
      BY <1>3, <3>1, <3>2
  <2>4. QED
    BY <2>1, <2>2, <2>3
<1> HIDE DEF G
<1>11. \A n \in 0 .. N : n \in G
  <2>1. 0 .. N \in SUBSET Nat
    BY <1>1
  <2>2. QED
    BY <1>1, <1>10, <2>1, InductionFromBelow
<1>12. \A k \in 1 .. N : f[k] \in Seq(X)
  <2>1. \A k \in 1 .. N : k \in 0 .. N /\ k # 0
    BY <1>1
  <2>2. QED
    BY <1>11, <2>1 DEF G, V
<1>13. FlattensFrom(f, ss)
  BY <1>9 DEF FlattensFrom, N
<1>14. QED
  BY <1>8, <1>12, <1>13 DEF N

\* A sequence of sequences, one after another, begins with the first of them.
LEMMA FlattenBegins ==
  ASSUME NEW X, NEW ss \in Seq(Seq(X)), ss # << >>
  PROVE  /\ FlattenSeq(ss) \in Seq(X)
         /\ \A k \in 1 .. Len(ss[1]) :
              k \in 1 .. Len(FlattenSeq(ss)) /\ FlattenSeq(ss)[k] = ss[1][k]
<1> DEFINE N == Len(ss)
           a == ss[1]
           V == { q \in Seq(X) : \A k \in 1 .. Len(a) : k \in 1 .. Len(q) /\ q[k] = a[k] }
<1>1. N \in Nat \ {0} /\ \A k \in 1 .. N : ss[k] \in Seq(X)
  BY EmptySeq, ElementOfSeq
<1>2. a \in Seq(X) /\ a \in V /\ Len(a) \in Nat
  <2>1. a \in Seq(X)
    BY <1>1
  <2>2. QED
    BY <2>1, LenProperties
<1>3. ASSUME NEW k \in 2 .. N, NEW q \in V PROVE q \o ss[k] \in V
  <2>1. ss[k] \in Seq(X) /\ q \in Seq(X) /\ Len(q) \in Nat /\ Len(ss[k]) \in Nat
    BY <1>1
  <2> DEFINE r == q \o ss[k]
  <2>2. /\ r \in Seq(X) /\ Len(r) = Len(q) + Len(ss[k])
        /\ \A i \in 1 .. Len(q) + Len(ss[k]) : r[i] = IF i <= Len(q) THEN q[i] ELSE ss[k][i - Len(q)]
    BY <2>1, ConcatProperties
  <2> HIDE DEF r
  <2>3. \A i \in 1 .. Len(q) : i \in 1 .. Len(r) /\ r[i] = q[i]
    BY <2>1, <2>2
  <2>4. r \in V
    BY <2>2, <2>3
  <2>5. QED
    BY <2>4 DEF r
<1> HIDE DEF V, a, N
<1>4. PICK f : FlattensFrom(f, ss) /\ FlattenSeq(ss) = f[N]
  BY FlattenUnfolds DEF N
<1>5. f[1] = ss[1] /\ \A k \in 2 .. N : f[k] = f[k - 1] \o ss[k]
  BY <1>4 DEF FlattensFrom, N
<1> DEFINE G == { k \in 0 .. N : k = 0 \/ f[k] \in V }
<1>10. ASSUME NEW n \in 0 .. N, \A k \in 0 .. N : k < n => k \in G PROVE n \in G
  <2>1. CASE n = 0
    BY <2>1
  <2>2. CASE n = 1
    <3>1. f[1] = ss[1]
      BY <1>5
    <3>2. QED
      BY <1>2, <2>2, <3>1 DEF a
  <2>3. CASE n \notin {0, 1}
    <3>1. n \in 2 .. N /\ n \in 1 .. N /\ n # 1 /\ n - 1 \in 0 .. N /\ n - 1 < n /\ n - 1 # 0
      BY <1>1, <2>3
    <3>2. f[n] = f[n - 1] \o ss[n] /\ f[n - 1] \in V
      BY <1>5, <1>10, <3>1
    <3>3. QED
      BY <1>3, <3>1, <3>2
  <2>4. QED
    BY <2>1, <2>2, <2>3
<1> HIDE DEF G
<1>11. \A n \in 0 .. N : n \in G
  <2>1. 0 .. N \in SUBSET Nat
    BY <1>1
  <2>2. QED
    BY <1>1, <1>10, <2>1, InductionFromBelow
<1>12. f[N] \in V
  BY <1>1, <1>11 DEF G
<1>13. QED
  BY <1>4, <1>12 DEF V, a

\* The lines from one number to another.
Stretch == [start : Int, end : Int]

\* Joined intervals, of which the first one has line m.
Covering(m) == { q \in Seq(Stretch) : q # << >> /\ q[1].start <= m /\ m <= q[1].end }

\* One more interval is joined.
LEMMA MergeCovers ==
  ASSUME NEW m \in Int, NEW q \in Covering(m), NEW iv \in Stretch
  PROVE  Merge(q, iv) \in Covering(m)
<1> DEFINE n == Len(q)
           curr == q[n]
           longer == [curr EXCEPT !.end = Greatest(@, iv.end)]
<1>1. q \in Seq(Stretch) /\ q # << >> /\ q[1].start <= m /\ m <= q[1].end
  BY DEF Covering
<1>2. n \in Nat \ {0} /\ \A i \in 1 .. n : q[i] \in Stretch
  BY <1>1, EmptySeq, ElementOfSeq
<1>3. CASE iv.start <= curr.end + 1
  <2>1. curr \in Stretch
    BY <1>2
  <2> HIDE DEF curr
  <2>2. longer \in Stretch /\ longer.start = curr.start /\ curr.end <= longer.end
    BY <2>1 DEF Stretch, Greatest
  <2> HIDE DEF longer
  <2>3. /\ Front(q) \in Seq(Stretch) /\ Len(Front(q)) = n - 1
        /\ \A i \in 1 .. n - 1 : Front(q)[i] = q[i]
    <3> DEFINE k == n - 1
    <3>1. k \in Nat /\ k <= n /\ \A i \in 1 .. k : i \in 1 .. n
      BY <1>2
    <3>2. Front(q) = SubSeq(q, 1, k)
      BY DEF Front
    <3>3. k - 1 + 1 = k /\ \A i \in 1 .. k : 1 + i - 1 = i
      BY <3>1
    <3> HIDE DEF k, n
    <3>4. /\ SubSeq(q, 1, k) \in Seq(Stretch)
          /\ Len(SubSeq(q, 1, k)) = IF 1 <= k THEN k - 1 + 1 ELSE 0
          /\ \A i \in 1 .. k - 1 + 1 : SubSeq(q, 1, k)[i] = q[1 + i - 1]
      <4>1. \A i \in 1 .. k : q[i] \in Stretch
        BY <1>2, <3>1
      <4>2. QED
        BY <3>1, <4>1, SubSeqProperties
    <3>5. Len(SubSeq(q, 1, k)) = k
      BY <3>1, <3>3, <3>4
    <3>6. QED
      BY <3>2, <3>3, <3>4, <3>5 DEF k
  <2> DEFINE r == Append(Front(q), longer)
  <2>4. /\ r \in Seq(Stretch) /\ r # << >> /\ r[(n - 1) + 1] = longer
        /\ \A i \in 1 .. n - 1 : r[i] = q[i]
    BY <2>2, <2>3, AppendProperties
  <2> HIDE DEF r
  <2>5. r[1].start <= m /\ m <= r[1].end
    <3>1. CASE n = 1
      <4>1. curr = q[1] /\ r[1] = longer
        BY <2>4, <3>1 DEF curr
      <4>2. curr.start \in Int /\ curr.end \in Int /\ longer.end \in Int
        BY <2>1, <2>2 DEF Stretch
      <4>3. QED
        BY <1>1, <2>2, <4>1, <4>2
    <3>2. CASE n # 1
      <4>1. 1 \in 1 .. n - 1
        BY <1>2, <3>2
      <4>2. QED
        BY <1>1, <2>4, <4>1
    <3>3. QED
      BY <3>1, <3>2
  <2>6. Merge(q, iv) = r
    BY <1>3, Zenon DEF Merge, Last, r, longer, curr
  <2>7. QED
    BY <2>4, <2>5, <2>6 DEF Covering
<1>4. CASE ~(iv.start <= curr.end + 1)
  <2> DEFINE r == Append(q, iv)
  <2>1. r \in Seq(Stretch) /\ r # << >> /\ r[1] = q[1]
    <3>1. 1 \in 1 .. n
      BY <1>2
    <3>2. QED
      BY <1>1, <3>1, AppendProperties
  <2>2. Merge(q, iv) = r
    BY <1>4, Zenon DEF Merge, Last
  <2> HIDE DEF r
  <2>3. QED
    BY <1>1, <2>1, <2>2 DEF Covering
<1>5. QED
  BY <1>3, <1>4

\* Intervals are joined one after another.
JoinsFrom(f, ivs) ==
  /\ f[1] = << ivs[1] >>
  /\ \A k \in 2 .. Len(ivs) : f[k] = Merge(f[k - 1], ivs[k])

LEMMA JoinedUnfolds ==
  ASSUME NEW ivs \in Seq(Stretch), ivs # << >>, NEW V, << ivs[1] >> \in V,
         \A k \in 2 .. Len(ivs), q \in V : Merge(q, ivs[k]) \in V
  PROVE  \E f : /\ JoinsFrom(f, ivs) /\ Joined(ivs) = f[Len(ivs)]
               /\ \A k \in 1 .. Len(ivs) : f[k] \in V
<1> DEFINE N == Len(ivs)
           a == << ivs[1] >>
           Def(g) == [k \in DOMAIN ivs |-> IF k = 1 THEN << ivs[1] >> ELSE Merge(g[k - 1], ivs[k])]
           S == [k \in 2 .. N |-> [q \in V |-> Merge(q, ivs[k])]]
           f == CHOOSE g : g = Def(g)
<1>1. N \in Nat \ {0} /\ DOMAIN ivs = 1 .. N /\ \A k \in 1 .. N : ivs[k] \in Stretch
  BY EmptySeq, ElementOfSeq, LenProperties
<1>2. a \in V
  OBVIOUS
<1>3. ASSUME NEW k \in 2 .. N, NEW q \in V PROVE Merge(q, ivs[k]) \in V
  OBVIOUS
<1> HIDE DEF N
<1>4. \A k \in 2 .. N, q \in V : S[k][q] = Merge(q, ivs[k]) /\ S[k][q] \in V
  BY <1>3
<1> HIDE DEF a
<1>5. PICK h \in [1 .. N -> V] : RunsFromOne(h, N, a, S)
  <2>1. \A k \in 2 .. N, v \in V : S[k][v] \in V
    BY <1>4, Zenon
  <2>2. N \in Nat \ {0} /\ a \in V
    BY <1>1, <1>2
  <2> HIDE DEF S
  <2>3. QED
    BY <2>1, <2>2, RunFromOne
<1>6. h = Def(h)
  <2> HIDE DEF S
  <2>1. ASSUME NEW k \in 1 .. N, k # 1 PROVE S[k][h[k - 1]] = Merge(h[k - 1], ivs[k])
    <3>1. k \in 2 .. N /\ k - 1 \in 1 .. N
      BY <1>1, <2>1
    <3>2. QED
      BY <1>4, <3>1
  <2>2. QED
    BY <1>1, <1>5, <2>1 DEF RunsFromOne, a
<1>7. f = Def(f)
  BY <1>6
<1>8. Joined(ivs) = f[N]
  BY DEF Joined, N
<1> HIDE DEF f
<1>9. \A k \in 1 .. N : f[k] = IF k = 1 THEN << ivs[1] >> ELSE Merge(f[k - 1], ivs[k])
  <2>1. \A k \in DOMAIN ivs : f[k] = IF k = 1 THEN << ivs[1] >> ELSE Merge(f[k - 1], ivs[k])
    BY <1>7, Zenon
  <2>2. QED
    BY <1>1, <2>1
<1> DEFINE G == { k \in 0 .. N : k = 0 \/ f[k] \in V }
<1>10. ASSUME NEW n \in 0 .. N, \A k \in 0 .. N : k < n => k \in G PROVE n \in G
  <2>1. CASE n = 0
    BY <2>1
  <2>2. CASE n = 1
    <3>1. f[1] = << ivs[1] >>
      BY <1>1, <1>9
    <3>2. QED
      BY <1>2, <2>2, <3>1 DEF a
  <2>3. CASE n \notin {0, 1}
    <3>1. n \in 2 .. N /\ n \in 1 .. N /\ n # 1 /\ n - 1 \in 0 .. N /\ n - 1 < n /\ n - 1 # 0
      BY <1>1, <2>3
    <3>2. f[n] = Merge(f[n - 1], ivs[n]) /\ f[n - 1] \in V
      BY <1>9, <1>10, <3>1
    <3>3. QED
      BY <1>3, <3>1, <3>2
  <2>4. QED
    BY <2>1, <2>2, <2>3
<1> HIDE DEF G
<1>11. \A n \in 0 .. N : n \in G
  <2>1. 0 .. N \in SUBSET Nat
    BY <1>1
  <2>2. QED
    BY <1>1, <1>10, <2>1, InductionFromBelow
<1>12. \A k \in 1 .. N : f[k] \in V
  <2>1. \A k \in 1 .. N : k \in 0 .. N /\ k # 0
    BY <1>1
  <2>2. QED
    BY <1>11, <2>1 DEF G
<1>13. JoinsFrom(f, ivs)
  <2>1. 1 \in 1 .. N /\ \A k \in 2 .. N : k \in 1 .. N /\ k # 1
    BY <1>1
  <2>2. QED
    BY <1>9, <2>1 DEF JoinsFrom, N
<1>14. QED
  BY <1>8, <1>12, <1>13 DEF N

\* Intervals of which the first one has line m are joined to such ones.
LEMMA JoinedCovers ==
  ASSUME NEW m \in Int, NEW ivs \in Seq(Stretch), ivs # << >>,
         ivs[1].start <= m, m <= ivs[1].end
  PROVE  Joined(ivs) \in Covering(m)
<1> DEFINE N == Len(ivs)
           V == Covering(m)
<1>1. N \in Nat \ {0} /\ \A k \in 1 .. N : ivs[k] \in Stretch
  BY EmptySeq, ElementOfSeq
<1>2. << ivs[1] >> \in V
  <2> DEFINE a == << ivs[1] >>
  <2>1. ivs[1] \in Stretch
    BY <1>1
  <2>2. a \in Seq(Stretch) /\ a # << >> /\ a[1] = ivs[1]
    BY <2>1
  <2>3. QED
    BY <2>2 DEF Covering
<1>3. \A k \in 2 .. N, q \in V : Merge(q, ivs[k]) \in V
  BY <1>1, MergeCovers
<1> HIDE DEF V
<1>4. \E f : Joined(ivs) = f[N] /\ \A k \in 1 .. N : f[k] \in V
  BY <1>2, <1>3, JoinedUnfolds
<1>5. N \in 1 .. N
  BY <1>1
<1>6. QED
  BY <1>4, <1>5 DEF V

\* The lines of a group.
GroupLine == [n : Int, isMatch : BOOLEAN]

\* A joined interval gives a group, and a match in it is marked there.
LEMMA GroupFacts ==
  ASSUME NEW iv \in Stretch, NEW matches
  PROVE  /\ Group(iv, matches) \in Seq(GroupLine)
         /\ \A m \in Int : m \in ToSet(matches) /\ iv.start <= m /\ m <= iv.end =>
              \E k \in 1 .. Len(Group(iv, matches)) : Group(iv, matches)[k].isMatch
<1> DEFINE n == Greatest(iv.end - iv.start + 1, 0)
           row(k) == [n |-> iv.start + k - 1, isMatch |-> iv.start + k - 1 \in ToSet(matches)]
           G == [k \in 1 .. n |-> row(k)]
<1>1. iv.start \in Int /\ iv.end \in Int
  BY DEF Stretch
<1>2. n \in Nat /\ (iv.start <= iv.end => n = iv.end - iv.start + 1)
  BY <1>1 DEF Greatest
<1>3. Group(iv, matches) = G
  BY DEF Group
<1> HIDE DEF n
<1>4. \A k \in 1 .. n : row(k) \in GroupLine
  BY <1>1, <1>2 DEF GroupLine
<1>5. G \in Seq(GroupLine) /\ Len(G) = n
  <2>1. G \in [1 .. n -> GroupLine]
    BY <1>4
  <2> HIDE DEF G
  <2>2. QED
    BY <1>2, <2>1
<1>6. ASSUME NEW m \in Int, m \in ToSet(matches), iv.start <= m, m <= iv.end
      PROVE  \E k \in 1 .. n : G[k].isMatch
  <2> DEFINE k == m - iv.start + 1
  <2>1. k \in 1 .. n /\ iv.start + k - 1 = m
    BY <1>1, <1>2, <1>6
  <2> HIDE DEF k
  <2>2. G[k].isMatch
    BY <1>6, <2>1
  <2>3. QED
    BY <2>1, <2>2
<1> HIDE DEF G
<1>7. QED
  BY <1>3, <1>5, <1>6

\* A match whose context ends within the numbers is shown.
LEMMA ContextShowsMatch ==
  ASSUME NEW total \in Nat, NEW c, IsConfig(c), NEW matches \in Seq(1 .. total),
         matches # << >>, matches[1] + c.after <= MaxInt
  PROVE  /\ FlattenSeq(ContextGroups(matches, total, c)) \in Seq(GroupLine)
         /\ \E k \in 1 .. Len(FlattenSeq(ContextGroups(matches, total, c))) :
              FlattenSeq(ContextGroups(matches, total, c))[k].isMatch
<1> DEFINE ivs == [i \in DOMAIN matches |-> Interval(matches[i], total, c)]
           m == matches[1]
<1>1. MaxInt \in Nat /\ c.before \in Nat /\ c.after \in Nat
  BY IntervalAssumption DEF IsConfig
<1>2. /\ Len(matches) \in Nat \ {0} /\ DOMAIN matches = 1 .. Len(matches)
      /\ \A i \in 1 .. Len(matches) : matches[i] \in 1 .. total
  BY EmptySeq, LenProperties, ElementOfSeq
<1>3. 1 \in 1 .. Len(matches) /\ m \in 1 .. total /\ m \in ToSet(matches)
  <2>1. 1 \in 1 .. Len(matches)
    BY <1>2
  <2>2. QED
    BY <1>2, <2>1 DEF ToSet
<1>4. ASSUME NEW n \in 1 .. total PROVE Interval(n, total, c) \in Stretch
  <2>1. Plus(n, c.after) \in Int
    BY <1>1 DEF Plus
  <2>2. QED
    BY <1>1, <2>1 DEF Interval, Stretch, Greatest, Least
<1>5. ivs \in Seq(Stretch) /\ ivs # << >> /\ ivs[1] = Interval(m, total, c)
  <2>1. ivs \in [1 .. Len(matches) -> Stretch]
    BY <1>2, <1>4
  <2>2. ivs[1] = Interval(m, total, c)
    BY <1>2, <1>3
  <2> HIDE DEF ivs
  <2>3. ivs \in Seq(Stretch) /\ Len(ivs) = Len(matches)
    BY <1>2, <2>1
  <2>4. QED
    BY <1>2, <2>2, <2>3, EmptySeq
<1>6. ivs[1].start <= m /\ m <= ivs[1].end
  <2>1. Plus(m, c.after) = m + c.after
    BY <1>1, <1>3 DEF Plus
  <2>2. Interval(m, total, c).start <= m /\ m <= Interval(m, total, c).end
    BY <1>1, <1>3, <2>1 DEF Interval, Greatest, Least
  <2> HIDE DEF ivs, m
  <2>3. QED
    BY <1>5, <2>2
<1> DEFINE joined == Joined(ivs)
           groups == [g \in DOMAIN joined |-> Group(joined[g], matches)]
<1>7. joined \in Covering(m)
  <2>1. m \in Int
    BY <1>3
  <2> HIDE DEF ivs, m
  <2>2. QED
    BY <1>5, <1>6, <2>1, JoinedCovers
<1>8. ContextGroups(matches, total, c) = groups
  BY DEF ContextGroups
<1> HIDE DEF joined
<1>9. /\ Len(joined) \in Nat \ {0} /\ DOMAIN joined = 1 .. Len(joined)
      /\ \A g \in 1 .. Len(joined) : joined[g] \in Stretch
      /\ joined[1].start <= m /\ m <= joined[1].end
  <2>1. joined \in Seq(Stretch) /\ joined # << >> /\ joined[1].start <= m /\ m <= joined[1].end
    BY <1>7 DEF Covering
  <2>2. QED
    BY <2>1, EmptySeq, LenProperties, ElementOfSeq
<1>10. 1 \in 1 .. Len(joined)
  BY <1>9
<1>11. groups \in Seq(Seq(GroupLine)) /\ groups # << >> /\ groups[1] = Group(joined[1], matches)
  <2>1. groups \in [1 .. Len(joined) -> Seq(GroupLine)]
    BY <1>9, GroupFacts
  <2>2. groups[1] = Group(joined[1], matches)
    BY <1>9, <1>10
  <2> HIDE DEF groups
  <2>3. groups \in Seq(Seq(GroupLine)) /\ Len(groups) = Len(joined)
    BY <1>9, <2>1, IsASeq, LenProperties
  <2>4. QED
    BY <1>9, <2>2, <2>3, EmptySeq
<1>12. PICK k \in 1 .. Len(groups[1]) : groups[1][k].isMatch
  <2>1. m \in Int /\ joined[1] \in Stretch
    BY <1>3, <1>9, <1>10
  <2> HIDE DEF m, groups
  <2>2. QED
    BY <1>3, <1>9, <1>11, <2>1, GroupFacts
<1> HIDE DEF groups
<1>13. QED
  BY <1>8, <1>11, <1>12, FlattenBegins

\* The numbers of n lines.
LineNumbers(n) == [i \in 1 .. n |-> i]

\* What there is to pick from n lines, at positions P.
LEMMA PickedLines ==
  ASSUME NEW n \in Nat, NEW P \in SUBSET (1 .. n), NEW q, q = Picked(LineNumbers(n), P)
  PROVE  /\ q \in Seq(1 .. n)
         /\ q = << >> <=> P = {}
         /\ q # << >> => q[1] \in P /\ \A i \in P : q[1] <= i
<1> DEFINE s == LineNumbers(n)
<1>1. s \in Seq(1 .. n) /\ Len(s) = n /\ \A i \in 1 .. n : s[i] = i
  BY DEF LineNumbers
<1>2. q \in Seq(1 .. n) /\ HasPicked(q, s, P, Len(s))
  <2>1. q = Picked(s, P)
    OBVIOUS
  <2> HIDE DEF s
  <2>2. QED
    BY <1>1, <2>1, PickedFacts
<1> HIDE DEF s
<1>3. q # << >> => P # {}
  <2>1. q # << >> => 1 \in 1 .. Len(q)
    BY <1>2, EmptySeq
  <2>2. QED
    BY <1>2, <2>1 DEF HasPicked
<1>4. ASSUME P # {} PROVE q # << >> /\ q[1] \in P /\ \A i \in P : q[1] <= i
  <2>1. P \in SUBSET Nat
    OBVIOUS
  <2>2. PICK l \in P : \A i \in P : l <= i
    BY <1>4, <2>1, LeastElement
  <2>3. l \in 1 .. n /\ \A j \in 1 .. l - 1 : j \notin P
    BY <2>1, <2>2
  <2>4. q # << >> /\ q[1] = s[l]
    BY <1>1, <1>2, <2>2, <2>3 DEF HasPicked
  <2>5. QED
    BY <1>1, <2>2, <2>3, <2>4
<1>5. QED
  BY <1>2, <1>3, <1>4

\* What MatchBlob finds, against the lines that are wanted.
LEMMA MatchBlobFacts ==
  ASSUME NEW b, IsBlob(b), IsConfig(cfg)
  PROVE  /\ MatchBlob(b, cfg) \in Seq(1 .. Len(b.lines))
         /\ MatchBlob(b, cfg) = << >> <=> Wanted(b) = {}
         /\ MatchBlob(b, cfg) # << >> => MatchBlob(b, cfg)[1] \in Wanted(b)
<1> DEFINE n == Len(b.lines)
           P == { i \in DOMAIN b.lines : b.lines[i] # cfg.invert }
           all == Picked([i \in DOMAIN b.lines |-> i], P)
           few == IF cfg.max > 0 /\ cfg.max < Len(all) THEN SubSeq(all, 1, cfg.max) ELSE all
           counted(i) == { j \in P : j <= i }
           chosen == { i \in P : cfg.max = 0 \/ Cardinality(counted(i)) <= cfg.max }
<1>1. n \in Nat /\ DOMAIN b.lines = 1 .. n /\ P \in SUBSET (1 .. n)
  BY LenProperties DEF IsBlob
<1>2. cfg.max \in Nat /\ b.raw \in BOOLEAN /\ cfg.invert \in BOOLEAN
  BY IntervalAssumption DEF IsConfig, IsBlob
<1>3. MatchBlob(b, cfg) = IF IsPassedOver(b) THEN << >> ELSE few
  <2>1. ~cfg.invert /\ ~MatchBytes(b, cfg) <=> IsPassedOver(b)
    BY <1>2 DEF MatchBytes, IsPassedOver
  <2>2. MatchLines(b, cfg) = few
    BY DEF MatchLines
  <2> HIDE DEF few
  <2>3. QED
    BY <2>1, <2>2 DEF MatchBlob
<1>4. Wanted(b) = IF IsPassedOver(b) THEN {} ELSE chosen
  BY DEF Wanted
<1>5. /\ all \in Seq(1 .. n)
      /\ all = << >> <=> P = {}
      /\ all # << >> => all[1] \in P /\ \A i \in P : all[1] <= i
  <2>1. all = Picked(LineNumbers(n), P)
    BY <1>1 DEF LineNumbers
  <2> HIDE DEF all, P, n
  <2>2. QED
    BY <1>1, <2>1, PickedLines
<1> HIDE DEF all, P, n
<1>6. few \in Seq(1 .. n) /\ (few = << >> <=> all = << >>) /\ (few # << >> => few[1] = all[1])
  <2>1. Len(all) \in Nat /\ \A i \in 1 .. Len(all) : all[i] \in 1 .. n
    BY <1>5, LenProperties, ElementOfSeq
  <2>2. CASE cfg.max > 0 /\ cfg.max < Len(all)
    <3> DEFINE k == cfg.max
               r == SubSeq(all, 1, k)
    <3>1. k \in Nat /\ 1 <= k /\ k - 1 + 1 = k /\ \A i \in 1 .. k : i \in 1 .. Len(all)
      BY <1>2, <2>1, <2>2
    <3>2. \A i \in 1 .. k : all[i] \in 1 .. n
      BY <2>1, <3>1
    <3> HIDE DEF k
    <3>3. /\ r \in Seq(1 .. n) /\ Len(r) = IF 1 <= k THEN k - 1 + 1 ELSE 0
          /\ \A i \in 1 .. k - 1 + 1 : r[i] = all[1 + i - 1]
      BY <3>1, <3>2, SubSeqProperties
    <3>4. Len(r) = k /\ r[1] = all[1]
      BY <3>1, <3>3
    <3>5. few = r
      BY <2>2 DEF k
    <3> HIDE DEF r
    <3>6. r # << >> /\ all # << >>
      BY <2>1, <2>2, <1>2, <3>1, <3>4, EmptySeq DEF k
    <3>7. QED
      BY <3>3, <3>4, <3>5, <3>6
  <2>3. CASE ~(cfg.max > 0 /\ cfg.max < Len(all))
    BY <1>5, <2>3
  <2>4. QED
    BY <2>2, <2>3
<1> HIDE DEF few
<1>7. all # << >> => all[1] \in chosen
  <2> SUFFICES ASSUME all # << >> PROVE all[1] \in chosen
    OBVIOUS
  <2> DEFINE l == all[1]
  <2>1. l \in P /\ \A i \in P : l <= i
    BY <1>5
  <2> HIDE DEF l
  <2>2. counted(l) = {l}
    <3>1. \A j \in P : j \in 1 .. n /\ (j <= l => j = l)
      BY <1>1, <2>1
    <3>2. QED
      BY <1>1, <2>1, <3>1
  <2>3. Cardinality(counted(l)) = 1
    BY <2>2, FS_Singleton
  <2> HIDE DEF counted
  <2>4. cfg.max = 0 \/ Cardinality(counted(l)) <= cfg.max
    BY <1>2, <2>3
  <2>5. QED
    BY <2>1, <2>4 DEF l
<1>8. chosen \subseteq P
  OBVIOUS
<1> HIDE DEF chosen
<1>9. IsPassedOver(b) => Wanted(b) = {} /\ MatchBlob(b, cfg) = << >>
  BY <1>3, <1>4
<1>10. ~IsPassedOver(b) => Wanted(b) = chosen /\ MatchBlob(b, cfg) = few
  BY <1>3, <1>4
<1>11. << >> \in Seq(1 .. n)
  BY EmptySeq
<1>12. few \in Seq(1 .. n) /\ (few = << >> <=> chosen = {}) /\ (few # << >> => few[1] \in chosen)
  BY <1>5, <1>6, <1>7, <1>8
<1>13. CASE IsPassedOver(b)
  BY <1>9, <1>11, <1>13 DEF n
<1>14. CASE ~IsPassedOver(b)
  <2>1. Wanted(b) = chosen /\ MatchBlob(b, cfg) = few
    BY <1>10, <1>14
  <2>2. few \in Seq(1 .. Len(b.lines))
    BY <1>12 DEF n
  <2>3. QED
    BY <1>12, <2>1, <2>2
<1>15. QED
  BY <1>13, <1>14

\* Groups without a match leave nothing to pick.
LEMMA NothingFromNothing ==
  ASSUME NEW total, NEW c, NEW matches, matches = << >>
  PROVE  Picked(FlattenSeq(ContextGroups(matches, total, c)),
                { k \in DOMAIN FlattenSeq(ContextGroups(matches, total, c)) :
                    FlattenSeq(ContextGroups(matches, total, c))[k].isMatch }) = << >>
<1>1. ContextGroups(matches, total, c) = << >>
  BY DEF ContextGroups
<1>2. FlattenSeq(<< >>) = << >>
  BY EmptySeq DEF FlattenSeq
<1> DEFINE s == FlattenSeq(ContextGroups(matches, total, c))
           P == { k \in DOMAIN s : s[k].isMatch }
<1>3. s = << >>
  BY <1>1, <1>2
<1> HIDE DEF s
<1>4. s \in Seq(Int) /\ Len(s) = 0
  BY <1>3, EmptySeq
<1> HIDE DEF P
<1>5. Picked(s, P) \in Seq(Int) /\ HasPicked(Picked(s, P), s, P, Len(s))
  BY <1>4, PickedFacts
<1>6. \A m \in 1 .. Len(Picked(s, P)) : FALSE
  BY <1>4, <1>5 DEF HasPicked
<1>7. Picked(s, P) = << >>
  BY <1>5, <1>6, EmptySeq
<1>8. QED
  BY <1>7 DEF P, s

\* What a task finds in a blob that is not binary.
LEMMA TextTask ==
  ASSUME NEW b, IsBlob(b), IsConfig(cfg), ~IsBinary(b)
  PROVE  /\ ProcessTask(<< >>, b, cfg).isBinary = FALSE
         /\ ProcessTask(<< >>, b, cfg).matches # << >> => Wanted(b) # {}
         /\ (HasContext(cfg) => ~Overflows(b)) /\ Wanted(b) # {} =>
              ProcessTask(<< >>, b, cfg).matches # << >>
<1> DEFINE matches == MatchBlob(b, cfg)
           groups == ContextGroups(matches, Len(b.lines), cfg)
           shown == FlattenSeq(groups)
           P == { k \in DOMAIN shown : shown[k].isMatch }
           marked == Picked(shown, P)
           numbers == [i \in DOMAIN marked |-> marked[i].n]
           task == ProcessTask(<< >>, b, cfg)
<1>1. task = IF HasContext(cfg)
             THEN [occs |-> << >>, matches |-> numbers, groups |-> groups, isBinary |-> FALSE]
             ELSE [occs |-> << >>, matches |-> matches, groups |-> << >>, isBinary |-> FALSE]
  BY DEF ProcessTask, IsBinary, Those
<1>2. /\ matches \in Seq(1 .. Len(b.lines))
      /\ matches = << >> <=> Wanted(b) = {}
      /\ matches # << >> => matches[1] \in Wanted(b)
  BY MatchBlobFacts
<1>3. Len(b.lines) \in Nat
  BY LenProperties DEF IsBlob
<1>4. matches = << >> => marked = << >>
  BY NothingFromNothing
<1>5. ASSUME HasContext(cfg) => ~Overflows(b), matches # << >>, HasContext(cfg)
      PROVE  marked \in Seq(GroupLine) /\ marked # << >>
  <2>1. matches[1] + cfg.after <= MaxInt
    <3>1. matches[1] \in Wanted(b) /\ ~Overflows(b)
      BY <1>2, <1>5
    <3>2. Wanted(b) \subseteq DOMAIN b.lines
      BY DEF Wanted
    <3>3. matches[1] \in Int /\ cfg.after \in Int /\ MaxInt \in Int
      <4>1. matches[1] \in 1 .. Len(b.lines)
        BY <3>1, <3>2, LenProperties DEF IsBlob
      <4>2. QED
        BY <4>1, IntervalAssumption DEF IsConfig
    <3>4. ~(matches[1] + cfg.after > MaxInt)
      BY <3>1 DEF Overflows
    <3> HIDE DEF matches
    <3>5. QED
      BY <3>3, <3>4
  <2> HIDE DEF matches
  <2>2. shown \in Seq(GroupLine) /\ \E k \in 1 .. Len(shown) : shown[k].isMatch
    BY <1>2, <1>3, <1>5, <2>1, ContextShowsMatch
  <2> HIDE DEF shown
  <2>3. PICK k \in 1 .. Len(shown) : k \in P
    BY <2>2, LenProperties
  <2> HIDE DEF P
  <2>4. marked \in Seq(GroupLine) /\ HasPicked(marked, shown, P, Len(shown))
    BY <2>2, PickedFacts
  <2> HIDE DEF marked
  <2>5. \E m \in 1 .. Len(marked) : marked[m] = shown[k]
    BY <2>3, <2>4 DEF HasPicked
  <2>6. QED
    BY <2>4, <2>5, EmptySeq
<1>6. marked = << >> => numbers = << >>
  <2> SUFFICES ASSUME marked = << >> PROVE numbers = << >>
    OBVIOUS
  <2>1. DOMAIN marked = 1 .. 0
    BY EmptySeq, LenProperties
  <2>2. numbers \in [1 .. 0 -> Int]
    BY <2>1
  <2> HIDE DEF numbers
  <2>3. numbers \in Seq(Int) /\ Len(numbers) = 0
    BY <2>2
  <2>4. QED
    BY <2>3, EmptySeq
<1>7. ASSUME NEW q \in Seq(GroupLine), q # << >> PROVE [i \in DOMAIN q |-> q[i].n] # << >>
  <2>1. 1 \in DOMAIN q
    BY <1>7, EmptySeq, LenProperties
  <2>2. 1 \notin DOMAIN << >>
    OBVIOUS
  <2>3. QED
    BY <2>1, <2>2
<1>8. ASSUME HasContext(cfg) => ~Overflows(b), matches # << >>, HasContext(cfg) PROVE numbers # << >>
  <2>1. marked \in Seq(GroupLine) /\ marked # << >>
    BY <1>5, <1>8
  <2> HIDE DEF marked
  <2>2. QED
    BY <1>7, <2>1
<1> HIDE DEF matches, groups, marked, numbers
<1>9. QED
  BY <1>1, <1>2, <1>4, <1>6, <1>8

\* The pipeline is silent about blobs without a match, unless context overflows.
LEMMA SilentMeansNoMatch ==
  ASSUME NEW b, IsBlob(b), IsConfig(cfg), HasContext(cfg) => ~Overflows(b),
         ResultKind(b, cfg) = "silent"
  PROVE  ~HasMatch(b)
<1> DEFINE task == ProcessTask(<< >>, b, cfg)
<1>1. task.matches = << >> /\ ~task.isBinary
  BY DEF ResultKind
<1>2. CASE IsBinary(b)
  BY <1>1, <1>2 DEF IsBinary, ProcessTask, MatchBytes, HasMatch
<1>3. CASE ~IsBinary(b)
  <2>1. Wanted(b) = {}
    BY <1>1, <1>3, TextTask
  <2>2. QED
    BY <1>3, <2>1 DEF HasMatch
<1>4. QED
  BY <1>2, <1>3

\* What it reports as a match is one.
LEMMA HitMeansMatch ==
  ASSUME NEW b, IsBlob(b), IsConfig(cfg), ResultKind(b, cfg) = "hit"
  PROVE  HasMatch(b)
<1> DEFINE task == ProcessTask(<< >>, b, cfg)
<1>1. task.matches # << >> \/ task.isBinary
  BY DEF ResultKind
<1>2. CASE IsBinary(b)
  BY <1>1, <1>2 DEF IsBinary, ProcessTask, MatchBytes, HasMatch
<1>3. CASE ~IsBinary(b)
  <2>1. Wanted(b) # {}
    BY <1>1, <1>3, TextTask
  <2>2. QED
    BY <1>3, <2>1 DEF HasMatch
<1>4. QED
  BY <1>2, <1>3

-----------------------------------------------------------------------------
(* What the tasks yield, and what the occurrences have.                    *)

\* Every occurrence is among those of some task, and every task has one.
LEMMA TasksCover ==
  ASSUME NEW X, NEW occs \in Seq(X)
  PROVE  /\ DOMAIN Tasks(occs) = 1 .. Len(Tasks(occs)) /\ Len(Tasks(occs)) \in Nat
         /\ \A o \in ToSet(occs) : \E j \in DOMAIN Tasks(occs) : Tasks(occs)[j].oid = o.blob
         /\ \A j \in DOMAIN Tasks(occs) : \E o \in ToSet(occs) : Tasks(occs)[j].oid = o.blob
<1> DEFINE P == { i \in DOMAIN occs : \A j \in 1 .. i - 1 : occs[j].blob # occs[i].blob }
           firsts == Picked(occs, P)
           task(i) == [oid  |-> firsts[i].blob,
                       occs |-> Those(occs, LAMBDA o : o.blob = firsts[i].blob)]
<1>1. Tasks(occs) = [i \in DOMAIN firsts |-> task(i)]
  BY DEF Tasks, Firsts
<1>2. DOMAIN occs = 1 .. Len(occs) /\ Len(occs) \in Nat
  BY LenProperties
<1>3. P \subseteq 1 .. Len(occs)
  BY <1>2
<1>4. ASSUME NEW k \in 1 .. Len(occs) PROVE \E i \in P : occs[i].blob = occs[k].blob
  <2> DEFINE T == { i \in 1 .. Len(occs) : occs[i].blob = occs[k].blob }
  <2>1. T \in SUBSET Nat /\ T # {}
    OBVIOUS
  <2>2. PICK i \in T : \A j \in T : i <= j
    <3> HIDE DEF T
    <3>1. QED
      BY <2>1, LeastElement
  <2>3. ASSUME NEW j \in 1 .. i - 1 PROVE occs[j].blob # occs[i].blob
    <3>1. j \in 1 .. Len(occs) /\ ~(i <= j)
      BY <1>2
    <3>2. j \notin T
      BY <2>2, <3>1
    <3>3. QED
      BY <3>1, <3>2
  <2>4. i \in P
    BY <1>2, <2>3
  <2>5. QED
    BY <2>4
<1> HIDE DEF P
<1>5. firsts \in Seq(X) /\ HasPicked(firsts, occs, P, Len(occs))
  BY PickedFacts
<1> HIDE DEF firsts
<1>6. DOMAIN firsts = 1 .. Len(firsts) /\ Len(firsts) \in Nat
  BY <1>5, LenProperties
<1>7. DOMAIN Tasks(occs) = 1 .. Len(firsts)
  BY <1>1, <1>6
<1>8. \A j \in 1 .. Len(firsts) : Tasks(occs)[j].oid = firsts[j].blob
  BY <1>1, <1>6
<1>9. Len(Tasks(occs)) = Len(firsts)
  BY <1>6, <1>7
<1>10. ASSUME NEW o \in ToSet(occs)
       PROVE  \E j \in DOMAIN Tasks(occs) : Tasks(occs)[j].oid = o.blob
  <2>1. PICK k \in 1 .. Len(occs) : o = occs[k]
    BY <1>2 DEF ToSet
  <2>2. PICK i \in P : occs[i].blob = occs[k].blob
    BY <1>4
  <2>3. PICK j \in 1 .. Len(firsts) : firsts[j] = occs[i]
    BY <1>3, <1>5 DEF HasPicked
  <2>4. QED
    BY <1>7, <1>8, <2>1, <2>2, <2>3
<1>11. ASSUME NEW j \in DOMAIN Tasks(occs)
       PROVE  \E o \in ToSet(occs) : Tasks(occs)[j].oid = o.blob
  <2>1. PICK i \in 1 .. Len(occs) : firsts[j] = occs[i]
    BY <1>5, <1>7 DEF HasPicked
  <2>2. occs[i] \in ToSet(occs)
    BY <1>2 DEF ToSet
  <2>3. QED
    BY <1>7, <1>8, <2>1, <2>2
<1>12. QED
  BY <1>6, <1>7, <1>9, <1>10, <1>11

\* What is asked is given at the start, and so is what each task yields.
GivenInv ==
  /\ in \in Input
  /\ jobOrder = [i \in DOMAIN Tasks(in.occs) |->
                   ResultKind(in.hist.blob[Tasks(in.occs)[i].oid], cfg)]

\* No step changes what is given.
LEMMA NextGiven == ASSUME [Next]_vars PROVE UNCHANGED << in, jobOrder >>
<1>1. CASE SearchStep
  BY <1>1 DEF SearchStep, Search!Deliver, Search!PublishFatal, Search!PublishCancelled,
              Search!Close, Search!CloseCancelled
<1>2. CASE Interrupt
  BY <1>2 DEF Interrupt, Search!CallerCancel
<1>3. CASE \/ SetUp \/ PrintInfo \/ CheckCtx \/ Walk \/ CountOccurrences \/ EndOfResults
           \/ ReceiveErr \/ ReportSkipped \/ Emit \/ RenderBoundary \/ RenderItem
           \/ RenderFails \/ RenderDone \/ Exit \/ ReleaseHandler
  BY <1>3 DEF SetUp, PrintInfo, CheckCtx, Walk, CountOccurrences, EndOfResults, ReceiveErr,
              ReportSkipped, Emit, RenderBoundary, RenderItem, RenderFails, RenderDone,
              Exit, ReleaseHandler, given
<1>4. CASE Ended \/ UNCHANGED vars
  BY <1>4 DEF Ended, vars, given
<1>5. QED
  BY <1>1, <1>2, <1>3, <1>4 DEF Next, Main

LEMMA AlwaysGivenInv == Spec => []GivenInv
<1>1. Init => GivenInv
  BY DEF Init, GivenInv, cfg
<1>2. GivenInv /\ [Next]_vars => GivenInv'
  <2> SUFFICES ASSUME GivenInv, [Next]_vars PROVE GivenInv'
    OBVIOUS
  <2>1. in' = in /\ jobOrder' = jobOrder
    BY NextGiven
  <2>2. QED
    BY <2>1 DEF GivenInv, cfg
<1>3. QED
  BY <1>1, <1>2, PTL DEF Spec

\* What is known of the input and of each task.
LEMMA TaskFacts ==
  ASSUME GivenInv
  PROVE  /\ IsConfig(cfg)
         /\ \A o \in ToSet(in.occs) : IsBlob(Blob(o))
         /\ \A o \in ToSet(in.occs) : \E j \in Search!Job : jobOrder[j] = ResultKind(Blob(o), cfg)
         /\ \A j \in Search!Job : \E o \in ToSet(in.occs) : jobOrder[j] = ResultKind(Blob(o), cfg)
<1>1. IsInput(in)
  BY InputAssumption DEF GivenInv
<1> DEFINE X == [path : Nat, commit : DOMAIN in.hist.date, blob : DOMAIN in.hist.blob]
<1>2. /\ in.occs \in Seq(X) /\ IsConfig(cfg)
      /\ \A o \in ToSet(in.occs) : IsBlob(Blob(o))
  <2>1. in.occs \in Seq(X) /\ IsConfig(cfg)
    BY <1>1 DEF IsInput, cfg
  <2>2. \A o \in ToSet(in.occs) : o \in X
    <3> HIDE DEF X
    <3>1. QED
      BY <2>1, LenProperties, ElementOfSeq DEF ToSet
  <2>3. QED
    BY <1>1, <2>1, <2>2 DEF IsInput, Blob
<1> HIDE DEF X
<1> DEFINE tasks == Tasks(in.occs)
<1>3. /\ DOMAIN tasks = 1 .. Len(tasks) /\ Len(tasks) \in Nat
      /\ \A o \in ToSet(in.occs) : \E j \in DOMAIN tasks : tasks[j].oid = o.blob
      /\ \A j \in DOMAIN tasks : \E o \in ToSet(in.occs) : tasks[j].oid = o.blob
  BY <1>2, TasksCover
<1>4. jobOrder = [i \in DOMAIN tasks |-> ResultKind(in.hist.blob[tasks[i].oid], cfg)]
  BY DEF GivenInv
<1> HIDE DEF tasks
<1>5. Search!Job = DOMAIN tasks
  BY <1>3, <1>4 DEF Search!Job
<1>6. \A j \in DOMAIN tasks : jobOrder[j] = ResultKind(in.hist.blob[tasks[j].oid], cfg)
  BY <1>4
<1>7. QED
  BY <1>2, <1>3, <1>5, <1>6 DEF Blob

\* What has a match has something to be printed.
LEMMA MatchIsFound ==
  ASSUME NEW o, IsBlob(Blob(o)), IsConfig(cfg), HasMatch(Blob(o))
  PROVE  Finds(o) # {}
<1> DEFINE b == Blob(o)
<1>1. CASE cfg.mode \in {"names", "count"}
  BY <1>1 DEF Finds
<1>2. CASE cfg.mode \notin {"names", "count"} /\ IsBinary(b)
  BY <1>2 DEF Finds
<1>3. CASE cfg.mode \notin {"names", "count"} /\ ~IsBinary(b)
  <2>1. PICK n : n \in Wanted(b)
    BY <1>3 DEF HasMatch
  <2>2. n \in DOMAIN b.lines
    BY <2>1 DEF Wanted
  <2>3. n \in Int
    BY <2>2, LenProperties DEF IsBlob
  <2>4. cfg.before \in Nat /\ cfg.after \in Nat
    BY IntervalAssumption DEF IsConfig
  <2>5. n - cfg.before <= n /\ n <= n + cfg.after
    BY <2>3, <2>4
  <2>6. IsNear(b, n)
    BY <2>1, <2>5 DEF IsNear
  <2>7. QED
    BY <1>3, <2>2, <2>6 DEF Finds
<1>4. QED
  BY <1>1, <1>2, <1>3

-----------------------------------------------------------------------------
(* The elements of a sequence, and the first of those that are alike.      *)

\* The elements of a sequence.
LEMMA ToSetFacts ==
  ASSUME NEW X, NEW s \in Seq(X)
  PROVE  /\ DOMAIN s = 1 .. Len(s) /\ Len(s) \in Nat
         /\ \A i \in 1 .. Len(s) : s[i] \in X /\ s[i] \in ToSet(s)
         /\ \A x \in ToSet(s) : x \in X /\ \E i \in 1 .. Len(s) : x = s[i]
BY LenProperties, ElementOfSeq DEF ToSet

\* One sequence after another has the elements of both.
LEMMA ConcatElements ==
  ASSUME NEW X, NEW p \in Seq(X), NEW r \in Seq(X)
  PROVE  p \o r \in Seq(X) /\ ToSet(p \o r) = ToSet(p) \cup ToSet(r)
<1> DEFINE pr == p \o r
<1>1. /\ pr \in Seq(X) /\ Len(pr) = Len(p) + Len(r)
      /\ \A i \in 1 .. Len(p) + Len(r) : pr[i] = IF i <= Len(p) THEN p[i] ELSE r[i - Len(p)]
  BY ConcatProperties
<1> HIDE DEF pr
<1>2. Len(p) \in Nat /\ Len(r) \in Nat
  OBVIOUS
<1>3. pr \in Seq(X)
  BY <1>1
<1>4. ASSUME NEW x \in ToSet(pr) PROVE x \in ToSet(p) \cup ToSet(r)
  <2>1. PICK i \in 1 .. Len(pr) : x = pr[i]
    BY <1>3, ToSetFacts
  <2>2. CASE i <= Len(p)
    <3>1. i \in 1 .. Len(p) /\ x = p[i]
      BY <1>1, <1>2, <2>1, <2>2
    <3>2. QED
      BY <3>1, ToSetFacts
  <2>3. CASE ~(i <= Len(p))
    <3>1. i - Len(p) \in 1 .. Len(r) /\ x = r[i - Len(p)]
      BY <1>1, <1>2, <2>1, <2>3
    <3>2. QED
      BY <3>1, ToSetFacts
  <2>4. QED
    BY <2>2, <2>3
<1>5. ASSUME NEW x \in ToSet(p) PROVE x \in ToSet(pr)
  <2>1. PICK i \in 1 .. Len(p) : x = p[i]
    BY ToSetFacts
  <2>2. i \in 1 .. Len(pr) /\ i \in 1 .. Len(p) + Len(r) /\ i <= Len(p)
    BY <1>1, <1>2
  <2>3. pr[i] = x
    BY <1>1, <2>1, <2>2
  <2>4. QED
    BY <1>3, <2>2, <2>3, ToSetFacts
<1>6. ASSUME NEW x \in ToSet(r) PROVE x \in ToSet(pr)
  <2>1. PICK i \in 1 .. Len(r) : x = r[i]
    BY ToSetFacts
  <2> DEFINE m == Len(p) + i
  <2>2. m \in 1 .. Len(pr) /\ m \in 1 .. Len(p) + Len(r) /\ ~(m <= Len(p)) /\ m - Len(p) = i
    BY <1>1, <1>2
  <2> HIDE DEF m
  <2>3. pr[m] = x
    BY <1>1, <2>1, <2>2
  <2>4. QED
    BY <1>3, <2>2, <2>3, ToSetFacts
<1>7. QED
  BY <1>1, <1>4, <1>5, <1>6 DEF pr

\* The elements that are picked are those at the positions.
LEMMA PickedElements ==
  ASSUME NEW X, NEW s \in Seq(X), NEW P \in SUBSET DOMAIN s
  PROVE  /\ Picked(s, P) \in Seq(X)
         /\ ToSet(Picked(s, P)) = { s[i] : i \in P }
<1> DEFINE q == Picked(s, P)
<1>1. q \in Seq(X) /\ HasPicked(q, s, P, Len(s))
  BY PickedFacts
<1>2. DOMAIN s = 1 .. Len(s)
  BY LenProperties
<1> HIDE DEF q
<1>3. ASSUME NEW x \in ToSet(q) PROVE \E i \in P : x = s[i]
  <2>1. PICK m \in 1 .. Len(q) : x = q[m]
    BY <1>1, ToSetFacts
  <2>2. QED
    BY <1>1, <2>1 DEF HasPicked
<1>4. ASSUME NEW i \in P PROVE s[i] \in ToSet(q)
  <2>1. PICK m \in 1 .. Len(q) : q[m] = s[i]
    BY <1>1, <1>2 DEF HasPicked
  <2>2. QED
    BY <1>1, <2>1, ToSetFacts
<1>5. QED
  BY <1>1, <1>3, <1>4 DEF q

\* The positions of elements that come after none that E relates to them.
AreFirsts(P, s, E) ==
  /\ P \in SUBSET DOMAIN s
  /\ \A i \in DOMAIN s : i \in P <=> \A j \in 1 .. i - 1 : << s[j], s[i] >> \notin E

Transitive(E, X) == \A x, y, z \in X : << x, y >> \in E /\ << y, z >> \in E => << x, z >> \in E
Symmetric(E, X)  == \A x, y \in X : << x, y >> \in E => << y, x >> \in E

\* Every element of a sequence is one of another's or comes after one of them.
Represents(p, s, E) == \A x \in ToSet(s) : \E y \in ToSet(p) : y = x \/ << y, x >> \in E

(***************************************************************************)
(* Of the elements related by E, which is transitive, the first ones are   *)
(* picked: each element has been picked or comes after one related to it.  *)
(***************************************************************************)
LEMMA FirstsRepresent ==
  ASSUME NEW X, NEW s \in Seq(X), NEW E,
         Transitive(E, X), NEW P, AreFirsts(P, s, E)
  PROVE  Represents(Picked(s, P), s, E)
<1>1. /\ DOMAIN s = 1 .. Len(s) /\ Len(s) \in Nat
      /\ \A i \in 1 .. Len(s) : s[i] \in X
  BY ToSetFacts
<1>2. P \in SUBSET DOMAIN s
  BY DEF AreFirsts
<1> SUFFICES ASSUME NEW k \in 1 .. Len(s)
             PROVE  \E i \in P : s[i] = s[k] \/ << s[i], s[k] >> \in E
  <2>1. ToSet(Picked(s, P)) = { s[i] : i \in P }
    BY <1>2, PickedElements
  <2>2. \A x \in ToSet(s) : \E i \in 1 .. Len(s) : x = s[i]
    BY ToSetFacts
  <2>3. \A i \in P : s[i] \in ToSet(Picked(s, P))
    BY <2>1
  <2>4. ASSUME NEW x \in ToSet(s)
        PROVE  \E y \in ToSet(Picked(s, P)) : y = x \/ << y, x >> \in E
    <3>1. PICK k \in 1 .. Len(s) : x = s[k]
      BY <2>2
    <3>2. PICK i \in P : s[i] = s[k] \/ << s[i], s[k] >> \in E
      OBVIOUS
    <3>3. s[i] = x \/ << s[i], x >> \in E
      BY <3>1, <3>2, Zenon
    <3>4. QED
      BY <2>3, <3>3, Zenon
  <2>5. QED
    BY <2>4 DEF Represents
<1> DEFINE T == { i \in 1 .. Len(s) : i = k \/ << s[i], s[k] >> \in E }
<1>3. PICK i \in T : \A j \in T : i <= j
  <2>1. T \in SUBSET Nat
    BY <1>1
  <2>2. k \in T
    BY <1>1
  <2> HIDE DEF T
  <2>3. QED
    BY <2>1, <2>2, LeastElement
<1>4. ASSUME NEW j \in 1 .. i - 1 PROVE << s[j], s[i] >> \notin E
  <2>1. j \in 1 .. Len(s) /\ ~(i <= j)
    BY <1>1
  <2>2. j \notin T
    BY <1>3, <2>1
  <2>3. << s[j], s[k] >> \notin E
    BY <2>1, <2>2
  <2>4. i = k \/ << s[i], s[k] >> \in E
    OBVIOUS
  <2>5. s[j] \in X /\ s[i] \in X /\ s[k] \in X
    BY <1>1, <2>1
  <2>6. QED
    BY <2>3, <2>4, <2>5 DEF Transitive
<1>5. i \in P
  BY <1>1, <1>4 DEF AreFirsts
<1>6. QED
  BY <1>5

\* No two of the elements picked are related, whichever comes first.
LEMMA FirstsDiffer ==
  ASSUME NEW X, NEW s \in Seq(X), NEW E,
         Symmetric(E, X), NEW P, AreFirsts(P, s, E)
  PROVE  \A x, y \in ToSet(Picked(s, P)) : << x, y >> \in E => x = y
<1>1. /\ DOMAIN s = 1 .. Len(s) /\ Len(s) \in Nat
      /\ \A i \in 1 .. Len(s) : s[i] \in X
  BY ToSetFacts
<1>2. P \in SUBSET DOMAIN s
  BY DEF AreFirsts
<1>3. ToSet(Picked(s, P)) = { s[i] : i \in P }
  BY <1>2, PickedElements
<1>4. ASSUME NEW i \in P, NEW j \in P, i < j PROVE << s[i], s[j] >> \notin E
  <2>1. i \in 1 .. Len(s) /\ j \in 1 .. Len(s)
    BY <1>1, <1>2
  <2>2. i \in 1 .. j - 1
    BY <1>1, <1>4, <2>1
  <2>3. QED
    BY <1>1, <2>1, <2>2 DEF AreFirsts
<1>5. ASSUME NEW x \in ToSet(Picked(s, P)), NEW y \in ToSet(Picked(s, P)), << x, y >> \in E
      PROVE  x = y
  <2>1. PICK i \in P, j \in P : x = s[i] /\ y = s[j]
    BY <1>3
  <2>2. i \in 1 .. Len(s) /\ j \in 1 .. Len(s) /\ x \in X /\ y \in X
    BY <1>1, <1>2, <2>1
  <2>3. i < j \/ j < i \/ i = j
    BY <1>1, <2>2
  <2>4. << y, x >> \in E
    BY <1>5, <2>2 DEF Symmetric
  <2>5. ~(i < j) /\ ~(j < i)
    BY <1>4, <1>5, <2>1, <2>4
  <2>6. QED
    BY <2>1, <2>3, <2>5
<1>6. QED
  BY <1>5

\* The elements of the first k sequences.
FlatSet(ss, k) == UNION { ToSet(ss[i]) : i \in 1 .. k }

\* Sequences, one after another, have the elements of all of them.
LEMMA FlattenElements ==
  ASSUME NEW X, NEW ss \in Seq(Seq(X))
  PROVE  /\ FlattenSeq(ss) \in Seq(X)
         /\ ToSet(FlattenSeq(ss)) = FlatSet(ss, Len(ss))
<1> DEFINE N == Len(ss)
<1>1. N \in Nat /\ \A k \in 1 .. N : ss[k] \in Seq(X)
  BY ElementOfSeq
<1>2. CASE ss = << >>
  <2>1. N = 0 /\ FlattenSeq(ss) = << >>
    BY <1>2, EmptySeq DEF FlattenSeq
  <2>2. ToSet(<< >>) = {} /\ FlatSet(ss, 0) = {}
    BY DEF ToSet, FlatSet
  <2>3. QED
    BY <2>1, <2>2, EmptySeq
<1>3. CASE ss # << >>
  <2>1. N \in Nat \ {0}
    BY <1>3, EmptySeq
  <2>2. PICK f : FlattensFrom(f, ss) /\ FlattenSeq(ss) = f[N]
    BY <1>3, FlattenUnfolds
  <2>3. f[1] = ss[1] /\ \A k \in 2 .. N : f[k] = f[k - 1] \o ss[k]
    BY <2>2 DEF FlattensFrom
  <2> HIDE DEF N
  <2> DEFINE G == { k \in 0 .. N : k = 0 \/ (f[k] \in Seq(X) /\ ToSet(f[k]) = FlatSet(ss, k)) }
  <2>10. ASSUME NEW n \in 0 .. N, \A k \in 0 .. N : k < n => k \in G PROVE n \in G
    <3>1. CASE n = 0
      BY <3>1
    <3>2. CASE n = 1
      <4>1. f[1] = ss[1] /\ ss[1] \in Seq(X)
        BY <1>1, <2>1, <2>3 DEF N
      <4>2. FlatSet(ss, 1) = ToSet(ss[1])
        BY DEF FlatSet
      <4>3. QED
        BY <3>2, <4>1, <4>2
    <3>3. CASE n \notin {0, 1}
      <4>1. n \in 2 .. N /\ n \in 1 .. N /\ n # 1 /\ n - 1 \in 0 .. N /\ n - 1 < n /\ n - 1 # 0
        BY <2>1, <3>3
      <4>2. f[n] = f[n - 1] \o ss[n]
        BY <2>3, <4>1
      <4>3. f[n - 1] \in Seq(X) /\ ToSet(f[n - 1]) = FlatSet(ss, n - 1)
        BY <2>10, <4>1
      <4>4. ss[n] \in Seq(X)
        BY <1>1, <4>1 DEF N
      <4>5. ToSet(f[n]) = ToSet(f[n - 1]) \cup ToSet(ss[n]) /\ f[n] \in Seq(X)
        BY <4>2, <4>3, <4>4, ConcatElements
      <4>6. FlatSet(ss, n) = FlatSet(ss, n - 1) \cup ToSet(ss[n])
        <5>1. \A i : i \in 1 .. n <=> i \in 1 .. n - 1 \/ i = n
          BY <4>1
        <5>2. QED
          BY <5>1 DEF FlatSet
      <4>7. QED
        BY <4>3, <4>5, <4>6
    <3>4. QED
      BY <3>1, <3>2, <3>3
  <2> HIDE DEF G
  <2>11. \A n \in 0 .. N : n \in G
    <3>1. 0 .. N \in SUBSET Nat /\ N \in Nat
      BY <2>1
    <3>2. QED
      BY <2>10, <3>1, InductionFromBelow
  <2>12. f[N] \in Seq(X) /\ ToSet(f[N]) = FlatSet(ss, N)
    BY <2>1, <2>11 DEF G
  <2>13. QED
    BY <2>2, <2>12 DEF N
<1>4. QED
  BY <1>2, <1>3

-----------------------------------------------------------------------------
(* Sorting: what an order arranges.                                        *)

\* The first n elements of s, in the order R after the permutation p.
Arranges(p, n, s, R) ==
  /\ p \in Surjection(1 .. n, 1 .. n)
  /\ \A i, j \in 1 .. n : i < j => << s[p[i]], s[p[j]] >> \in R \/ s[p[i]] = s[p[j]]

\* A strict total order on the elements.
Orders(R, X) ==
  /\ \A x \in X : << x, x >> \notin R
  /\ \A x, y \in X : x = y \/ << x, y >> \in R \/ << y, x >> \in R
  /\ \A x, y, z \in X : << x, y >> \in R /\ << y, z >> \in R => << x, z >> \in R

\* One more element finds its place.
LEMMA OneMoreArranged ==
  ASSUME NEW X, NEW R, Orders(R, X), NEW n \in Nat \ {0}, NEW s, \A i \in 1 .. n : s[i] \in X,
         NEW p, Arranges(p, n - 1, s, R)
  PROVE  \E q : Arranges(q, n, s, R)
<1> DEFINE x == s[n]
           After(k) == k = n \/ << x, s[p[k]] >> \in R
           T == { k \in 1 .. n : After(k) }
<1>1. p \in [1 .. n - 1 -> 1 .. n - 1] /\ \A w \in 1 .. n - 1 : \E v \in 1 .. n - 1 : p[v] = w
  BY DEF Arranges, Surjection
<1>0. \A i \in 1 .. n - 1 : p[i] \in 1 .. n
  <2>1. \A i \in 1 .. n - 1 : p[i] \in 1 .. n - 1
    BY <1>1
  <2>2. \A m \in 1 .. n - 1 : m \in 1 .. n
    OBVIOUS
  <2>3. QED
    BY <2>1, <2>2
<1>2. PICK k \in T : \A j \in T : k <= j
  <2>1. T \in SUBSET Nat /\ n \in T
    OBVIOUS
  <2> HIDE DEF T
  <2>2. QED
    BY <2>1, LeastElement
<1>3. k \in 1 .. n /\ \A j \in 1 .. k - 1 : ~After(j)
  <2>1. \A j \in 1 .. k - 1 : j \in 1 .. n /\ ~(k <= j)
    OBVIOUS
  <2>2. QED
    BY <1>2, <2>1
<1> DEFINE q == [i \in 1 .. n |-> IF i < k THEN p[i] ELSE IF i = k THEN n ELSE p[i - 1]]
<1>4. \A i \in 1 .. n : (i < k => i \in 1 .. n - 1) /\ (i > k => i - 1 \in 1 .. n - 1)
  BY <1>3
<1>5. q \in [1 .. n -> 1 .. n]
  <2>2. n \in 1 .. n
    OBVIOUS
  <2>3. \A i \in 1 .. n : (IF i < k THEN p[i] ELSE IF i = k THEN n ELSE p[i - 1]) \in 1 .. n
    BY <1>0, <1>3, <1>4, <2>2
  <2>4. QED
    BY <2>3
<1>6. ASSUME NEW w \in 1 .. n PROVE \E v \in 1 .. n : q[v] = w
  <2>1. CASE w = n
    BY <1>3, <2>1
  <2>2. CASE w # n
    <3>1. PICK v \in 1 .. n - 1 : p[v] = w
      BY <1>1, <2>2
    <3>2. CASE v < k
      BY <3>1, <3>2
    <3>3. CASE ~(v < k)
      <4>1. v + 1 \in 1 .. n /\ ~(v + 1 < k) /\ v + 1 # k /\ (v + 1) - 1 = v
        BY <1>3, <3>3
      <4>2. q[v + 1] = p[v]
        BY <4>1
      <4>3. QED
        BY <3>1, <4>1, <4>2
    <3>4. QED
      BY <3>2, <3>3
  <2>3. QED
    BY <2>1, <2>2
<1> DEFINE t(i) == s[q[i]]
           Le(a, b) == << a, b >> \in R \/ a = b
<1>7. \A i \in 1 .. n - 1 : s[p[i]] \in X
  BY <1>0
<1>8. x \in X
  OBVIOUS
<1>9. \A i, j \in 1 .. n - 1 : i < j => Le(s[p[i]], s[p[j]])
  BY DEF Arranges
<1>10. /\ \A i \in 1 .. n : i < k => t(i) = s[p[i]]
       /\ t(k) = x
       /\ \A i \in 1 .. n : i > k => t(i) = s[p[i - 1]]
  BY <1>3
<1>11. ASSUME NEW i \in 1 .. n, i < k PROVE Le(s[p[i]], x)
  <2>1. i \in 1 .. k - 1
    BY <1>3, <1>11
  <2>2. ~(<< x, s[p[i]] >> \in R)
    BY <1>3, <2>1
  <2>3. s[p[i]] \in X
    BY <1>4, <1>7, <1>11
  <2>4. QED
    BY <1>8, <2>2, <2>3 DEF Orders
<1>12. ASSUME NEW i \in 1 .. n, i > k PROVE Le(x, s[p[i - 1]])
  <2>1. k # n /\ << x, s[p[k]] >> \in R
    BY <1>2, <1>3, <1>12
  <2>2. k \in 1 .. n - 1 /\ i - 1 \in 1 .. n - 1
    BY <1>3, <1>12
  <2>3. CASE i - 1 = k
    BY <2>1, <2>3
  <2>4. CASE i - 1 # k
    <3>1. k < i - 1
      BY <1>3, <1>12, <2>4
    <3>2. Le(s[p[k]], s[p[i - 1]])
      BY <1>9, <2>2, <3>1
    <3>3. s[p[k]] \in X /\ s[p[i - 1]] \in X
      BY <1>7, <2>2
    <3>4. QED
      BY <1>8, <2>1, <3>2, <3>3 DEF Orders
  <2>5. QED
    BY <2>3, <2>4
<1> HIDE DEF q, x, T
<1>13. ASSUME NEW i \in 1 .. n, NEW j \in 1 .. n, i < j PROVE Le(t(i), t(j))
  <2>1. CASE i < k /\ j < k
    <3>1. i \in 1 .. n - 1 /\ j \in 1 .. n - 1
      BY <1>4, <2>1
    <3>2. QED
      BY <1>9, <1>10, <1>13, <2>1, <3>1
  <2>2. CASE i < k /\ j = k
    BY <1>10, <1>11, <2>2
  <2>3. CASE i < k /\ j > k
    <3>1. Le(s[p[i]], x) /\ Le(x, s[p[j - 1]])
      BY <1>11, <1>12, <2>3
    <3>2. s[p[i]] \in X /\ s[p[j - 1]] \in X
      BY <1>4, <1>7, <2>3
    <3>3. Le(s[p[i]], s[p[j - 1]])
      BY <1>8, <3>1, <3>2 DEF Orders
    <3>4. QED
      BY <1>10, <2>3, <3>3
  <2>4. CASE i = k
    <3>1. j > k
      BY <1>3, <1>13, <2>4
    <3>2. QED
      BY <1>10, <1>12, <2>4, <3>1
  <2>5. CASE i > k
    <3>1. j > k /\ i - 1 \in 1 .. n - 1 /\ j - 1 \in 1 .. n - 1 /\ i - 1 < j - 1
      BY <1>3, <1>4, <1>13, <2>5
    <3>2. QED
      BY <1>9, <1>10, <2>5, <3>1
  <2>6. QED
    BY <1>3, <2>1, <2>2, <2>3, <2>4, <2>5
<1>14. Arranges(q, n, s, R)
  BY <1>5, <1>6, <1>13 DEF Arranges, Surjection
<1>15. QED
  BY <1>14

\* Elements in such an order can be arranged.
LEMMA CanBeArranged ==
  ASSUME NEW X, NEW s \in Seq(X), NEW R, Orders(R, ToSet(s))
  PROVE  \E p \in Surjection(DOMAIN s, DOMAIN s) :
           \A i, j \in DOMAIN s : i < j => << s[p[j]], s[p[i]] >> \notin R
<1> DEFINE N == Len(s)
           G == { n \in 0 .. N : \E p : Arranges(p, n, s, R) }
<1>1. N \in Nat /\ \A i \in 1 .. N : s[i] \in ToSet(s)
  BY ToSetFacts
<1> HIDE DEF N
<1>2. ASSUME NEW n \in 0 .. N, \A k \in 0 .. N : k < n => k \in G PROVE n \in G
  <2>1. CASE n = 0
    <3> DEFINE p == [i \in 1 .. 0 |-> i]
    <3>1. Arranges(p, 0, s, R)
      BY DEF Arranges, Surjection
    <3>2. QED
      BY <2>1, <3>1
  <2>2. CASE n # 0
    <3>1. n \in Nat \ {0} /\ n - 1 \in 0 .. N /\ n - 1 < n /\ \A i \in 1 .. n : i \in 1 .. N
      BY <1>1, <2>2
    <3>2. PICK p : Arranges(p, n - 1, s, R)
      BY <1>2, <3>1
    <3>3. \A i \in 1 .. n : s[i] \in ToSet(s)
      BY <1>1, <3>1
    <3>4. \E q : Arranges(q, n, s, R)
      BY <3>1, <3>2, <3>3, OneMoreArranged
    <3>5. QED
      BY <3>4
  <2>3. QED
    BY <2>1, <2>2
<1> HIDE DEF G
<1>3. \A n \in 0 .. N : n \in G
  <2>1. 0 .. N \in SUBSET Nat
    BY <1>1
  <2>2. QED
    BY <1>1, <1>2, <2>1, InductionFromBelow
<1>4. N \in G /\ DOMAIN s = 1 .. N
  BY <1>1, <1>3, LenProperties DEF N
<1>5. PICK p : Arranges(p, N, s, R)
  BY <1>4 DEF G
<1>6. p \in Surjection(1 .. N, 1 .. N) /\ p \in [1 .. N -> 1 .. N]
  BY <1>5 DEF Arranges, Surjection
<1>7. ASSUME NEW i \in 1 .. N, NEW j \in 1 .. N, i < j PROVE << s[p[j]], s[p[i]] >> \notin R
  <2>1. p[i] \in 1 .. N /\ p[j] \in 1 .. N
    BY <1>6
  <2>2. s[p[i]] \in ToSet(s) /\ s[p[j]] \in ToSet(s)
    BY <1>1, <2>1
  <2>3. << s[p[i]], s[p[j]] >> \in R \/ s[p[i]] = s[p[j]]
    BY <1>5, <1>7 DEF Arranges
  <2> DEFINE x == s[p[i]]
             y == s[p[j]]
  <2>4. << y, x >> \in R /\ << x, y >> \in R => << x, x >> \in R
    BY <2>2 DEF Orders
  <2>5. << y, x >> \notin R
    BY <2>2, <2>3, <2>4 DEF Orders
  <2>6. QED
    BY <2>5
<1>8. QED
  BY <1>4, <1>6, <1>7

\* Rearranged, a sequence has the same elements.
LEMMA Rearranged ==
  ASSUME NEW X, NEW s \in Seq(X), NEW p \in Surjection(DOMAIN s, DOMAIN s),
         NEW t, t = [i \in DOMAIN s |-> s[p[i]]]
  PROVE  t \in Seq(X) /\ Len(t) = Len(s) /\ ToSet(t) = ToSet(s)
<1> DEFINE N == Len(s)
<1>1. N \in Nat /\ DOMAIN s = 1 .. N /\ \A i \in 1 .. N : s[i] \in X
  BY ToSetFacts
<1>2. p \in [1 .. N -> 1 .. N] /\ \A w \in 1 .. N : \E v \in 1 .. N : p[v] = w
  BY <1>1 DEF Surjection
<1> HIDE DEF N
<1>3. t \in [1 .. N -> X] /\ \A i \in 1 .. N : t[i] = s[p[i]]
  BY <1>1, <1>2
<1>4. t \in Seq(X) /\ Len(t) = N /\ DOMAIN t = 1 .. N
  BY <1>1, <1>3, IsASeq, LenProperties
<1>5. ToSet(t) = ToSet(s)
  <2>1. \A x \in ToSet(t) : x \in ToSet(s)
    BY <1>1, <1>2, <1>3, <1>4 DEF ToSet
  <2>2. ASSUME NEW x \in ToSet(s) PROVE x \in ToSet(t)
    <3>1. PICK w \in 1 .. N : x = s[w]
      BY <1>1 DEF ToSet
    <3>2. PICK v \in 1 .. N : p[v] = w
      BY <1>2
    <3>3. QED
      BY <1>3, <1>4, <3>1, <3>2 DEF ToSet
  <2>3. QED
    BY <2>1, <2>2
<1>6. QED
  BY <1>4, <1>5 DEF N

-----------------------------------------------------------------------------
(* Elements that are picked, in their order.                               *)

\* The positions up to i.
UpTo(P, i) == { j \in P : j <= i }

\* The first k of the lines: those picked are in order, each at its rank.
RankedUpTo(q, P, k) ==
  /\ Len(q) = Cardinality(UpTo(P, k))
  /\ \A m \in 1 .. Len(q) : q[m] \in P /\ q[m] <= k
  /\ \A l, m \in 1 .. Len(q) : l < m => q[l] < q[m]
  /\ \A i \in P : i <= k => /\ Cardinality(UpTo(P, i)) \in 1 .. Len(q)
                            /\ q[Cardinality(UpTo(P, i))] = i

\* Lines are picked in order, each once.
LEMMA PickedInOrder ==
  ASSUME NEW n \in Nat, NEW P \in SUBSET (1 .. n)
  PROVE  /\ Picked(LineNumbers(n), P) \in Seq(1 .. n)
         /\ RankedUpTo(Picked(LineNumbers(n), P), P, n)
<1> DEFINE s == LineNumbers(n)
           rank(i) == Cardinality(UpTo(P, i))
<1>1. s \in Seq(1 .. n) /\ Len(s) = n /\ \A i \in 1 .. n : s[i] = i
  BY DEF LineNumbers
<1> HIDE DEF s
<1>2. PICK f : /\ PicksFrom(f, s, P) /\ Picked(s, P) = f[n]
               /\ \A k \in 0 .. n : f[k] \in Seq(1 .. n)
  BY <1>1, PickedUnfolds
<1>3. f[0] = << >> /\ \A k \in 1 .. n : f[k] = IF k \in P THEN Append(f[k - 1], k) ELSE f[k - 1]
  BY <1>1, <1>2 DEF PicksFrom
<1>4. \A k \in 0 .. n : IsFiniteSet(UpTo(P, k)) /\ rank(k) \in Nat
  <2>1. ASSUME NEW k \in 0 .. n PROVE IsFiniteSet(UpTo(P, k))
    <3>1. UpTo(P, k) \subseteq 1 .. n
      BY DEF UpTo
    <3>2. IsFiniteSet(1 .. n)
      BY FS_Interval
    <3>3. QED
      BY <3>1, <3>2, FS_Subset
  <2>2. QED
    BY <2>1, FS_CardinalityType
<1> DEFINE G == { k \in 0 .. n : RankedUpTo(f[k], P, k) }
<1>5. ASSUME NEW k \in 0 .. n, \A j \in 0 .. n : j < k => j \in G PROVE k \in G
  <2>1. CASE k = 0
    <3>0. \A i \in P : i \in 1 .. n /\ ~(i <= 0)
      OBVIOUS
    <3>1. UpTo(P, 0) = {} /\ \A i \in P : ~(i <= 0)
      BY <3>0 DEF UpTo
    <3>2. rank(0) = 0 /\ Len(f[0]) = 0
      BY <1>3, <3>1, FS_EmptySet, EmptySeq
    <3>3. RankedUpTo(f[0], P, 0)
      BY <3>1, <3>2 DEF RankedUpTo
    <3>4. QED
      BY <2>1, <3>3
  <2>2. CASE k # 0
    <3> DEFINE q == f[k - 1]
    <3>1. k - 1 \in 0 .. n /\ k - 1 < k /\ k \in 1 .. n /\ k \in Nat
      BY <2>2
    <3>2. RankedUpTo(q, P, k - 1)
      BY <1>5, <3>1
    <3>3. q \in Seq(1 .. n) /\ Len(q) \in Nat
      BY <1>2, <3>1
    <3>4. f[k] = IF k \in P THEN Append(q, k) ELSE q
      BY <1>3, <3>1
    <3>5. \A i \in P : i \in Nat /\ (i <= k <=> i <= k - 1 \/ i = k)
                        /\ (i <= k - 1 => i < k)
      BY <3>1
    <3> HIDE DEF q
    <3>6. CASE k \notin P
      <4>1. UpTo(P, k) = UpTo(P, k - 1)
        BY <3>5, <3>6 DEF UpTo
      <4>2. \A m \in 1 .. Len(q) : q[m] \in P /\ q[m] <= k
        BY <3>2, <3>5 DEF RankedUpTo
      <4>3. \A i \in P : i <= k => i <= k - 1
        BY <3>5, <3>6
      <4>4. RankedUpTo(q, P, k)
        BY <3>2, <4>1, <4>2, <4>3 DEF RankedUpTo
      <4>5. QED
        BY <3>4, <3>6, <4>4
    <3>7. CASE k \in P
      <4> DEFINE r == Append(q, k)
      <4>1. UpTo(P, k) = UpTo(P, k - 1) \cup {k} /\ k \notin UpTo(P, k - 1)
        <5>1. ~(k <= k - 1) /\ k <= k
          BY <3>1
        <5>2. \A j : j \in UpTo(P, k) <=> j \in UpTo(P, k - 1) \/ j = k
          BY <3>5, <3>7, <5>1 DEF UpTo
        <5>3. k \notin UpTo(P, k - 1)
          BY <5>1 DEF UpTo
        <5>4. QED
          BY <5>2, <5>3
      <4>2. rank(k) = rank(k - 1) + 1
        BY <1>4, <3>1, <4>1, FS_AddElement
      <4>3. /\ Len(r) = Len(q) + 1 /\ r[Len(q) + 1] = k
            /\ \A m \in 1 .. Len(q) : r[m] = q[m]
        BY <3>3, <3>7, AppendProperties
      <4> HIDE DEF r
      <4>4. \A m \in 1 .. Len(r) : m \in 1 .. Len(q) \/ m = Len(q) + 1
        BY <3>3, <4>3
      <4>5. Len(r) = rank(k)
        BY <3>2, <4>2, <4>3 DEF RankedUpTo
      <4>6. ASSUME NEW m \in 1 .. Len(r) PROVE r[m] \in P /\ r[m] <= k
        <5>1. CASE m \in 1 .. Len(q)
          <6>1. q[m] \in P /\ q[m] <= k - 1
            BY <3>2, <5>1 DEF RankedUpTo
          <6>2. QED
            BY <3>5, <4>3, <5>1, <6>1
        <5>2. CASE m = Len(q) + 1
          BY <3>1, <3>7, <4>3, <5>2
        <5>3. QED
          BY <4>4, <5>1, <5>2
      <4>7. ASSUME NEW l \in 1 .. Len(r), NEW m \in 1 .. Len(r), l < m PROVE r[l] < r[m]
        <5>1. l \in 1 .. Len(q)
          BY <3>3, <4>3, <4>7
        <5>2. CASE m \in 1 .. Len(q)
          <6>1. q[l] < q[m]
            BY <3>2, <4>7, <5>1, <5>2 DEF RankedUpTo
          <6>2. QED
            BY <4>3, <5>1, <5>2, <6>1
        <5>3. CASE m = Len(q) + 1
          <6>1. q[l] \in P /\ q[l] <= k - 1
            BY <3>2, <5>1 DEF RankedUpTo
          <6>2. q[l] < k
            BY <3>5, <6>1, Zenon
          <6>3. QED
            BY <4>3, <5>1, <5>3, <6>2
        <5>4. QED
          BY <4>4, <5>2, <5>3
      <4>8. ASSUME NEW i \in P, i <= k PROVE rank(i) \in 1 .. Len(r) /\ r[rank(i)] = i
        <5>1. CASE i = k
          <6>1. Len(r) \in 1 .. Len(r) /\ Len(r) = Len(q) + 1
            BY <3>3, <4>3
          <6>2. QED
            BY <4>3, <4>5, <5>1, <6>1
        <5>2. CASE i <= k - 1
          <6>1. rank(i) \in 1 .. Len(q) /\ q[rank(i)] = i
            BY <3>2, <5>2 DEF RankedUpTo
          <6>2. QED
            BY <3>3, <4>3, <6>1
        <5>3. QED
          BY <3>5, <4>8, <5>1, <5>2
      <4>9. RankedUpTo(r, P, k)
        BY <4>5, <4>6, <4>7, <4>8 DEF RankedUpTo
      <4>10. QED
        BY <3>4, <3>7, <4>9 DEF r
    <3>8. QED
      BY <3>6, <3>7
  <2>3. QED
    BY <2>1, <2>2
<1> HIDE DEF G
<1>6. \A k \in 0 .. n : k \in G
  <2>1. 0 .. n \in SUBSET Nat
    OBVIOUS
  <2>2. QED
    BY <1>5, <2>1, InductionFromBelow
<1>7. n \in 0 .. n
  OBVIOUS
<1>8. f[n] \in Seq(1 .. n) /\ RankedUpTo(f[n], P, n)
  BY <1>2, <1>6, <1>7 DEF G
<1>9. QED
  BY <1>2, <1>8 DEF s

-----------------------------------------------------------------------------
(* What the matcher finds in a blob.                                       *)

\* A sequence over a set is one over a larger set.
LEMMA SeqWider ==
  ASSUME NEW S, NEW T, S \subseteq T, NEW s \in Seq(S)
  PROVE  s \in Seq(T)
<1>1. Len(s) \in Nat /\ s = [i \in 1 .. Len(s) |-> s[i]] /\ \A i \in 1 .. Len(s) : s[i] \in T
  BY LenProperties, ElementOfSeq
<1>2. s \in [1 .. Len(s) -> T]
  BY <1>1
<1>3. QED
  BY <1>1, <1>2

\* Numbers in order, each once.
InOrder(q) == \A l, m \in 1 .. Len(q) : l < m => q[l] < q[m]

\* Such a sequence is as long as it has elements.
LEMMA InOrderCount ==
  ASSUME NEW q \in Seq(Int), InOrder(q)
  PROVE  IsFiniteSet(ToSet(q)) /\ Cardinality(ToSet(q)) = Len(q)
<1> DEFINE D == 1 .. Len(q)
           T == ToSet(q)
<1>1. /\ DOMAIN q = D /\ Len(q) \in Nat
      /\ \A i \in D : q[i] \in Int /\ q[i] \in T
      /\ \A x \in T : \E i \in D : x = q[i]
  BY ToSetFacts
<1>2. \A l, m \in D : q[l] = q[m] => l = m
  <2> SUFFICES ASSUME NEW l \in D, NEW m \in D, q[l] = q[m], l # m PROVE FALSE
    OBVIOUS
  <2>1. l < m \/ m < l
    BY <1>1
  <2>2. q[l] < q[m] \/ q[m] < q[l]
    BY <2>1 DEF InOrder
  <2>3. q[l] \in Int
    BY <1>1
  <2>4. QED
    BY <2>2, <2>3
<1>3. q \in [D -> T]
  <2>1. q = [i \in DOMAIN q |-> q[i]]
    BY LenProperties
  <2> HIDE DEF T, D
  <2>2. QED
    BY <1>1, <2>1
<1>4. q \in Surjection(D, T) /\ q \in Injection(D, T)
  <2> HIDE DEF T, D
  <2>1. q \in Surjection(D, T)
    BY <1>1, <1>3 DEF Surjection
  <2>2. q \in Injection(D, T)
    BY <1>2, <1>3 DEF Injection, IsInjective
  <2>3. QED
    BY <2>1, <2>2
<1>5. IsFiniteSet(D) /\ Cardinality(D) = Len(q)
  <2>1. IsFiniteSet(D) /\ Cardinality(D) = IF 1 > Len(q) THEN 0 ELSE Len(q) - 1 + 1
    BY <1>1, FS_Interval
  <2>2. QED
    BY <1>1, <2>1
<1> HIDE DEF D, T
<1>6. IsFiniteSet(T) /\ Cardinality(T) = Cardinality(D)
  BY <1>4, <1>5, FS_Surjection
<1>7. QED
  BY <1>5, <1>6 DEF T

\* MatchBlob gives the wanted lines in order, each once.
LEMMA MatchBlobExact ==
  ASSUME NEW b, IsBlob(b), IsConfig(cfg)
  PROVE  /\ MatchBlob(b, cfg) \in Seq(1 .. Len(b.lines)) /\ InOrder(MatchBlob(b, cfg))
         /\ ToSet(MatchBlob(b, cfg)) = Wanted(b)
         /\ Len(MatchBlob(b, cfg)) = Cardinality(Wanted(b))
<1> DEFINE n == Len(b.lines)
           P == { i \in DOMAIN b.lines : b.lines[i] # cfg.invert }
           all == Picked([i \in DOMAIN b.lines |-> i], P)
           few == IF cfg.max > 0 /\ cfg.max < Len(all) THEN SubSeq(all, 1, cfg.max) ELSE all
           chosen == { i \in P : cfg.max = 0 \/ Cardinality(UpTo(P, i)) <= cfg.max }
<1>1. n \in Nat /\ DOMAIN b.lines = 1 .. n /\ P \in SUBSET (1 .. n)
  BY LenProperties DEF IsBlob
<1>2. cfg.max \in Nat /\ b.raw \in BOOLEAN /\ cfg.invert \in BOOLEAN
  BY IntervalAssumption DEF IsConfig, IsBlob
<1>3. MatchBlob(b, cfg) = IF IsPassedOver(b) THEN << >> ELSE few
  <2>1. ~cfg.invert /\ ~MatchBytes(b, cfg) <=> IsPassedOver(b)
    BY <1>2 DEF MatchBytes, IsPassedOver
  <2>2. MatchLines(b, cfg) = few
    BY DEF MatchLines
  <2> HIDE DEF few
  <2>3. QED
    BY <2>1, <2>2 DEF MatchBlob
<1>4. Wanted(b) = IF IsPassedOver(b) THEN {} ELSE chosen
  BY DEF Wanted, UpTo
<1>5. all \in Seq(1 .. n) /\ RankedUpTo(all, P, n)
  <2>1. all = Picked(LineNumbers(n), P)
    BY <1>1 DEF LineNumbers
  <2> HIDE DEF all, P, n
  <2>2. QED
    BY <1>1, <2>1, PickedInOrder
<1> HIDE DEF all, P, n
<1> DEFINE N == Len(all)
           K == IF cfg.max > 0 /\ cfg.max < N THEN cfg.max ELSE N
           rank(i) == Cardinality(UpTo(P, i))
<1>6. /\ N \in Nat /\ \A m \in 1 .. N : all[m] \in 1 .. n
      /\ \A m \in 1 .. N : all[m] \in P
      /\ \A l, m \in 1 .. N : l < m => all[l] < all[m]
      /\ \A i \in P : rank(i) \in 1 .. N /\ all[rank(i)] = i
  <2>1. \A i \in P : i \in 1 .. n /\ i <= n
    BY <1>1
  <2>2. QED
    BY <1>5, <2>1, ElementOfSeq, LenProperties DEF RankedUpTo
<1>7. /\ few \in Seq(1 .. n) /\ Len(few) = K /\ K \in Nat /\ K <= N
      /\ \A m \in 1 .. K : few[m] = all[m]
  <2>1. CASE cfg.max > 0 /\ cfg.max < N
    <3> DEFINE k == cfg.max
               r == SubSeq(all, 1, k)
    <3>1. k \in Nat /\ 1 <= k /\ k - 1 + 1 = k /\ \A i \in 1 .. k : i \in 1 .. N /\ 1 + i - 1 = i
      BY <1>2, <1>6, <2>1
    <3>2. \A i \in 1 .. k : all[i] \in 1 .. n
      BY <1>6, <3>1
    <3>3. few = r /\ K = k
      BY <2>1
    <3>6. k <= N
      BY <1>6, <3>1, <2>1
    <3> HIDE DEF k, few, K, N
    <3>4. /\ r \in Seq(1 .. n) /\ Len(r) = IF 1 <= k THEN k - 1 + 1 ELSE 0
          /\ \A i \in 1 .. k - 1 + 1 : r[i] = all[1 + i - 1]
      BY <3>1, <3>2, SubSeqProperties
    <3>5. Len(r) = k /\ \A i \in 1 .. k : r[i] = all[i]
      BY <3>1, <3>4
    <3>7. QED
      BY <3>1, <3>3, <3>4, <3>5, <3>6
  <2>2. CASE ~(cfg.max > 0 /\ cfg.max < N)
    BY <1>5, <1>6, <2>2
  <2>3. QED
    BY <2>1, <2>2
<1>8. ASSUME NEW m \in 1 .. N PROVE rank(all[m]) = m
  <2> DEFINE l == rank(all[m])
  <2>1. l \in 1 .. N /\ all[l] = all[m] /\ all[m] \in 1 .. n
    BY <1>6
  <2> HIDE DEF l
  <2>2. l < m \/ m < l => all[l] < all[m] \/ all[m] < all[l]
    BY <1>6, <2>1
  <2>3. all[m] \in Int /\ ~(all[m] < all[m])
    BY <2>1
  <2>4. l = m
    BY <1>6, <2>1, <2>2, <2>3
  <2>5. QED
    BY <2>4 DEF l
<1>9. \A m \in 1 .. N : m <= K <=> cfg.max = 0 \/ m <= cfg.max
  BY <1>2, <1>6
<1> HIDE DEF few, K, N
<1>10. ToSet(few) = chosen
  <2>1. ASSUME NEW x \in ToSet(few) PROVE x \in chosen
    <3>1. PICK m \in 1 .. K : x = few[m]
      BY <1>7, ToSetFacts
    <3>2. m \in 1 .. N /\ m <= K
      BY <1>6, <1>7
    <3>3. x = all[m] /\ x \in P /\ rank(x) = m
      BY <1>6, <1>7, <1>8, <3>1, <3>2
    <3>4. QED
      BY <1>9, <3>2, <3>3
  <2>2. ASSUME NEW i \in chosen PROVE i \in ToSet(few)
    <3>1. i \in P /\ rank(i) \in 1 .. N /\ all[rank(i)] = i
      BY <1>6
    <3>2. rank(i) <= K
      BY <1>9, <3>1
    <3>3. rank(i) \in 1 .. K
      BY <1>6, <1>7, <3>1, <3>2
    <3>4. few[rank(i)] = i
      BY <1>7, <3>1, <3>3
    <3>5. QED
      BY <1>7, <3>3, <3>4, ToSetFacts
  <2>3. QED
    BY <2>1, <2>2
<1>11. InOrder(few)
  <2>1. \A m \in 1 .. K : m \in 1 .. N
    BY <1>6, <1>7
  <2>2. QED
    BY <1>6, <1>7, <2>1 DEF InOrder
<1>12. Len(few) = Cardinality(chosen)
  <2>1. few \in Seq(Int)
    <3>1. 1 .. n \subseteq Int
      BY <1>1
    <3>2. QED
      BY <1>7, <3>1, SeqWider
  <2>2. QED
    BY <1>10, <1>11, <2>1, InOrderCount
<1> HIDE DEF chosen
<1>13. CASE IsPassedOver(b)
  <2>1. MatchBlob(b, cfg) = << >> /\ Wanted(b) = {}
    BY <1>3, <1>4, <1>13
  <2>2. << >> \in Seq(1 .. Len(b.lines)) /\ Len(<< >>) = 0 /\ ToSet(<< >>) = {}
    BY EmptySeq DEF ToSet
  <2>3. InOrder(<< >>)
    BY <2>2 DEF InOrder
  <2>4. QED
    BY <2>1, <2>2, <2>3, FS_EmptySet
<1>14. CASE ~IsPassedOver(b)
  <2>1. Wanted(b) = chosen /\ MatchBlob(b, cfg) = few
    BY <1>3, <1>4, <1>14
  <2>2. few \in Seq(1 .. Len(b.lines))
    BY <1>7 DEF n
  <2>3. QED
    BY <1>10, <1>11, <1>12, <2>1, <2>2
<1>15. QED
  BY <1>13, <1>14

-----------------------------------------------------------------------------
(* The intervals of context that merging leaves.                           *)

\* What Merge does: the last interval grows, or there is one more.
Merged(r, q, iv) ==
  LET n == Len(q)
  IN  IF iv.start <= q[n].end + 1
      THEN /\ Len(r) = n /\ \A i \in 1 .. n - 1 : r[i] = q[i]
           /\ r[n].start = q[n].start /\ r[n].end = Greatest(q[n].end, iv.end)
      ELSE Len(r) = n + 1 /\ r[n + 1] = iv /\ \A i \in 1 .. n : r[i] = q[i]

LEMMA MergeFacts ==
  ASSUME NEW q \in Seq(Stretch), q # << >>, NEW iv \in Stretch
  PROVE  Merge(q, iv) \in Seq(Stretch) /\ Merged(Merge(q, iv), q, iv)
<1> DEFINE n == Len(q)
           curr == q[n]
           longer == [curr EXCEPT !.end = Greatest(@, iv.end)]
<1>1. n \in Nat \ {0} /\ \A i \in 1 .. n : q[i] \in Stretch
  BY EmptySeq, ElementOfSeq
<1>2. CASE iv.start <= curr.end + 1
  <2>1. curr \in Stretch
    BY <1>1
  <2> HIDE DEF curr
  <2>2. longer \in Stretch /\ longer.start = curr.start /\ longer.end = Greatest(curr.end, iv.end)
    BY <2>1 DEF Stretch, Greatest
  <2> HIDE DEF longer
  <2>3. /\ Front(q) \in Seq(Stretch) /\ Len(Front(q)) = n - 1
        /\ \A i \in 1 .. n - 1 : Front(q)[i] = q[i]
    <3> DEFINE k == n - 1
    <3>1. k \in Nat /\ k <= n /\ \A i \in 1 .. k : i \in 1 .. n
      BY <1>1
    <3>2. Front(q) = SubSeq(q, 1, k)
      BY DEF Front
    <3>3. k - 1 + 1 = k /\ \A i \in 1 .. k : 1 + i - 1 = i
      BY <3>1
    <3> HIDE DEF k, n
    <3>4. /\ SubSeq(q, 1, k) \in Seq(Stretch)
          /\ Len(SubSeq(q, 1, k)) = IF 1 <= k THEN k - 1 + 1 ELSE 0
          /\ \A i \in 1 .. k - 1 + 1 : SubSeq(q, 1, k)[i] = q[1 + i - 1]
      <4>1. \A i \in 1 .. k : q[i] \in Stretch
        BY <1>1, <3>1
      <4>2. QED
        BY <3>1, <4>1, SubSeqProperties
    <3>5. Len(SubSeq(q, 1, k)) = k
      BY <3>1, <3>3, <3>4
    <3>6. QED
      BY <3>2, <3>3, <3>4, <3>5 DEF k
  <2> DEFINE r == Append(Front(q), longer)
  <2>4. /\ r \in Seq(Stretch) /\ Len(r) = (n - 1) + 1 /\ r[(n - 1) + 1] = longer
        /\ \A i \in 1 .. n - 1 : r[i] = q[i]
    BY <2>2, <2>3, AppendProperties
  <2> HIDE DEF r
  <2>5. (n - 1) + 1 = n
    BY <1>1
  <2>6. Merge(q, iv) = r
    BY <1>2, Zenon DEF Merge, Last, r, longer, curr
  <2>7. Merged(r, q, iv)
    BY <1>2, <2>2, <2>4, <2>5 DEF Merged, curr
  <2>8. QED
    BY <2>4, <2>6, <2>7
<1>3. CASE ~(iv.start <= curr.end + 1)
  <2> DEFINE r == Append(q, iv)
  <2>1. r \in Seq(Stretch) /\ Len(r) = n + 1 /\ r[n + 1] = iv /\ \A i \in 1 .. n : r[i] = q[i]
    BY AppendProperties
  <2>2. Merge(q, iv) = r
    BY <1>3, Zenon DEF Merge, Last
  <2> HIDE DEF r
  <2>3. Merged(r, q, iv)
    BY <1>3, <2>1 DEF Merged
  <2>4. QED
    BY <2>1, <2>2, <2>3
<1>4. QED
  BY <1>2, <1>3

\* Intervals between 1 and total, in order, with lines left out between them.
Apart(q, total) ==
  /\ \A g \in 1 .. Len(q) : 1 <= q[g].start /\ q[g].start <= q[g].end /\ q[g].end <= total
  /\ \A g, h \in 1 .. Len(q) : g < h => q[g].end + 1 < q[h].start

\* The lines of the first k intervals.
Covered(q, k) == { n \in Int : \E g \in 1 .. k : q[g].start <= n /\ n <= q[g].end }

\* One more interval, no further to the left, is joined.
LEMMA MergeKeepsApart ==
  ASSUME NEW total \in Nat, NEW q \in Seq(Stretch), q # << >>, Apart(q, total),
         NEW iv \in Stretch, 1 <= iv.start, iv.start <= iv.end, iv.end <= total,
         q[Len(q)].start <= iv.start,
         NEW r, r = Merge(q, iv)
  PROVE  /\ r \in Seq(Stretch) /\ r # << >> /\ Apart(r, total)
         /\ r[Len(r)].start <= iv.start
         /\ \A n \in Int : n \in Covered(r, Len(r)) <=>
              n \in Covered(q, Len(q)) \/ (iv.start <= n /\ n <= iv.end)
<1> DEFINE n == Len(q)
<1>1. n \in Nat \ {0} /\ \A i \in 1 .. n : q[i] \in Stretch /\ q[i].start \in Int /\ q[i].end \in Int
  <2>1. n \in Nat \ {0} /\ \A i \in 1 .. n : q[i] \in Stretch
    BY EmptySeq, ElementOfSeq
  <2>2. \A x \in Stretch : x.start \in Int /\ x.end \in Int
    BY DEF Stretch
  <2>3. QED
    BY <2>1, <2>2
<1>2. iv.start \in Int /\ iv.end \in Int
  BY DEF Stretch
<1>3. r \in Seq(Stretch) /\ Merged(r, q, iv)
  BY MergeFacts
<1>4. /\ \A g \in 1 .. n : 1 <= q[g].start /\ q[g].start <= q[g].end /\ q[g].end <= total
      /\ \A g, h \in 1 .. n : g < h => q[g].end + 1 < q[h].start
  BY DEF Apart
<1> DEFINE s == q[n].start
           e == q[n].end
<1>5. /\ n \in 1 .. n /\ s \in Int /\ e \in Int /\ 1 <= s /\ s <= e /\ e <= total /\ s <= iv.start
      /\ \A g \in 1 .. n : g \in 1 .. n - 1 \/ g = n
      /\ \A g \in 1 .. n - 1 : g \in 1 .. n /\ g < n
  <2>1. n \in 1 .. n
    BY <1>1
  <2>2. /\ \A g \in 1 .. n : g \in 1 .. n - 1 \/ g = n
        /\ \A g \in 1 .. n - 1 : g \in 1 .. n /\ g < n
    BY <1>1
  <2>3. QED
    BY <1>1, <1>4, <2>1, <2>2
<1> HIDE DEF n
<1>6. CASE iv.start <= e + 1
  <2>1. /\ Len(r) = n /\ r[n].start = s /\ r[n].end = Greatest(e, iv.end)
        /\ \A i \in 1 .. n - 1 : r[i] = q[i]
    BY <1>3, <1>6 DEF Merged, n
  <2> HIDE DEF s, e
  <2>2. /\ r[n].end \in Int /\ e <= r[n].end /\ iv.end <= r[n].end /\ r[n].end <= total
        /\ r[n].end \in {e, iv.end}
    BY <1>2, <1>5, <2>1 DEF Greatest
  <2>3. \A g \in 1 .. n : 1 <= r[g].start /\ r[g].start <= r[g].end /\ r[g].end <= total
    <3>1. 1 <= r[n].start /\ r[n].start <= r[n].end /\ r[n].end <= total
      BY <1>5, <2>1, <2>2
    <3>2. QED
      BY <1>4, <1>5, <2>1, <3>1
  <2>4. ASSUME NEW g \in 1 .. n, NEW h \in 1 .. n, g < h PROVE r[g].end + 1 < r[h].start
    <3>1. g \in 1 .. n - 1
      BY <1>1, <2>4
    <3>2. r[h].start = q[h].start
      BY <1>5, <2>1 DEF s
    <3>3. r[g] = q[g]
      BY <2>1, <3>1
    <3>4. QED
      BY <1>4, <2>4, <3>2, <3>3
  <2>5. ASSUME NEW m \in Int PROVE m \in Covered(r, n) <=> m \in Covered(q, n) \/ (iv.start <= m /\ m <= iv.end)
    <3>1. s <= m /\ m <= r[n].end <=> (s <= m /\ m <= e) \/ (iv.start <= m /\ m <= iv.end)
      BY <1>2, <1>5, <1>6, <2>2
    <3>2. m \in Covered(r, n) <=> \/ \E g \in 1 .. n - 1 : q[g].start <= m /\ m <= q[g].end
                                  \/ s <= m /\ m <= r[n].end
      <4>1. m \in Covered(r, n) <=> \E g \in 1 .. n : r[g].start <= m /\ m <= r[g].end
        BY DEF Covered
      <4>2. QED
        BY <1>5, <2>1, <4>1
    <3>3. m \in Covered(q, n) <=> \/ \E g \in 1 .. n - 1 : q[g].start <= m /\ m <= q[g].end
                                  \/ s <= m /\ m <= e
      <4>1. m \in Covered(q, n) <=> \E g \in 1 .. n : q[g].start <= m /\ m <= q[g].end
        BY DEF Covered
      <4>2. QED
        BY <1>5, <4>1 DEF s, e
    <3>4. QED
      BY <3>1, <3>2, <3>3
  <2>6. Apart(r, total)
    BY <2>1, <2>3, <2>4 DEF Apart
  <2>7. r # << >>
    BY <1>1, <2>1, EmptySeq
  <2>8. QED
    BY <1>3, <1>5, <2>1, <2>5, <2>6, <2>7 DEF n
<1>7. CASE ~(iv.start <= e + 1)
  <2>1. Len(r) = n + 1 /\ r[n + 1] = iv /\ \A i \in 1 .. n : r[i] = q[i]
    BY <1>3, <1>7 DEF Merged, n
  <2> HIDE DEF s, e
  <2>2. /\ \A g \in 1 .. n + 1 : g \in 1 .. n \/ g = n + 1
        /\ \A g \in 1 .. n : g \in 1 .. n + 1 /\ g # n + 1 /\ n + 1 \in 1 .. n + 1
    BY <1>1
  <2>3. \A g \in 1 .. n + 1 : 1 <= r[g].start /\ r[g].start <= r[g].end /\ r[g].end <= total
    BY <1>4, <2>1, <2>2
  <2>4. \A g \in 1 .. n : q[g].end + 1 < iv.start
    <3>1. e + 1 < iv.start
      BY <1>2, <1>5, <1>7
    <3>2. ASSUME NEW g \in 1 .. n - 1 PROVE q[g].end + 1 < iv.start
      <4>1. q[g].end + 1 < s
        BY <1>4, <1>5 DEF s
      <4>2. q[g].end \in Int
        BY <1>1, <1>5
      <4>3. QED
        BY <1>2, <1>5, <4>1, <4>2
    <3>3. QED
      BY <1>5, <3>1, <3>2 DEF e
  <2>5. ASSUME NEW g \in 1 .. n + 1, NEW h \in 1 .. n + 1, g < h PROVE r[g].end + 1 < r[h].start
    <3>1. g \in 1 .. n /\ g # n + 1
      BY <1>1, <2>5
    <3>2. r[g] = q[g]
      BY <2>1, <3>1
    <3>3. CASE h = n + 1
      BY <2>1, <2>4, <3>1, <3>2, <3>3
    <3>4. CASE h # n + 1
      BY <1>4, <2>1, <2>2, <2>5, <3>1, <3>2, <3>4
    <3>5. QED
      BY <3>3, <3>4
  <2>6. ASSUME NEW m \in Int
        PROVE  m \in Covered(r, n + 1) <=> m \in Covered(q, n) \/ (iv.start <= m /\ m <= iv.end)
    <3>1. m \in Covered(r, n + 1) <=> \E g \in 1 .. n + 1 : r[g].start <= m /\ m <= r[g].end
      BY DEF Covered
    <3>2. m \in Covered(q, n) <=> \E g \in 1 .. n : q[g].start <= m /\ m <= q[g].end
      BY DEF Covered
    <3>3. QED
      BY <1>1, <1>5, <2>1, <2>2, <3>1, <3>2
  <2>7. Apart(r, total)
    BY <2>1, <2>3, <2>5 DEF Apart
  <2>8. r # << >> /\ r[n + 1].start <= iv.start
    <3>1. r # << >>
      BY <1>1, <2>1, EmptySeq
    <3>2. QED
      BY <1>2, <2>1, <3>1
  <2>9. QED
    BY <1>3, <2>1, <2>6, <2>7, <2>8 DEF n
<1>8. QED
  BY <1>6, <1>7

\* Intervals from left to right are joined to intervals apart, with the same lines.
LEMMA JoinedExact ==
  ASSUME NEW total \in Nat, NEW ivs \in Seq(Stretch), ivs # << >>,
         \A i \in 1 .. Len(ivs) :
           1 <= ivs[i].start /\ ivs[i].start <= ivs[i].end /\ ivs[i].end <= total,
         \A i, j \in 1 .. Len(ivs) : i < j => ivs[i].start <= ivs[j].start,
         NEW q, q = Joined(ivs)
  PROVE  /\ q \in Seq(Stretch) /\ q # << >> /\ Apart(q, total)
         /\ Covered(q, Len(q)) = Covered(ivs, Len(ivs))
<1> DEFINE N == Len(ivs)
           V == { r \in Seq(Stretch) : r # << >> }
           a == << ivs[1] >>
<1>1. N \in Nat \ {0} /\ \A k \in 1 .. N : ivs[k] \in Stretch /\ ivs[k].start \in Int
  <2>1. N \in Nat \ {0} /\ \A k \in 1 .. N : ivs[k] \in Stretch
    BY EmptySeq, ElementOfSeq
  <2>2. \A x \in Stretch : x.start \in Int
    BY DEF Stretch
  <2>3. QED
    BY <2>1, <2>2
<1>2. 1 \in 1 .. N /\ N \in 1 .. N
  BY <1>1
<1>3. a \in V /\ Len(a) = 1 /\ a[1] = ivs[1]
  BY <1>1, <1>2
<1>4. \A k \in 2 .. N, r \in V : Merge(r, ivs[k]) \in V
  <2> SUFFICES ASSUME NEW k \in 2 .. N, NEW r \in V PROVE Merge(r, ivs[k]) \in V
    OBVIOUS
  <2>1. ivs[k] \in Stretch /\ Len(r) \in Nat \ {0}
    BY <1>1, EmptySeq
  <2> DEFINE m == Merge(r, ivs[k])
  <2>2. m \in Seq(Stretch) /\ Merged(m, r, ivs[k])
    BY <2>1, MergeFacts
  <2>3. Len(m) # 0
    BY <2>1, <2>2 DEF Merged
  <2> HIDE DEF m
  <2>4. m # << >>
    BY <2>3, EmptySeq
  <2>5. QED
    BY <2>2, <2>4 DEF m
<1> HIDE DEF V
<1>5. PICK f : JoinsFrom(f, ivs) /\ Joined(ivs) = f[N] /\ \A k \in 1 .. N : f[k] \in V
  BY <1>3, <1>4, JoinedUnfolds
<1>6. f[1] = a /\ \A k \in 2 .. N : f[k] = Merge(f[k - 1], ivs[k])
  BY <1>5 DEF JoinsFrom
<1> HIDE DEF N, a
<1> DEFINE Good(k) == /\ Apart(f[k], total) /\ f[k][Len(f[k])].start <= ivs[k].start
                      /\ Covered(f[k], Len(f[k])) = Covered(ivs, k)
           G == { k \in 0 .. N : k = 0 \/ Good(k) }
<1>7. \A k \in 1 .. N : 1 <= ivs[k].start /\ ivs[k].start <= ivs[k].end /\ ivs[k].end <= total
  BY DEF N
<1>8. ASSUME NEW k \in 0 .. N, \A j \in 0 .. N : j < k => j \in G PROVE k \in G
  <2>1. CASE k = 0
    BY <2>1
  <2>2. CASE k = 1
    <3>1. Apart(a, total)
      <4>1. \A g, h \in 1 .. 1 : g = 1 /\ ~(g < h)
        OBVIOUS
      <4>2. QED
        BY <1>2, <1>3, <1>7, <4>1 DEF Apart
    <3>2. a[Len(a)].start <= ivs[1].start
      BY <1>1, <1>2, <1>3
    <3>3. Covered(a, 1) = Covered(ivs, 1)
      <4>1. \A g \in 1 .. 1 : a[g] = ivs[g]
        BY <1>3
      <4>2. QED
        BY <4>1 DEF Covered
    <3>4. QED
      BY <1>3, <1>6, <2>2, <3>1, <3>2, <3>3
  <2>3. CASE k \notin {0, 1}
    <3>1. /\ k \in 2 .. N /\ k \in 1 .. N /\ k - 1 \in 1 .. N /\ k - 1 \in 0 .. N
          /\ k - 1 < k /\ k - 1 # 0
      BY <1>1, <2>3
    <3> DEFINE p == f[k - 1]
               r == f[k]
               iv == ivs[k]
    <3>2. Good(k - 1)
      BY <1>8, <3>1
    <3>3. p \in Seq(Stretch) /\ p # << >> /\ r = Merge(p, iv) /\ iv \in Stretch
      BY <1>1, <1>5, <1>6, <3>1 DEF V
    <3>4. p[Len(p)].start <= iv.start
      <4>1. Len(p) \in Nat \ {0}
        BY <3>3, EmptySeq
      <4>2. Len(p) \in 1 .. Len(p)
        BY <4>1
      <4>3. p[Len(p)] \in Stretch
        BY <3>3, <4>2, ElementOfSeq
      <4>4. ivs[k - 1].start <= ivs[k].start
        BY <3>1 DEF N
      <4>5. p[Len(p)].start \in Int /\ ivs[k - 1].start \in Int /\ ivs[k].start \in Int
        BY <1>1, <3>1, <4>3 DEF Stretch
      <4>6. p[Len(p)].start <= ivs[k - 1].start
        BY <3>2
      <4> HIDE DEF p
      <4>7. QED
        BY <4>4, <4>5, <4>6
    <3>5. 1 <= iv.start /\ iv.start <= iv.end /\ iv.end <= total
      BY <1>7, <3>1
    <3>6. Apart(p, total) /\ Covered(p, Len(p)) = Covered(ivs, k - 1)
      BY <3>2
    <3> HIDE DEF p, r, iv
    <3>7. /\ Apart(r, total) /\ r[Len(r)].start <= iv.start
          /\ \A n \in Int : n \in Covered(r, Len(r)) <=>
              n \in Covered(p, Len(p)) \/ (iv.start <= n /\ n <= iv.end)
      BY <3>3, <3>4, <3>5, <3>6, MergeKeepsApart
    <3>8. ASSUME NEW n \in Int
          PROVE  n \in Covered(ivs, k) <=>
                   n \in Covered(ivs, k - 1) \/ (iv.start <= n /\ n <= iv.end)
      <4>1. /\ \A g \in 1 .. k : g \in 1 .. k - 1 \/ g = k
            /\ \A g \in 1 .. k - 1 : g \in 1 .. k
            /\ k \in 1 .. k
        BY <3>1
      <4>2. QED
        BY <4>1 DEF Covered, iv
    <3>9. Covered(r, Len(r)) = Covered(ivs, k)
      <4>1. Covered(r, Len(r)) \subseteq Int /\ Covered(ivs, k) \subseteq Int
        BY DEF Covered
      <4>2. QED
        BY <3>6, <3>7, <3>8, <4>1
    <3>10. QED
      BY <3>7, <3>9 DEF r, iv
  <2>4. QED
    BY <2>1, <2>2, <2>3
<1> HIDE DEF G
<1>9. \A k \in 0 .. N : k \in G
  <2>1. 0 .. N \in SUBSET Nat
    BY <1>1
  <2>2. QED
    BY <1>1, <1>8, <2>1, InductionFromBelow
<1>10. Good(N)
  <2>1. N \in 0 .. N /\ N # 0
    BY <1>1
  <2>2. QED
    BY <1>9, <2>1 DEF G
<1>11. f[N] \in V
  BY <1>2, <1>5
<1>12. QED
  BY <1>5, <1>10, <1>11 DEF V, N

-----------------------------------------------------------------------------
(* Lines in order, one group after the other.                              *)

\* What is picked stays in its order.
StaysInOrder(q, s, P) ==
  \A l, m \in 1 .. Len(q) : l < m =>
    \E i, j \in P : i < j /\ q[l] = s[i] /\ q[m] = s[j]

LEMMA PickedStaysInOrder ==
  ASSUME NEW X, NEW s \in Seq(X), NEW P \in SUBSET (1 .. Len(s))
  PROVE  StaysInOrder(Picked(s, P), s, P)
<1> DEFINE N == Len(s)
<1>1. N \in Nat
  OBVIOUS
<1>2. PICK f : /\ PicksFrom(f, s, P) /\ Picked(s, P) = f[N]
               /\ \A k \in 0 .. N : f[k] \in Seq(X)
  BY PickedUnfolds
<1>3. f[0] = << >> /\ \A k \in 1 .. N : f[k] = IF k \in P THEN Append(f[k - 1], s[k]) ELSE f[k - 1]
  BY <1>2 DEF PicksFrom
<1>4. \A k \in 1 .. N : s[k] \in X
  BY ElementOfSeq
<1> HIDE DEF N
<1> DEFINE Good(q, k) == /\ StaysInOrder(q, s, P)
                         /\ \A m \in 1 .. Len(q) : \E i \in P : i <= k /\ q[m] = s[i]
           G == { k \in 0 .. N : Good(f[k], k) }
<1>5. ASSUME NEW k \in 0 .. N, \A j \in 0 .. N : j < k => j \in G PROVE k \in G
  <2>1. CASE k = 0
    <3>1. f[k] = << >> /\ Len(<< >>) = 0
      BY <1>3, <2>1, EmptySeq
    <3>2. \A m \in 1 .. 0 : FALSE
      OBVIOUS
    <3>3. Good(f[k], k)
      BY <3>1, <3>2 DEF StaysInOrder
    <3>4. QED
      BY <3>3
  <2>2. CASE k # 0
    <3>1. k \in 1 .. N /\ k - 1 \in 0 .. N /\ k - 1 < k /\ k \in Int
      BY <1>1, <2>2
    <3> DEFINE q == f[k - 1]
               r == f[k]
    <3>2. Good(q, k - 1)
      BY <1>5, <3>1
    <3>3. q \in Seq(X)
      BY <1>2, <3>1
    <3>4. r = IF k \in P THEN Append(q, s[k]) ELSE q
      BY <1>3, <3>1
    <3>5. P \subseteq Int
      BY <1>1 DEF N
    <3> HIDE DEF q, r
    <3>6. \A i \in P : i <= k - 1 => i <= k /\ i < k
      BY <3>1, <3>5
    <3>7. CASE k \notin P
      <4>1. r = q
        BY <3>4, <3>7
      <4>2. Good(r, k)
        BY <3>2, <3>6, <4>1
      <4>3. QED
        BY <4>2 DEF r
    <3>8. CASE k \in P
      <4>1. /\ Len(q) \in Nat /\ Len(r) = Len(q) + 1 /\ r[Len(q) + 1] = s[k]
            /\ \A m \in 1 .. Len(q) : r[m] = q[m]
        BY <1>4, <3>1, <3>3, <3>4, <3>8, AppendProperties
      <4>2. /\ \A m \in 1 .. Len(r) : m \in 1 .. Len(q) \/ m = Len(q) + 1
            /\ \A l, m \in 1 .. Len(r) : l < m => l \in 1 .. Len(q)
        BY <4>1
      <4>3. \A m \in 1 .. Len(q) : \E i \in P : i <= k /\ i < k /\ r[m] = s[i]
        BY <3>2, <3>6, <4>1
      <4>4. \A m \in 1 .. Len(r) : \E i \in P : i <= k /\ r[m] = s[i]
        <5>1. k <= k
          BY <3>1
        <5>2. QED
          BY <3>8, <4>1, <4>2, <4>3, <5>1
      <4>5. ASSUME NEW l \in 1 .. Len(r), NEW m \in 1 .. Len(r), l < m
            PROVE  \E i, j \in P : i < j /\ r[l] = s[i] /\ r[m] = s[j]
        <5>1. l \in 1 .. Len(q)
          BY <4>2, <4>5
        <5>2. CASE m \in 1 .. Len(q)
          <6>1. \E i, j \in P : i < j /\ q[l] = s[i] /\ q[m] = s[j]
            BY <3>2, <4>5, <5>1, <5>2 DEF StaysInOrder
          <6>2. QED
            BY <4>1, <5>1, <5>2, <6>1
        <5>3. CASE m = Len(q) + 1
          BY <3>8, <4>1, <4>3, <5>1, <5>3
        <5>4. QED
          BY <4>2, <5>2, <5>3
      <4>6. Good(r, k)
        BY <4>4, <4>5 DEF StaysInOrder
      <4>7. QED
        BY <4>6 DEF r
    <3>9. QED
      BY <3>7, <3>8
  <2>3. QED
    BY <2>1, <2>2
<1> HIDE DEF G
<1>6. \A k \in 0 .. N : k \in G
  <2>1. 0 .. N \in SUBSET Nat
    BY <1>1
  <2>2. QED
    BY <1>1, <1>5, <2>1, InductionFromBelow
<1>7. N \in G
  BY <1>1, <1>6
<1>8. QED
  BY <1>2, <1>7 DEF G

\* Lines by their numbers, each once.
LinesInOrder(q) == \A l, m \in 1 .. Len(q) : l < m => q[l].n < q[m].n

\* Groups that are in order, each in itself, are in order one after another.
LEMMA FlattenInOrder ==
  ASSUME NEW ss \in Seq(Seq(GroupLine)),
         \A g \in 1 .. Len(ss) : LinesInOrder(ss[g]),
         \A g, h \in 1 .. Len(ss) : g < h =>
           \A x \in ToSet(ss[g]), y \in ToSet(ss[h]) : x.n < y.n
  PROVE  LinesInOrder(FlattenSeq(ss))
<1> DEFINE N == Len(ss)
<1>1. N \in Nat /\ \A k \in 1 .. N : ss[k] \in Seq(GroupLine)
  BY ElementOfSeq
<1>2. CASE ss = << >>
  <2>1. FlattenSeq(ss) = << >> /\ Len(<< >>) = 0
    BY <1>2, EmptySeq DEF FlattenSeq
  <2>2. QED
    BY <2>1 DEF LinesInOrder
<1>3. CASE ss # << >>
  <2>1. N \in Nat \ {0}
    BY <1>3, EmptySeq
  <2>2. PICK f : /\ FlattensFrom(f, ss) /\ FlattenSeq(ss) = f[N]
                 /\ \A k \in 1 .. N : f[k] \in Seq(GroupLine)
    BY <1>3, FlattenUnfolds
  <2>3. f[1] = ss[1] /\ \A k \in 2 .. N : f[k] = f[k - 1] \o ss[k]
    BY <2>2 DEF FlattensFrom
  <2>4. /\ \A g \in 1 .. N : LinesInOrder(ss[g])
        /\ \A g, h \in 1 .. N : g < h => \A x \in ToSet(ss[g]), y \in ToSet(ss[h]) : x.n < y.n
    OBVIOUS
  <2> HIDE DEF N
  <2> DEFINE Good(q, k) == /\ LinesInOrder(q)
                           /\ \A m \in 1 .. Len(q) : \E g \in 1 .. k : q[m] \in ToSet(ss[g])
             G == { k \in 0 .. N : k = 0 \/ Good(f[k], k) }
  <2>10. ASSUME NEW k \in 0 .. N, \A j \in 0 .. N : j < k => j \in G PROVE k \in G
    <3>1. CASE k = 0
      BY <3>1
    <3>2. CASE k = 1
      <4>1. 1 \in 1 .. N /\ 1 \in 1 .. 1
        BY <2>1
      <4>2. LinesInOrder(ss[1])
        BY <2>4, <4>1
      <4>3. \A m \in 1 .. Len(ss[1]) : ss[1][m] \in ToSet(ss[1])
        BY <1>1, <4>1, ToSetFacts
      <4>4. QED
        BY <2>3, <3>2, <4>1, <4>2, <4>3
    <3>3. CASE k \notin {0, 1}
      <4>1. /\ k \in 2 .. N /\ k \in 1 .. N /\ k - 1 \in 1 .. N /\ k - 1 \in 0 .. N
            /\ k - 1 < k /\ k - 1 # 0 /\ k \in 1 .. k
        BY <2>1, <3>3
      <4> DEFINE p == f[k - 1]
                 r == ss[k]
                 pr == p \o r
      <4>2. Good(p, k - 1)
        BY <2>10, <4>1
      <4>3. f[k] = pr /\ p \in Seq(GroupLine) /\ r \in Seq(GroupLine) /\ LinesInOrder(r)
        BY <1>1, <2>2, <2>3, <2>4, <4>1 DEF N
      <4> HIDE DEF p, r
      <4>4. /\ Len(pr) = Len(p) + Len(r)
            /\ \A i \in 1 .. Len(p) + Len(r) : pr[i] = IF i <= Len(p) THEN p[i] ELSE r[i - Len(p)]
        BY <4>3, ConcatProperties
      <4> HIDE DEF pr
      <4>5. Len(p) \in Nat /\ Len(r) \in Nat
        BY <4>3
      <4>6. /\ \A m \in 1 .. Len(p) : pr[m] = p[m]
            /\ \A m \in 1 .. Len(pr) : m \notin 1 .. Len(p) =>
                 m - Len(p) \in 1 .. Len(r) /\ pr[m] = r[m - Len(p)]
        BY <4>4, <4>5
      <4>7. \A m \in 1 .. Len(r) : r[m] \in ToSet(ss[k])
        BY <4>3, ToSetFacts DEF r
      <4>8. \A g \in 1 .. k - 1 : g \in 1 .. k /\ g \in 1 .. N /\ g < k
        BY <2>1, <4>1
      <4>9. \A m \in 1 .. Len(p) : \E g \in 1 .. k - 1 : p[m] \in ToSet(ss[g])
        BY <4>2
      <4>10. \A m \in 1 .. Len(pr) : \E g \in 1 .. k : pr[m] \in ToSet(ss[g])
        BY <4>1, <4>6, <4>7, <4>8, <4>9
      <4>11. ASSUME NEW l \in 1 .. Len(pr), NEW m \in 1 .. Len(pr), l < m
             PROVE  pr[l].n < pr[m].n
        <5>1. CASE m \in 1 .. Len(p)
          <6>1. l \in 1 .. Len(p)
            BY <4>5, <4>11, <5>1
          <6>2. p[l].n < p[m].n
            BY <4>2, <4>11, <5>1, <6>1 DEF LinesInOrder
          <6>3. QED
            BY <4>6, <5>1, <6>1, <6>2
        <5>2. CASE m \notin 1 .. Len(p) /\ l \in 1 .. Len(p)
          <6>1. PICK g \in 1 .. k - 1 : p[l] \in ToSet(ss[g])
            BY <4>9, <5>2
          <6>2. r[m - Len(p)] \in ToSet(ss[k])
            BY <4>6, <4>7, <5>2
          <6>3. p[l].n < r[m - Len(p)].n
            BY <2>4, <4>1, <4>8, <6>1, <6>2
          <6>4. QED
            BY <4>6, <5>2, <6>3
        <5>3. CASE l \notin 1 .. Len(p)
          <6>1. m \notin 1 .. Len(p) /\ l - Len(p) < m - Len(p)
            BY <4>4, <4>5, <4>11, <5>3
          <6>2. r[l - Len(p)].n < r[m - Len(p)].n
            BY <4>3, <4>6, <5>3, <6>1 DEF LinesInOrder
          <6>3. QED
            BY <4>6, <5>3, <6>1, <6>2
        <5>4. QED
          BY <5>1, <5>2, <5>3
      <4>12. Good(pr, k)
        BY <4>10, <4>11 DEF LinesInOrder
      <4>13. QED
        BY <4>3, <4>12
    <3>4. QED
      BY <3>1, <3>2, <3>3
  <2> HIDE DEF G
  <2>11. \A k \in 0 .. N : k \in G
    <3>1. 0 .. N \in SUBSET Nat
      BY <2>1
    <3>2. QED
      BY <2>1, <2>10, <3>1, InductionFromBelow
  <2>12. N \in G /\ N # 0
    BY <2>1, <2>11
  <2>13. QED
    BY <2>2, <2>12 DEF G
<1>4. QED
  BY <1>2, <1>3

-----------------------------------------------------------------------------
(* The groups of lines with context.                                       *)

\* Line k of a group.
Marked(k, matches) == [n |-> k, isMatch |-> k \in ToSet(matches)]

\* A group has the lines of its interval, in order.
LEMMA GroupExact ==
  ASSUME NEW iv \in Stretch, NEW matches, NEW q, q = Group(iv, matches)
  PROVE  /\ q \in Seq(GroupLine) /\ LinesInOrder(q)
         /\ ToSet(q) = { Marked(k, matches) : k \in iv.start .. iv.end }
<1> DEFINE n == Greatest(iv.end - iv.start + 1, 0)
           row(k) == [n |-> iv.start + k - 1, isMatch |-> iv.start + k - 1 \in ToSet(matches)]
           r == [k \in 1 .. n |-> row(k)]
<1>1. iv.start \in Int /\ iv.end \in Int
  BY DEF Stretch
<1>2. n \in Nat /\ (iv.start <= iv.end => n = iv.end - iv.start + 1) /\ (iv.end < iv.start => n = 0)
  BY <1>1 DEF Greatest
<1>3. q = r
  BY DEF Group
<1> HIDE DEF n
<1>4. \A k \in 1 .. n : row(k) \in GroupLine
  BY <1>1, <1>2 DEF GroupLine
<1>5. r \in Seq(GroupLine) /\ Len(r) = n /\ \A k \in 1 .. n : r[k] = row(k)
  <2>1. r \in [1 .. n -> GroupLine] /\ \A k \in 1 .. n : r[k] = row(k)
    BY <1>4
  <2> HIDE DEF r
  <2>2. QED
    BY <1>2, <2>1
<1> HIDE DEF r
<1>6. LinesInOrder(r)
  <2>1. \A l, m \in 1 .. n : l < m => iv.start + l - 1 < iv.start + m - 1
    BY <1>1, <1>2
  <2>2. \A l \in 1 .. n : r[l].n = iv.start + l - 1
    BY <1>5
  <2>3. QED
    BY <1>5, <2>1, <2>2 DEF LinesInOrder
<1>7. \A k \in 1 .. n : iv.start + k - 1 \in iv.start .. iv.end /\ r[k] = Marked(iv.start + k - 1, matches)
  BY <1>1, <1>2, <1>5 DEF Marked
<1>8. ASSUME NEW k \in iv.start .. iv.end PROVE Marked(k, matches) \in ToSet(r)
  <2> DEFINE i == k - iv.start + 1
  <2>1. i \in 1 .. n /\ iv.start + i - 1 = k
    BY <1>1, <1>2
  <2> HIDE DEF i
  <2>2. r[i] = Marked(k, matches)
    BY <1>7, <2>1
  <2>3. r[i] \in ToSet(r)
    BY <1>5, <2>1, ToSetFacts
  <2>4. QED
    BY <2>2, <2>3
<1>9. \A x \in ToSet(r) : \E k \in 1 .. n : x = r[k]
  BY <1>5, ToSetFacts
<1>10. QED
  BY <1>3, <1>5, <1>6, <1>7, <1>8, <1>9

\* The lines around the matches.
Around(matches, total, c) ==
  { k \in 1 .. total : \E i \in ToSet(matches) : i - c.before <= k /\ k <= i + c.after }

\* The intervals around the matches.
LEMMA IntervalsExact ==
  ASSUME NEW total \in Nat, NEW c, IsConfig(c), NEW matches \in Seq(1 .. total),
         InOrder(matches), \A i \in ToSet(matches) : ~(i + c.after > MaxInt),
         NEW ivs, ivs = [i \in DOMAIN matches |-> Interval(matches[i], total, c)]
  PROVE  /\ ivs \in Seq(Stretch) /\ Len(ivs) = Len(matches)
         /\ \A i \in 1 .. Len(ivs) :
              1 <= ivs[i].start /\ ivs[i].start <= ivs[i].end /\ ivs[i].end <= total
         /\ \A i, j \in 1 .. Len(ivs) : i < j => ivs[i].start <= ivs[j].start
         /\ Covered(ivs, Len(ivs)) = Around(matches, total, c)
<1> DEFINE N == Len(matches)
<1>1. MaxInt \in Nat /\ c.before \in Nat /\ c.after \in Nat
  BY IntervalAssumption DEF IsConfig
<1>2. /\ N \in Nat /\ DOMAIN matches = 1 .. N
      /\ \A i \in 1 .. N : matches[i] \in 1 .. total /\ matches[i] \in ToSet(matches)
      /\ \A x \in ToSet(matches) : \E i \in 1 .. N : x = matches[i]
  BY ToSetFacts
<1> HIDE DEF N
<1>3. ASSUME NEW i \in 1 .. N
      PROVE  /\ Interval(matches[i], total, c) \in Stretch
             /\ Interval(matches[i], total, c).start = Greatest(matches[i] - c.before, 1)
             /\ Interval(matches[i], total, c).end = Least(matches[i] + c.after, total)
  <2> DEFINE m == matches[i]
  <2>1. m \in 1 .. total /\ ~(m + c.after > MaxInt)
    BY <1>2
  <2> HIDE DEF m
  <2>2. Plus(m, c.after) = m + c.after
    BY <1>1, <2>1 DEF Plus
  <2>3. /\ Interval(m, total, c) \in Stretch
        /\ Interval(m, total, c).start = Greatest(m - c.before, 1)
        /\ Interval(m, total, c).end = Least(m + c.after, total)
    BY <1>1, <2>1, <2>2 DEF Interval, Stretch, Greatest, Least
  <2>4. QED
    BY <2>3 DEF m
<1>4. /\ ivs \in Seq(Stretch) /\ Len(ivs) = N
      /\ \A i \in 1 .. N : /\ ivs[i].start = Greatest(matches[i] - c.before, 1)
                           /\ ivs[i].end = Least(matches[i] + c.after, total)
  <2>1. ivs \in [1 .. N -> Stretch] /\ \A i \in 1 .. N : ivs[i] = Interval(matches[i], total, c)
    BY <1>2, <1>3
  <2>2. ivs \in Seq(Stretch) /\ Len(ivs) = N
    BY <1>2, <2>1, IsASeq, LenProperties
  <2>3. QED
    BY <1>3, <2>1, <2>2
<1>5. ASSUME NEW i \in 1 .. N, NEW m \in 1 .. total, m = matches[i]
      PROVE  /\ 1 <= ivs[i].start /\ ivs[i].start <= ivs[i].end /\ ivs[i].end <= total
             /\ \A k \in Int : ivs[i].start <= k /\ k <= ivs[i].end <=>
                   k \in 1 .. total /\ m - c.before <= k /\ k <= m + c.after
             /\ \A n \in 1 .. total, j \in 1 .. N : m < n /\ n = matches[j] =>
                   ivs[i].start <= ivs[j].start
  <2>1. ivs[i].start = Greatest(m - c.before, 1) /\ ivs[i].end = Least(m + c.after, total)
    BY <1>4, <1>5
  <2>2. /\ 1 <= Greatest(m - c.before, 1) /\ Greatest(m - c.before, 1) <= Least(m + c.after, total)
        /\ Least(m + c.after, total) <= total
    BY <1>1 DEF Greatest, Least
  <2>3. ASSUME NEW k \in Int
        PROVE  Greatest(m - c.before, 1) <= k /\ k <= Least(m + c.after, total) <=>
                   k \in 1 .. total /\ m - c.before <= k /\ k <= m + c.after
    BY <1>1 DEF Greatest, Least
  <2>4. ASSUME NEW n \in 1 .. total, NEW j \in 1 .. N, m < n, n = matches[j]
        PROVE  ivs[i].start <= ivs[j].start
    <3>1. ivs[j].start = Greatest(n - c.before, 1)
      BY <1>4, <2>4
    <3>2. Greatest(m - c.before, 1) <= Greatest(n - c.before, 1)
      BY <1>1, <2>4 DEF Greatest
    <3>3. QED
      BY <2>1, <3>1, <3>2
  <2>5. QED
    BY <2>1, <2>2, <2>3, <2>4
<1>6. ASSUME NEW i \in 1 .. N, NEW j \in 1 .. N, i < j PROVE ivs[i].start <= ivs[j].start
  <2>1. matches[i] < matches[j]
    BY <1>6 DEF InOrder, N
  <2>2. QED
    BY <1>2, <1>5, <2>1
<1>7. ASSUME NEW k \in Int, NEW i \in 1 .. N
      PROVE  ivs[i].start <= k /\ k <= ivs[i].end <=>
               k \in 1 .. total /\ matches[i] - c.before <= k /\ k <= matches[i] + c.after
  BY <1>2, <1>5
<1>8. Covered(ivs, N) = Around(matches, total, c)
  <2>1. \A k \in Covered(ivs, N) : k \in Around(matches, total, c)
    BY <1>2, <1>7 DEF Covered, Around
  <2>2. \A k \in Around(matches, total, c) : k \in Covered(ivs, N)
    <3>1. \A k \in 1 .. total : k \in Int
      OBVIOUS
    <3>2. QED
      BY <1>2, <1>7, <3>1 DEF Covered, Around
  <2>3. QED
    BY <2>1, <2>2
<1>9. QED
  BY <1>2, <1>4, <1>5, <1>6, <1>8 DEF N

\* The groups have the lines around the matches, in order, with the matches marked.
LEMMA GroupsExact ==
  ASSUME NEW total \in Nat, NEW c, IsConfig(c), NEW matches \in Seq(1 .. total), matches # << >>,
         InOrder(matches), \A i \in ToSet(matches) : ~(i + c.after > MaxInt),
         NEW groups, groups = ContextGroups(matches, total, c)
  PROVE  /\ groups \in Seq(Seq(GroupLine)) /\ groups # << >>
         /\ FlattenSeq(groups) \in Seq(GroupLine) /\ LinesInOrder(FlattenSeq(groups))
         /\ ToSet(FlattenSeq(groups)) = { Marked(k, matches) : k \in Around(matches, total, c) }
<1> DEFINE ivs == [i \in DOMAIN matches |-> Interval(matches[i], total, c)]
           joined == Joined(ivs)
<1>1. /\ ivs \in Seq(Stretch) /\ Len(ivs) = Len(matches)
      /\ \A i \in 1 .. Len(ivs) :
              1 <= ivs[i].start /\ ivs[i].start <= ivs[i].end /\ ivs[i].end <= total
      /\ \A i, j \in 1 .. Len(ivs) : i < j => ivs[i].start <= ivs[j].start
      /\ Covered(ivs, Len(ivs)) = Around(matches, total, c)
  BY IntervalsExact
<1>2. groups = [g \in DOMAIN joined |-> Group(joined[g], matches)]
  BY DEF ContextGroups
<1> HIDE DEF ivs
<1>3. ivs # << >>
  BY <1>1, EmptySeq
<1>4. /\ joined \in Seq(Stretch) /\ joined # << >> /\ Apart(joined, total)
      /\ Covered(joined, Len(joined)) = Around(matches, total, c)
  BY <1>1, <1>3, JoinedExact
<1> HIDE DEF joined
<1> DEFINE N == Len(joined)
<1>5. /\ N \in Nat \ {0} /\ DOMAIN joined = 1 .. N
      /\ \A g \in 1 .. N : joined[g] \in Stretch
  BY <1>4, EmptySeq, ElementOfSeq, LenProperties
<1>6. \A g \in 1 .. N : joined[g].start \in Int /\ joined[g].end \in Int
  BY <1>5 DEF Stretch
<1>7. \A g, h \in 1 .. N : g < h => joined[g].end + 1 < joined[h].start
  BY <1>4 DEF Apart
<1>8. Covered(joined, N) = Around(matches, total, c)
  BY <1>4
<1> HIDE DEF N
<1>9. /\ groups \in [1 .. N -> Seq(GroupLine)]
      /\ \A g \in 1 .. N : /\ groups[g] = Group(joined[g], matches)
                           /\ LinesInOrder(groups[g])
                           /\ ToSet(groups[g]) = { Marked(k, matches) : k \in joined[g].start .. joined[g].end }
  <2>1. \A g \in 1 .. N : Group(joined[g], matches) \in Seq(GroupLine)
    BY <1>5, GroupExact
  <2>2. groups \in [1 .. N -> Seq(GroupLine)] /\ \A g \in 1 .. N : groups[g] = Group(joined[g], matches)
    BY <1>2, <1>5, <2>1
  <2>3. QED
    BY <1>5, <2>2, GroupExact
<1>10. groups \in Seq(Seq(GroupLine)) /\ Len(groups) = N
  BY <1>5, <1>9, IsASeq, LenProperties
<1>11. groups # << >>
  BY <1>5, <1>10, EmptySeq
<1>12. ASSUME NEW g \in 1 .. N, NEW h \in 1 .. N, g < h,
              NEW x \in ToSet(groups[g]), NEW y \in ToSet(groups[h])
       PROVE  x.n < y.n
  <2>1. PICK k \in joined[g].start .. joined[g].end : x = Marked(k, matches)
    BY <1>9
  <2>2. PICK l \in joined[h].start .. joined[h].end : y = Marked(l, matches)
    BY <1>9
  <2>3. x.n = k /\ y.n = l
    BY <2>1, <2>2 DEF Marked
  <2>4. QED
    BY <1>6, <1>7, <1>12, <2>3
<1>13. LinesInOrder(FlattenSeq(groups))
  BY <1>9, <1>10, <1>12, FlattenInOrder
<1>14. FlattenSeq(groups) \in Seq(GroupLine) /\ ToSet(FlattenSeq(groups)) = FlatSet(groups, N)
  BY <1>10, FlattenElements
<1>15. FlatSet(groups, N) = { Marked(k, matches) : k \in Covered(joined, N) }
  <2>1. ASSUME NEW x \in FlatSet(groups, N) PROVE \E k \in Covered(joined, N) : x = Marked(k, matches)
    <3>1. PICK g \in 1 .. N : x \in ToSet(groups[g])
      BY DEF FlatSet
    <3>2. PICK k \in joined[g].start .. joined[g].end : x = Marked(k, matches)
      BY <1>9, <3>1
    <3>3. k \in Int /\ joined[g].start <= k /\ k <= joined[g].end
      BY <1>6, <3>1
    <3>4. QED
      BY <3>2, <3>3 DEF Covered
  <2>2. ASSUME NEW k \in Covered(joined, N) PROVE Marked(k, matches) \in FlatSet(groups, N)
    <3>1. PICK g \in 1 .. N : k \in Int /\ joined[g].start <= k /\ k <= joined[g].end
      BY DEF Covered
    <3>2. k \in joined[g].start .. joined[g].end
      BY <1>6, <3>1
    <3>3. Marked(k, matches) \in ToSet(groups[g])
      BY <1>9, <3>1, <3>2
    <3>4. QED
      BY <3>1, <3>3 DEF FlatSet
  <2>3. QED
    BY <2>1, <2>2
<1>16. QED
  BY <1>8, <1>10, <1>11, <1>13, <1>14, <1>15

-----------------------------------------------------------------------------
(* What a task yields for a blob: its wanted lines and their context.      *)

\* A line of b as it is shown.
LineShown(b, k) == [n |-> k, isMatch |-> k \in Wanted(b)]

\* The lines of b that are to be shown.
Near(b) == { k \in DOMAIN b.lines : IsNear(b, k) }

\* The numbers of lines, and how many of them are marked, are those of the lines.
LEMMA NumbersExact ==
  ASSUME NEW s \in Seq(GroupLine), LinesInOrder(s), NEW W \in SUBSET Int,
         \A x \in ToSet(s) : x.isMatch <=> x.n \in W,
         \A k \in W : \E x \in ToSet(s) : x.n = k,
         NEW q, q = Picked(s, { i \in DOMAIN s : s[i].isMatch }),
         NEW m, m = [i \in DOMAIN q |-> q[i].n]
  PROVE  m \in Seq(Int) /\ InOrder(m) /\ ToSet(m) = W /\ Len(m) = Cardinality(W)
<1> DEFINE P == { i \in DOMAIN s : s[i].isMatch }
<1>1. /\ DOMAIN s = 1 .. Len(s) /\ Len(s) \in Nat
      /\ \A i \in 1 .. Len(s) : s[i] \in GroupLine /\ s[i] \in ToSet(s)
      /\ \A x \in ToSet(s) : \E i \in 1 .. Len(s) : x = s[i]
  BY ToSetFacts
<1>2. P \in SUBSET (1 .. Len(s)) /\ P \in SUBSET DOMAIN s
  BY <1>1
<1>3. q = Picked(s, P)
  OBVIOUS
<1>4. \A i \in P : s[i].isMatch
  OBVIOUS
<1>5. \A i \in 1 .. Len(s) : s[i].isMatch => i \in P
  BY <1>1
<1> HIDE DEF P
<1>6. q \in Seq(GroupLine) /\ ToSet(q) = { s[i] : i \in P } /\ StaysInOrder(q, s, P)
  <2>1. Picked(s, P) \in Seq(GroupLine) /\ ToSet(Picked(s, P)) = { s[i] : i \in P }
    BY <1>2, PickedElements
  <2>2. StaysInOrder(Picked(s, P), s, P)
    BY <1>2, PickedStaysInOrder
  <2>3. QED
    BY <1>3, <2>1, <2>2
<1>7. /\ DOMAIN q = 1 .. Len(q) /\ Len(q) \in Nat
      /\ \A i \in 1 .. Len(q) : q[i] \in GroupLine /\ q[i] \in ToSet(q)
      /\ \A x \in ToSet(q) : \E i \in 1 .. Len(q) : x = q[i]
  <2> DEFINE p == q
  <2>1. p \in Seq(GroupLine)
    BY <1>6
  <2> HIDE DEF p
  <2>2. /\ DOMAIN p = 1 .. Len(p) /\ Len(p) \in Nat
        /\ \A i \in 1 .. Len(p) : p[i] \in GroupLine /\ p[i] \in ToSet(p)
        /\ \A x \in ToSet(p) : \E i \in 1 .. Len(p) : x = p[i]
    BY <2>1, ToSetFacts
  <2>3. QED
    BY <2>2 DEF p
<1>8. \A x \in GroupLine : x.n \in Int
  BY DEF GroupLine
<1>9. m \in [1 .. Len(q) -> Int] /\ \A i \in 1 .. Len(q) : m[i] = q[i].n
  BY <1>7, <1>8
<1>10. m \in Seq(Int) /\ Len(m) = Len(q)
  <2> DEFINE u == m
             n == Len(q)
  <2>1. n \in Nat /\ u \in [1 .. n -> Int]
    BY <1>7, <1>9
  <2> HIDE DEF u, n
  <2>2. u \in Seq(Int) /\ Len(u) = n
    BY <2>1, IsASeq, LenProperties
  <2>3. QED
    BY <2>2 DEF u, n
<1>11. InOrder(m)
  <2> SUFFICES ASSUME NEW k \in 1 .. Len(q), NEW l \in 1 .. Len(q), k < l PROVE m[k] < m[l]
    BY <1>10 DEF InOrder
  <2>1. PICK i \in P, j \in P : i < j /\ q[k] = s[i] /\ q[l] = s[j]
    BY <1>6 DEF StaysInOrder
  <2>2. s[i].n < s[j].n
    BY <1>2, <2>1 DEF LinesInOrder
  <2>3. QED
    BY <1>9, <2>1, <2>2
<1>12. ASSUME NEW k \in ToSet(m) PROVE k \in W
  <2>1. PICK i \in 1 .. Len(q) : k = q[i].n
    <3> DEFINE p == m
    <3>0. p \in Seq(Int) /\ k \in ToSet(p)
      BY <1>10
    <3> HIDE DEF p
    <3>1. \E i \in 1 .. Len(p) : k = p[i]
      BY <3>0, ToSetFacts
    <3>2. QED
      BY <1>9, <1>10, <3>1 DEF p
  <2>2. PICK j \in P : q[i] = s[j]
    BY <1>6, <1>7
  <2>3. s[j].isMatch /\ s[j] \in ToSet(s)
    BY <1>1, <1>2, <1>4
  <2>4. QED
    BY <2>1, <2>2, <2>3
<1>13. ASSUME NEW k \in W PROVE k \in ToSet(m)
  <2>1. PICK j \in 1 .. Len(s) : s[j].n = k
    BY <1>1
  <2>2. j \in P
    BY <1>1, <1>5, <2>1
  <2>3. PICK i \in 1 .. Len(q) : q[i] = s[j]
    BY <1>6, <1>7, <2>2
  <2>4. m[i] \in ToSet(m)
    BY <1>10, <2>3, ToSetFacts
  <2>5. QED
    BY <1>9, <2>1, <2>3, <2>4
<1>14. ToSet(m) = W
  BY <1>12, <1>13
<1>15. QED
  BY <1>10, <1>11, <1>14, InOrderCount

(***************************************************************************)
(* What a task finds in a blob that is not binary: the wanted lines, and   *)
(* with context the lines near them.                                       *)
(***************************************************************************)
TaskIsExact(res, b) ==
  /\ res.isBinary = FALSE
  /\ res.matches \in Seq(Int) /\ InOrder(res.matches)
  /\ ToSet(res.matches) = Wanted(b) /\ Len(res.matches) = Cardinality(Wanted(b))
  /\ res.groups = << >> => ~HasContext(cfg) \/ Wanted(b) = {}
  /\ res.groups # << >> =>
       /\ res.groups \in Seq(Seq(GroupLine))
       /\ LinesInOrder(FlattenSeq(res.groups))
       /\ ToSet(FlattenSeq(res.groups)) = { LineShown(b, k) : k \in Near(b) }

LEMMA TextTaskExact ==
  ASSUME NEW b, IsBlob(b), IsConfig(cfg), ~IsBinary(b), HasContext(cfg) => ~Overflows(b),
         NEW occs, NEW res, res = ProcessTask(occs, b, cfg)
  PROVE  res.occs = occs /\ TaskIsExact(res, b)
<1> DEFINE total == Len(b.lines)
           matches == MatchBlob(b, cfg)
           groups == ContextGroups(matches, total, cfg)
           shown == FlattenSeq(groups)
           P == { k \in DOMAIN shown : shown[k].isMatch }
           marked == Picked(shown, P)
           numbers == [i \in DOMAIN marked |-> marked[i].n]
<1>1. res = IF HasContext(cfg)
            THEN [occs |-> occs, matches |-> numbers, groups |-> groups, isBinary |-> FALSE]
            ELSE [occs |-> occs, matches |-> matches, groups |-> << >>, isBinary |-> FALSE]
  BY DEF ProcessTask, IsBinary, Those
<1>2. /\ matches \in Seq(1 .. total) /\ InOrder(matches)
      /\ ToSet(matches) = Wanted(b) /\ Len(matches) = Cardinality(Wanted(b))
  BY MatchBlobExact
<1>3. total \in Nat /\ DOMAIN b.lines = 1 .. total
  BY LenProperties DEF IsBlob
<1>4. matches \in Seq(Int)
  <2>1. 1 .. total \subseteq Int
    BY <1>3
  <2> HIDE DEF matches, total
  <2>2. QED
    BY <1>2, <2>1, SeqWider
<1>5. Wanted(b) \in SUBSET Int
  <2>1. \A x \in ToSet(matches) : x \in Int
    BY <1>4, ToSetFacts
  <2>2. QED
    BY <1>2, <2>1
<1>6. CASE ~HasContext(cfg)
  BY <1>1, <1>2, <1>4, <1>6 DEF TaskIsExact
<1>7. CASE HasContext(cfg) /\ matches = << >>
  <2>1. groups = << >> /\ marked = << >>
    BY <1>7, NothingFromNothing DEF ContextGroups
  <2>2. numbers = << >>
    <3>1. DOMAIN marked = 1 .. 0
      BY <2>1, EmptySeq, LenProperties
    <3>2. numbers \in [1 .. 0 -> Int]
      BY <3>1
    <3> HIDE DEF numbers
    <3>3. numbers \in Seq(Int) /\ Len(numbers) = 0
      BY <3>2, IsASeq, LenProperties
    <3>4. QED
      BY <3>3, EmptySeq
  <2>3. Wanted(b) = {} /\ numbers = matches
    BY <1>2, <1>7, <2>2 DEF ToSet
  <2> HIDE DEF numbers, groups, matches
  <2>4. QED
    BY <1>1, <1>2, <1>4, <1>7, <2>1, <2>3 DEF TaskIsExact
<1>8. CASE HasContext(cfg) /\ matches # << >>
  <2>1. \A i \in ToSet(matches) : ~(i + cfg.after > MaxInt)
    BY <1>2, <1>8 DEF Overflows
  <2>2. /\ groups \in Seq(Seq(GroupLine)) /\ groups # << >>
        /\ FlattenSeq(groups) \in Seq(GroupLine) /\ LinesInOrder(FlattenSeq(groups))
        /\ ToSet(FlattenSeq(groups)) = { Marked(k, matches) : k \in Around(matches, total, cfg) }
    <3> HIDE DEF matches, total
    <3>1. QED
      BY <1>2, <1>3, <1>8, <2>1, GroupsExact
  <2>3. \A k : Marked(k, matches) = LineShown(b, k)
    BY <1>2 DEF Marked, LineShown
  <2>4. Around(matches, total, cfg) = Near(b)
    BY <1>2, <1>3 DEF Around, Near, IsNear
  <2>5. shown \in Seq(GroupLine) /\ LinesInOrder(shown) /\ ToSet(shown) = { LineShown(b, k) : k \in Near(b) }
    BY <2>2, <2>3, <2>4
  <2>6. \A k \in Wanted(b) : k \in Near(b)
    <3>1. Wanted(b) \subseteq DOMAIN b.lines
      BY DEF Wanted
    <3>2. cfg.before \in Nat /\ cfg.after \in Nat
      BY IntervalAssumption DEF IsConfig
    <3>3. \A k \in Wanted(b) : k - cfg.before <= k /\ k <= k + cfg.after
      BY <1>5, <3>2
    <3>4. QED
      BY <3>1, <3>3 DEF Near, IsNear
  <2>7. groups # << >> /\ groups \in Seq(Seq(GroupLine))
    BY <2>2
  <2> HIDE DEF groups, matches
  <2>8. \A x \in ToSet(shown) : x.isMatch <=> x.n \in Wanted(b)
    <3>1. \A k : LineShown(b, k).isMatch <=> LineShown(b, k).n \in Wanted(b)
      BY DEF LineShown
    <3>2. \A x \in ToSet(shown) : \E k \in Near(b) : x = LineShown(b, k)
      BY <2>5
    <3>3. QED
      BY <3>1, <3>2
  <2>9. \A k \in Wanted(b) : \E x \in ToSet(shown) : x.n = k
    <3>1. \A k \in Wanted(b) : LineShown(b, k) \in ToSet(shown) /\ LineShown(b, k).n = k
      BY <2>5, <2>6 DEF LineShown
    <3>2. QED
      BY <3>1
  <2>10. /\ LinesInOrder(FlattenSeq(groups))
         /\ ToSet(FlattenSeq(groups)) = { LineShown(b, k) : k \in Near(b) }
    BY <2>5
  <2> HIDE DEF shown
  <2>11. /\ numbers \in Seq(Int) /\ InOrder(numbers) /\ ToSet(numbers) = Wanted(b)
         /\ Len(numbers) = Cardinality(Wanted(b))
    BY <1>5, <2>5, <2>8, <2>9, NumbersExact
  <2> HIDE DEF numbers
  <2>12. QED
    BY <1>1, <1>8, <2>7, <2>10, <2>11 DEF TaskIsExact
<1>9. QED
  BY <1>6, <1>7, <1>8

-----------------------------------------------------------------------------
(* What is printed for an occurrence.                                      *)

\* A function on the positions of a sequence is one itself.
LEMMA MappedElements ==
  ASSUME NEW X, NEW s \in Seq(X), NEW Y, NEW t \in [DOMAIN s -> Y]
  PROVE  /\ t \in Seq(Y) /\ Len(t) = Len(s) /\ DOMAIN t = 1 .. Len(s)
         /\ \A i \in 1 .. Len(s) : t[i] \in ToSet(t)
         /\ \A x \in ToSet(t) : \E i \in 1 .. Len(s) : x = t[i]
<1>1. Len(s) \in Nat /\ DOMAIN s = 1 .. Len(s)
  BY LenProperties
<1>2. t \in Seq(Y) /\ Len(t) = Len(s) /\ DOMAIN t = 1 .. Len(s)
  BY <1>1, IsASeq, LenProperties
<1>3. QED
  BY <1>2 DEF ToSet

\* What a formatter can do in one step.
Items == [what : {"match", "context", "binary", "count", "name", "separator",
                  "boundary", "blank", "file", "commit"},
          path : Nat, commit : Nat, n : Int]

\* The item for a line of b.
Shown(b, path, commit, k) ==
  Item(IF k \in Wanted(b) THEN "match" ELSE "context", path, commit, k)

LEMMA LinesPrinted ==
  ASSUME NEW b, IsBlob(b), IsConfig(cfg), NEW c, TaskIsExact(c.res, b),
         NEW path \in Nat, c.commit \in Nat
  PROVE  /\ PrintLines(path, c) \in Seq(Items)
         /\ Wanted(b) # {} => \A k \in Near(b) : Shown(b, path, c.commit, k) \in ToSet(PrintLines(path, c))
<1> DEFINE groups == c.res.groups
           matches == c.res.matches
<1>1. CASE groups = << >>
  <2> DEFINE t == [i \in DOMAIN matches |-> Item("match", path, c.commit, matches[i])]
  <2>1. PrintLines(path, c) = t
    BY <1>1 DEF PrintLines
  <2>2. matches \in Seq(Int) /\ ToSet(matches) = Wanted(b)
    BY DEF TaskIsExact
  <2>3. /\ DOMAIN matches = 1 .. Len(matches) /\ \A i \in 1 .. Len(matches) : matches[i] \in Int
        /\ \A x \in ToSet(matches) : \E i \in 1 .. Len(matches) : x = matches[i]
    <3> HIDE DEF matches
    <3>1. QED
      BY <2>2, ToSetFacts
  <2>4. t \in [DOMAIN matches -> Items] /\ \A i \in 1 .. Len(matches) : t[i] = Item("match", path, c.commit, matches[i])
    BY <2>3 DEF Item, Items
  <2> HIDE DEF matches, t
  <2>5. t \in Seq(Items) /\ \A i \in 1 .. Len(matches) : t[i] \in ToSet(t)
    BY <2>2, <2>4, MappedElements
  <2>6. ASSUME Wanted(b) # {}, NEW k \in Near(b)
        PROVE  Shown(b, path, c.commit, k) \in ToSet(t)
    <3>1. ~HasContext(cfg)
      BY <1>1, <2>6 DEF TaskIsExact
    <3>2. cfg.before = 0 /\ cfg.after = 0
      BY <3>1, IntervalAssumption DEF HasContext, IsConfig
    <3>3. PICK i \in Wanted(b) : i - cfg.before <= k /\ k <= i + cfg.after
      BY DEF Near, IsNear
    <3>4. i \in Int
      BY <2>2, <2>3
    <3>5. k \in Int
      BY LenProperties DEF Near, IsBlob
    <3>6. k \in Wanted(b)
      BY <3>2, <3>3, <3>4, <3>5
    <3>7. PICK j \in 1 .. Len(matches) : k = matches[j]
      BY <2>2, <2>3, <3>6
    <3>8. t[j] = Shown(b, path, c.commit, k)
      BY <2>4, <3>6, <3>7 DEF Shown
    <3>9. QED
      BY <2>5, <3>7, <3>8
  <2>7. QED
    BY <2>1, <2>5, <2>6
<1>2. CASE groups # << >>
  <2> DEFINE print(g) == (IF g > 1 THEN << Item("separator", path, c.commit, 0) >> ELSE << >>)
                  \o [l \in DOMAIN groups[g] |-> Line(path, c.commit, groups[g][l])]
             ss == [g \in DOMAIN groups |-> print(g)]
  <2>1. PrintLines(path, c) = FlattenSeq(ss)
    BY <1>2 DEF PrintLines
  <2>2. /\ groups \in Seq(Seq(GroupLine))
        /\ ToSet(FlattenSeq(groups)) = { LineShown(b, k) : k \in Near(b) }
    BY <1>2 DEF TaskIsExact
  <2> HIDE DEF groups
  <2> DEFINE N == Len(groups)
  <2>3. N \in Nat /\ DOMAIN groups = 1 .. N /\ \A g \in 1 .. N : groups[g] \in Seq(GroupLine)
    BY <2>2, ElementOfSeq, LenProperties
  <2>4. ToSet(FlattenSeq(groups)) = FlatSet(groups, N)
    BY <2>2, FlattenElements
  <2> HIDE DEF N
  <2>5. ASSUME NEW g \in 1 .. N
        PROVE  /\ print(g) \in Seq(Items)
               /\ \A x \in ToSet(groups[g]) : Line(path, c.commit, x) \in ToSet(print(g))
    <3> DEFINE s == groups[g]
               t == [l \in DOMAIN s |-> Line(path, c.commit, s[l])]
               sep == IF g > 1 THEN << Item("separator", path, c.commit, 0) >> ELSE << >>
    <3>1. s \in Seq(GroupLine)
      BY <2>3
    <3> HIDE DEF s
    <3>2. /\ DOMAIN s = 1 .. Len(s) /\ \A i \in 1 .. Len(s) : s[i] \in GroupLine
          /\ \A x \in ToSet(s) : \E i \in 1 .. Len(s) : x = s[i]
      BY <3>1, ToSetFacts
    <3>3. \A x \in GroupLine : Line(path, c.commit, x) \in Items
      BY DEF GroupLine, Line, Item, Items
    <3>4. t \in [DOMAIN s -> Items] /\ \A i \in 1 .. Len(s) : t[i] = Line(path, c.commit, s[i])
      BY <3>2, <3>3
    <3> HIDE DEF t
    <3>5. t \in Seq(Items) /\ \A i \in 1 .. Len(s) : t[i] \in ToSet(t)
      BY <3>1, <3>4, MappedElements
    <3>6. sep \in Seq(Items)
      <4>1. Item("separator", path, c.commit, 0) \in Items
        BY DEF Item, Items
      <4>2. QED
        BY <4>1
    <3> HIDE DEF sep
    <3>7. sep \o t \in Seq(Items) /\ ToSet(sep \o t) = ToSet(sep) \cup ToSet(t)
      BY <3>5, <3>6, ConcatElements
    <3>8. print(g) = sep \o t
      BY DEF sep, t, s
    <3>9. \A x \in ToSet(s) : Line(path, c.commit, x) \in ToSet(t)
      BY <3>2, <3>4, <3>5
    <3>10. QED
      BY <3>7, <3>8, <3>9 DEF s
  <2>6. ss \in [DOMAIN groups -> Seq(Items)] /\ \A g \in 1 .. N : ss[g] = print(g)
    BY <2>3, <2>5
  <2> HIDE DEF print, ss
  <2>7. ss \in Seq(Seq(Items)) /\ Len(ss) = N
    BY <2>2, <2>6, MappedElements DEF N
  <2>8. FlattenSeq(ss) \in Seq(Items) /\ ToSet(FlattenSeq(ss)) = FlatSet(ss, N)
    BY <2>7, FlattenElements
  <2>9. ASSUME NEW k \in Near(b)
        PROVE  Shown(b, path, c.commit, k) \in ToSet(FlattenSeq(ss))
    <3>1. LineShown(b, k) \in FlatSet(groups, N)
      BY <2>2, <2>4
    <3>2. PICK g \in 1 .. N : LineShown(b, k) \in ToSet(groups[g])
      BY <3>1 DEF FlatSet
    <3>3. Line(path, c.commit, LineShown(b, k)) \in ToSet(ss[g])
      BY <2>5, <2>6, <3>2
    <3>4. Line(path, c.commit, LineShown(b, k)) = Shown(b, path, c.commit, k)
      BY DEF Line, LineShown, Shown
    <3>5. QED
      BY <2>8, <3>2, <3>3, <3>4 DEF FlatSet
  <2>10. QED
    BY <2>1, <2>8, <2>9
<1>3. QED
  BY <1>1, <1>2

\* What a formatter prints for one commit of a file.
OnePrinted(path, c) ==
  CASE cfg.mode = "grouped" -> << Item("commit", path, c.commit, 0) >> \o PrintCommit(path, c)
    [] cfg.mode = "single"  -> PrintCommit(path, c)
    [] cfg.mode = "count"   -> PrintCount(path, c)
    [] cfg.mode = "names"   -> << Item("name", path, c.commit, 0) >>

\* A result as the pipeline gives it for blob b.
IsResultOf(res, b) ==
  IF IsBinary(b) THEN res.matches = << >> /\ res.isBinary = (b.raw # cfg.invert)
  ELSE TaskIsExact(res, b)

\* An occurrence is printed with all its finds.
LEMMA OccurrencePrinted ==
  ASSUME IsConfig(cfg), NEW o, IsBlob(Blob(o)), HasMatch(Blob(o)),
         NEW c, IsResultOf(c.res, Blob(o)),
         c.commit = o.commit, o.path \in Nat, o.commit \in Nat
  PROVE  /\ OnePrinted(o.path, c) \in Seq(Items)
         /\ \A x \in Finds(o) : x \in ToSet(OnePrinted(o.path, c))
<1> DEFINE b == Blob(o)
           path == o.path
           commit == o.commit
           n == IF IsBinary(b) THEN 1 ELSE Cardinality(Wanted(b))
<1>1. cfg.mode \in {"grouped", "single", "count", "names"}
  BY DEF IsConfig
<1>2. ASSUME NEW what \in {"match", "context", "binary", "count", "name", "commit"}, NEW m \in Int
      PROVE  Item(what, path, commit, m) \in Items
  BY DEF Item, Items
<1>3. ASSUME NEW x \in Items PROVE << x >> \in Seq(Items) /\ x \in ToSet(<< x >>)
  <2> DEFINE s == << x >>
  <2>1. s \in Seq(Items) /\ Len(s) = 1 /\ s[1] = x /\ 1 \in 1 .. 1
    OBVIOUS
  <2> HIDE DEF s
  <2>2. x \in ToSet(s)
    BY <2>1, ToSetFacts
  <2>3. QED
    BY <2>1, <2>2 DEF s
<1>4. CASE IsBinary(b)
  <2>1. c.res.isBinary = TRUE
    BY <1>4 DEF IsResultOf, HasMatch
  <2>2. PrintCommit(path, c) = << Item("binary", path, commit, 0) >>
    BY <2>1 DEF PrintCommit
  <2>3. PrintCount(path, c) = << Item("count", path, commit, 1) >>
    BY <2>1 DEF PrintCount
  <2>4. Finds(o) = CASE cfg.mode = "names" -> { Item("name", path, commit, 0) }
                     [] cfg.mode = "count" -> { Item("count", path, commit, 1) }
                     [] OTHER -> { Item("binary", path, commit, 0) }
    BY <1>1, <1>4 DEF Finds
  <2>5. CASE cfg.mode = "names"
    BY <1>2, <1>3, <2>4, <2>5 DEF OnePrinted
  <2>6. CASE cfg.mode = "count"
    BY <1>2, <1>3, <2>3, <2>4, <2>6 DEF OnePrinted
  <2>7. CASE cfg.mode = "single"
    BY <1>2, <1>3, <2>2, <2>4, <2>7 DEF OnePrinted
  <2>8. CASE cfg.mode = "grouped"
    <3> DEFINE h == << Item("commit", path, commit, 0) >>
               p == << Item("binary", path, commit, 0) >>
    <3>1. OnePrinted(path, c) = h \o p
      BY <2>2, <2>8 DEF OnePrinted
    <3>2. h \in Seq(Items) /\ p \in Seq(Items) /\ Item("binary", path, commit, 0) \in ToSet(p)
      BY <1>2, <1>3
    <3> HIDE DEF h, p
    <3>3. h \o p \in Seq(Items) /\ ToSet(h \o p) = ToSet(h) \cup ToSet(p)
      BY <3>2, ConcatElements
    <3>4. Finds(o) = { Item("binary", path, commit, 0) }
      BY <2>4, <2>8
    <3>5. QED
      BY <3>1, <3>2, <3>3, <3>4
  <2>9. QED
    BY <1>1, <2>5, <2>6, <2>7, <2>8
<1>5. CASE ~IsBinary(b)
  <2>1. TaskIsExact(c.res, b) /\ c.res.isBinary = FALSE /\ Wanted(b) # {}
    BY <1>5 DEF IsResultOf, HasMatch, TaskIsExact
  <2>2. PrintCommit(path, c) = PrintLines(path, c)
    BY <2>1 DEF PrintCommit
  <2>3. /\ PrintLines(path, c) \in Seq(Items)
        /\ \A k \in Near(b) : Shown(b, path, commit, k) \in ToSet(PrintLines(path, c))
    BY <2>1, LinesPrinted
  <2>4. PrintCount(path, c) = << Item("count", path, commit, n) >> /\ n \in Int
    <3>1. c.res.matches \in Seq(Int) /\ Len(c.res.matches) = Cardinality(Wanted(b)) /\ ToSet(c.res.matches) = Wanted(b)
      BY <2>1 DEF TaskIsExact
    <3> DEFINE m == c.res.matches
    <3> HIDE DEF m
    <3>2. m \in Seq(Int) /\ ToSet(m) # {}
      BY <2>1, <3>1 DEF m
    <3>3. Len(m) # 0 /\ Len(m) \in Int
      <4>1. \A x \in ToSet(m) : \E i \in 1 .. Len(m) : x = m[i]
        BY <3>2, ToSetFacts
      <4>2. QED
        BY <3>2, <4>1
    <3>4. n = Len(m)
      BY <1>5, <3>1 DEF m
    <3>5. QED
      BY <2>1, <3>3, <3>4 DEF PrintCount, m
  <2>5. Finds(o) = CASE cfg.mode = "names" -> { Item("name", path, commit, 0) }
                     [] cfg.mode = "count" -> { Item("count", path, commit, n) }
                     [] OTHER -> { Shown(b, path, commit, k) : k \in Near(b) }
    BY <1>1, <1>5 DEF Finds, Shown, Near
  <2> HIDE DEF n
  <2>6. CASE cfg.mode = "names"
    BY <1>2, <1>3, <2>5, <2>6 DEF OnePrinted
  <2>7. CASE cfg.mode = "count"
    BY <1>2, <1>3, <2>4, <2>5, <2>7 DEF OnePrinted
  <2>8. CASE cfg.mode = "single"
    BY <2>2, <2>3, <2>5, <2>8 DEF OnePrinted
  <2>9. CASE cfg.mode = "grouped"
    <3> DEFINE h == << Item("commit", path, commit, 0) >>
               p == PrintLines(path, c)
    <3>1. OnePrinted(path, c) = h \o p
      BY <2>2, <2>9 DEF OnePrinted
    <3>2. h \in Seq(Items) /\ p \in Seq(Items)
      BY <1>2, <1>3, <2>3
    <3>3. Finds(o) = { Shown(b, path, commit, k) : k \in Near(b) }
      BY <2>5, <2>9
    <3>4. \A x \in Finds(o) : x \in ToSet(p)
      BY <2>3, <3>3
    <3> HIDE DEF h, p
    <3>5. h \o p \in Seq(Items) /\ ToSet(h \o p) = ToSet(h) \cup ToSet(p)
      BY <3>2, ConcatElements
    <3>6. QED
      BY <3>1, <3>4, <3>5
  <2>10. QED
    BY <1>1, <2>6, <2>7, <2>8, <2>9
<1>6. QED
  BY <1>4, <1>5

-----------------------------------------------------------------------------
(* The tasks, their occurrences and those that are selected.               *)

\* An occurrence: its blob is at its path in its commit.
Occurrence == [path : Nat, commit : DOMAIN in.hist.date, blob : DOMAIN in.hist.blob]

LEMMA InputFacts ==
  ASSUME GivenInv
  PROVE  /\ IsConfig(cfg) /\ in.occs \in Seq(Occurrence)
         /\ \A o \in ToSet(in.occs) : /\ o \in Occurrence /\ o.path \in Nat /\ o.commit \in Nat
                                      /\ Date(o.commit) \in Nat /\ IsBlob(Blob(o))
         /\ \A o, p \in ToSet(in.occs) : o.path = p.path /\ o.commit = p.commit => o = p
         /\ \A o, p \in ToSet(in.occs) : o.path = p.path /\ o.blob = p.blob /\ ~cfg.expand => o = p
<1>1. IsInput(in)
  BY InputAssumption DEF GivenInv
<1>2. IsConfig(cfg) /\ in.occs \in Seq(Occurrence)
  BY <1>1 DEF IsInput, cfg, Occurrence
<1>3. /\ \A d \in DOMAIN in.hist.date : d \in Nat /\ in.hist.date[d] \in Nat
      /\ \A d \in DOMAIN in.hist.blob : IsBlob(in.hist.blob[d])
  BY <1>1 DEF IsInput
<1>4. \A o \in ToSet(in.occs) : o \in Occurrence
  BY <1>2, ToSetFacts
<1>5. \A o \in Occurrence : o.path \in Nat /\ o.commit \in DOMAIN in.hist.date /\ o.blob \in DOMAIN in.hist.blob
  BY DEF Occurrence
<1>6. \A o, p \in ToSet(in.occs) : o.path = p.path =>
        /\ o.commit = p.commit => o = p
        /\ o.blob = p.blob /\ ~cfg.expand => o = p
  BY <1>1 DEF IsInput, cfg
<1>7. QED
  BY <1>2, <1>3, <1>4, <1>5, <1>6 DEF Date, Blob

\* The occurrences of blob b.
OccurrencesOf(b) == { o \in ToSet(in.occs) : o.blob = b }

\* A task has all the occurrences of its blob, and no others.
LEMMA TaskOccurrences ==
  ASSUME GivenInv
  PROVE  /\ Search!Job = DOMAIN Tasks(in.occs)
         /\ \A j \in Search!Job :
              LET t == Tasks(in.occs)[j]
              IN  /\ jobOrder[j] = ResultKind(in.hist.blob[t.oid], cfg)
                  /\ t.occs \in Seq(Occurrence)
                  /\ ToSet(t.occs) = OccurrencesOf(t.oid)
         /\ \A o \in ToSet(in.occs) : \E j \in Search!Job : Tasks(in.occs)[j].oid = o.blob
<1> DEFINE occs == in.occs
           tasks == Tasks(occs)
           firsts == Firsts(occs, LAMBDA o, p : o.blob = p.blob)
           P(b) == { i \in DOMAIN occs : occs[i].blob = b }
<1>1. occs \in Seq(Occurrence)
  BY InputFacts
<1>2. /\ DOMAIN tasks = 1 .. Len(tasks) /\ Len(tasks) \in Nat
      /\ \A o \in ToSet(occs) : \E j \in DOMAIN tasks : tasks[j].oid = o.blob
  BY <1>1, TasksCover
<1>3. /\ DOMAIN tasks = DOMAIN firsts
      /\ \A j \in DOMAIN firsts : tasks[j] = [oid |-> firsts[j].blob, occs |-> Picked(occs, P(firsts[j].blob))]
  BY DEF Tasks, Those
<1> HIDE DEF firsts, tasks, P
<1>4. \A j \in DOMAIN tasks : tasks[j].occs = Picked(occs, P(tasks[j].oid))
  <2>1. ASSUME NEW j \in DOMAIN tasks PROVE tasks[j].occs = Picked(occs, P(tasks[j].oid))
    <3>1. tasks[j] = [oid |-> firsts[j].blob, occs |-> Picked(occs, P(firsts[j].blob))]
      BY <1>3
    <3> DEFINE b == firsts[j].blob
    <3> HIDE DEF b
    <3>2. tasks[j].oid = b /\ tasks[j].occs = Picked(occs, P(b))
      BY <3>1 DEF b
    <3>3. QED
      BY <3>2
  <2>2. QED
    BY <2>1
<1>5. jobOrder = [i \in DOMAIN tasks |-> ResultKind(in.hist.blob[tasks[i].oid], cfg)]
  BY DEF GivenInv, tasks
<1>6. Search!Job = DOMAIN tasks
  BY <1>2, <1>5 DEF Search!Job
<1>7. ASSUME NEW b
      PROVE  Picked(occs, P(b)) \in Seq(Occurrence) /\ ToSet(Picked(occs, P(b))) = OccurrencesOf(b)
  <2>1. P(b) \in SUBSET DOMAIN occs
    BY DEF P
  <2>2. \A i \in DOMAIN occs : occs[i].blob = b <=> i \in P(b)
    BY DEF P
  <2> DEFINE Q == P(b)
  <2> HIDE DEF Q
  <2>3. Picked(occs, Q) \in Seq(Occurrence) /\ ToSet(Picked(occs, Q)) = { occs[i] : i \in Q }
    BY <1>1, <2>1, PickedElements DEF Q
  <2>4. ToSet(occs) = { occs[i] : i \in DOMAIN occs }
    BY DEF ToSet
  <2>5. { occs[i] : i \in Q } = { o \in ToSet(occs) : o.blob = b }
    BY <2>1, <2>2, <2>4 DEF Q
  <2>6. QED
    BY <2>3, <2>5 DEF Q, OccurrencesOf
<1>8. ASSUME NEW j \in Search!Job
      PROVE  /\ jobOrder[j] = ResultKind(in.hist.blob[tasks[j].oid], cfg)
             /\ tasks[j].occs \in Seq(Occurrence)
             /\ ToSet(tasks[j].occs) = OccurrencesOf(tasks[j].oid)
  <2>1. jobOrder[j] = ResultKind(in.hist.blob[tasks[j].oid], cfg)
    BY <1>5, <1>6
  <2>2. tasks[j].occs = Picked(occs, P(tasks[j].oid))
    BY <1>4, <1>6
  <2>3. QED
    BY <1>7, <2>1, <2>2
<1>9. QED
  BY <1>2, <1>6, <1>8 DEF tasks

\* What the pipeline finds for a task is what its blob has.
LEMMA ResultsExact ==
  ASSUME GivenInv, NoneOverflows, NEW j \in Search!Job, NEW o \in ToSet(in.occs),
         o.blob = Tasks(in.occs)[j].oid
  PROVE  /\ Result(j).occs = Tasks(in.occs)[j].occs
         /\ IsResultOf(Result(j), Blob(o))
         /\ jobOrder[j] = ResultKind(Blob(o), cfg)
<1> DEFINE b == Blob(o)
           occs == Tasks(in.occs)[j].occs
           res == Result(j)
<1>1. IsConfig(cfg) /\ IsBlob(b)
  BY InputFacts
<1>2. jobOrder[j] = ResultKind(b, cfg)
  BY TaskOccurrences DEF Blob
<1>3. res = ProcessTask(occs, b, cfg)
  BY DEF Result, Blob, cfg
<1>4. HasContext(cfg) => ~Overflows(b)
  BY DEF NoneOverflows
<1> HIDE DEF res, occs, b
<1>5. CASE IsBinary(b)
  <2>1. res = [occs |-> occs, matches |-> << >>, groups |-> << >>, isBinary |-> MatchBytes(b, cfg)]
    BY <1>3, <1>5 DEF ProcessTask, IsBinary
  <2>2. res.occs = occs /\ res.matches = << >> /\ res.isBinary = MatchBytes(b, cfg)
    BY <2>1
  <2>3. MatchBytes(b, cfg) = (b.raw # cfg.invert)
    BY DEF MatchBytes
  <2>4. IsResultOf(res, b)
    BY <1>5, <2>2, <2>3, Zenon DEF IsResultOf
  <2>5. QED
    BY <1>2, <2>2, <2>4 DEF res, occs, b
<1>6. CASE ~IsBinary(b)
  <2>1. res.occs = occs /\ TaskIsExact(res, b)
    BY <1>1, <1>3, <1>4, <1>6, TextTaskExact
  <2>2. QED
    BY <1>2, <1>6, <2>1 DEF IsResultOf, res, occs, b
<1>7. QED
  BY <1>5, <1>6

(***************************************************************************)
(* Of the occurrences of one blob all are selected: unless all are wanted, *)
(* the walk reports it only once at a path.                                *)
(***************************************************************************)
LEMMA AllAreSelected ==
  ASSUME GivenInv, NEW occs \in Seq(Occurrence), NEW b,
         ToSet(occs) = OccurrencesOf(b),
         NEW q, q = SelectOccurrences(in.hist, occs, cfg)
  PROVE  q \in Seq(Occurrence) /\ ToSet(q) = ToSet(occs)
<1>1. CASE cfg.expand
  BY <1>1 DEF SelectOccurrences
<1>2. CASE ~cfg.expand
  <2> DEFINE E == { e \in Occurrence \X Occurrence : e[1].path = e[2].path }
             F == { i \in DOMAIN occs : \A j \in 1 .. i - 1 : ~(occs[j].path = occs[i].path) }
             firsts == Picked(occs, F)
             P(path) == { i \in DOMAIN occs :
                            /\ occs[i].path = path
                            /\ \A p \in ToSet(occs) : p.path = path => ~IntroducedBefore(in.hist, p, occs[i]) }
             best(path) == Picked(occs, P(path))[1]
  <2>1. q = [i \in DOMAIN firsts |-> best(firsts[i].path)]
    BY <1>2 DEF SelectOccurrences, Firsts, Those
  <2>2. /\ DOMAIN occs = 1 .. Len(occs) /\ Len(occs) \in Nat
        /\ \A i \in 1 .. Len(occs) : occs[i] \in Occurrence /\ occs[i] \in ToSet(occs)
        /\ \A o \in ToSet(occs) : \E i \in 1 .. Len(occs) : o = occs[i]
    BY ToSetFacts
  <2>3. \A o, p \in ToSet(occs) : o.path = p.path => o = p
    <3>1. \A o, p \in ToSet(occs) : o \in ToSet(in.occs) /\ p \in ToSet(in.occs) /\ o.blob = p.blob
      BY DEF OccurrencesOf
    <3>2. QED
      BY <1>2, <3>1, InputFacts
  <2>4. \A i, j \in 1 .. Len(occs) : << occs[j], occs[i] >> \in E <=> occs[j].path = occs[i].path
    BY <2>2
  <2>5. AreFirsts(F, occs, E)
    <3>1. \A i \in 1 .. Len(occs) : \A j \in 1 .. i - 1 : j \in 1 .. Len(occs)
      BY <2>2
    <3>2. \A i \in 1 .. Len(occs) : \A j \in 1 .. i - 1 :
            << occs[j], occs[i] >> \notin E <=> ~(occs[j].path = occs[i].path)
      BY <2>4, <3>1
    <3> HIDE DEF E
    <3>3. QED
      BY <2>2, <3>2 DEF AreFirsts
  <2>6. Transitive(E, Occurrence)
    BY DEF Transitive
  <2>7. F \in SUBSET DOMAIN occs
    OBVIOUS
  <2>8. \A x, y \in Occurrence : << x, y >> \in E => x.path = y.path
    OBVIOUS
  <2> HIDE DEF E, F
  <2>9. \A x \in ToSet(occs) : \E y \in ToSet(firsts) : y = x \/ << y, x >> \in E
    <3>1. \A x \in ToSet(occs) : \E y \in ToSet(Picked(occs, F)) : y = x \/ << y, x >> \in E
      BY <2>5, <2>6, FirstsRepresent DEF Represents
    <3>2. QED
      BY <3>1
  <2>10. firsts \in Seq(Occurrence) /\ ToSet(firsts) = { occs[i] : i \in F }
    BY <2>7, PickedElements
  <2>11. ToSet(firsts) \subseteq ToSet(occs)
    BY <2>2, <2>7, <2>10
  <2>12. ToSet(firsts) = ToSet(occs)
    <3>1. \A x \in ToSet(occs) : x \in Occurrence
      BY <2>2
    <3>2. ASSUME NEW x \in ToSet(occs) PROVE x \in ToSet(firsts)
      <4>1. PICK y \in ToSet(firsts) : y = x \/ << y, x >> \in E
        BY <2>9
      <4>2. y \in ToSet(occs)
        BY <2>11
      <4>3. y = x
        BY <2>3, <2>8, <3>1, <4>1, <4>2
      <4>4. QED
        BY <4>3
    <3>3. QED
      BY <2>11, <3>2
  <2> HIDE DEF firsts
  <2>13. ASSUME NEW o \in ToSet(occs) PROVE best(o.path) = o
    <3> DEFINE Q == P(o.path)
               s == Picked(occs, Q)
    <3>1. PICK k \in 1 .. Len(occs) : o = occs[k]
      BY <2>2
    <3>2. \A p \in ToSet(occs) : p.path = o.path => ~IntroducedBefore(in.hist, p, o)
      <4> SUFFICES ~IntroducedBefore(in.hist, o, o)
        BY <2>3
      <4>1. o.commit \in Nat /\ in.hist.date[o.commit] \in Nat
        BY InputFacts DEF Date, OccurrencesOf
      <4>2. QED
        BY <4>1 DEF IntroducedBefore
    <3>3. k \in Q
      BY <2>2, <3>1, <3>2
    <3>4. \A i \in Q : i \in 1 .. Len(occs) /\ occs[i] = o
      BY <2>2, <2>3
    <3>5. Q \in SUBSET DOMAIN occs
      BY <2>2, <3>4
    <3> HIDE DEF Q, P
    <3>6. s \in Seq(Occurrence) /\ ToSet(s) = { occs[i] : i \in Q }
      BY <3>5, PickedElements
    <3>7. ToSet(s) = {o}
      BY <3>1, <3>3, <3>4, <3>6
    <3> HIDE DEF s
    <3>8. 1 \in 1 .. Len(s)
      <4>1. \E i \in 1 .. Len(s) : o = s[i]
        BY <3>6, <3>7, ToSetFacts
      <4>2. QED
        BY <3>6, <4>1
    <3>9. s[1] = o
      BY <3>6, <3>7, <3>8, ToSetFacts
    <3>10. QED
      BY <3>9 DEF s, Q
  <2> HIDE DEF best
  <2>14. /\ DOMAIN firsts = 1 .. Len(firsts)
         /\ \A i \in 1 .. Len(firsts) : firsts[i] \in ToSet(firsts)
    BY <2>10, ToSetFacts
  <2>15. q = [i \in DOMAIN firsts |-> firsts[i]]
    BY <2>1, <2>12, <2>13, <2>14
  <2>16. q = firsts
    BY <2>10, <2>15, LenProperties
  <2>17. QED
    BY <2>10, <2>12, <2>16
<1>3. QED
  BY <1>1, <1>2

-----------------------------------------------------------------------------
(* The entries of the aggregator.                                          *)

\* The entries of the aggregator for occurrences with a match.
Found ==
  { e \in [path : Nat, commit : Nat, res : { Result(j) : j \in Search!Job }] :
      \E o \in ToSet(in.occs) : /\ e.path = o.path /\ e.commit = o.commit
                                /\ HasMatch(Blob(o)) /\ IsResultOf(e.res, Blob(o)) }

\* Each entry is there for each occurrence of each task that arrived, once.
LEMMA EntriesExact ==
  ASSUME GivenInv, NoneOverflows, NEW order \in Seq(Search!Job),
         \A j \in ToSet(order) : jobOrder[j] = "hit",
         NEW q, q = Entries(in.hist, [k \in DOMAIN order |-> Result(order[k])], cfg)
  PROVE  /\ q \in Seq(Found)
         /\ \A x, y \in ToSet(q) : x.path = y.path /\ x.commit = y.commit => x = y
         /\ \A j \in ToSet(order), o \in ToSet(in.occs) : o.blob = Tasks(in.occs)[j].oid =>
              \E e \in ToSet(q) : e.path = o.path /\ e.commit = o.commit
<1> DEFINE N == Len(order)
           results == [k \in DOMAIN order |-> Result(order[k])]
           selected(k) == SelectOccurrences(in.hist, Result(order[k]).occs, cfg)
           entries(k) == [i \in DOMAIN selected(k) |->
                            [path |-> selected(k)[i].path, commit |-> selected(k)[i].commit,
                             res |-> Result(order[k])]]
           ss == [k \in DOMAIN order |-> entries(k)]
           flat == FlattenSeq(ss)
           F == { i \in DOMAIN flat : \A j \in 1 .. i - 1 :
                    ~(flat[j].path = flat[i].path /\ flat[j].commit = flat[i].commit) }
           E == { e \in Found \X Found : e[1].path = e[2].path /\ e[1].commit = e[2].commit }
<1>1. q = Picked(flat, F)
  <2>1. q = Firsts(FlattenSeq([k \in DOMAIN results |->
              LET occs == SelectOccurrences(in.hist, results[k].occs, cfg)
              IN  [i \in DOMAIN occs |-> [path |-> occs[i].path, commit |-> occs[i].commit,
                                          res |-> results[k]]]]),
              LAMBDA d, e : d.path = e.path /\ d.commit = e.commit)
    BY Zenon DEF Entries
  <2>2. [k \in DOMAIN results |->
              LET occs == SelectOccurrences(in.hist, results[k].occs, cfg)
              IN  [i \in DOMAIN occs |-> [path |-> occs[i].path, commit |-> occs[i].commit,
                                          res |-> results[k]]]] = ss
    OBVIOUS
  <2>3. q = Firsts(flat, LAMBDA d, e : d.path = e.path /\ d.commit = e.commit)
    BY <2>1, <2>2, Zenon
  <2> HIDE DEF flat
  <2>4. QED
    BY <2>3, Zenon DEF Firsts
<1>2. /\ N \in Nat /\ DOMAIN order = 1 .. N
      /\ \A k \in 1 .. N : order[k] \in Search!Job /\ order[k] \in ToSet(order)
      /\ \A j \in ToSet(order) : \E k \in 1 .. N : j = order[k]
  BY ToSetFacts
<1> HIDE DEF F, flat, ss, N
<1>3. ASSUME NEW k \in 1 .. N
      PROVE  /\ entries(k) \in Seq(Found)
             /\ \A o \in ToSet(in.occs) : o.blob = Tasks(in.occs)[order[k]].oid =>
                  \E e \in ToSet(entries(k)) : e.path = o.path /\ e.commit = o.commit
  <2> DEFINE j == order[k]
             t == Tasks(in.occs)[j]
             s == selected(k)
             res == Result(j)
             en == [i \in DOMAIN s |-> [path |-> s[i].path, commit |-> s[i].commit, res |-> res]]
  <2>1. j \in Search!Job /\ jobOrder[j] = "hit"
    BY <1>2
  <2>2. t.occs \in Seq(Occurrence) /\ ToSet(t.occs) = OccurrencesOf(t.oid)
    BY <2>1, TaskOccurrences
  <2>3. \A o \in ToSet(in.occs) : o.blob = t.oid =>
          res.occs = t.occs /\ IsResultOf(res, Blob(o)) /\ jobOrder[j] = ResultKind(Blob(o), cfg)
    BY <2>1, ResultsExact
  <2>4. res.occs = t.occs
    <3>1. \A b : ProcessTask(t.occs, b, cfg).occs = t.occs
      BY DEF ProcessTask
    <3>2. res = ProcessTask(t.occs, in.hist.blob[t.oid], cfg)
      BY DEF Result, cfg
    <3> HIDE DEF res
    <3>3. QED
      BY <3>1, <3>2
  <2>5. s = SelectOccurrences(in.hist, res.occs, cfg) /\ entries(k) = en
    OBVIOUS
  <2>6. res \in { Result(i) : i \in Search!Job }
    BY <2>1
  <2> HIDE DEF s, res, t, j, entries
  <2>7. s \in Seq(Occurrence) /\ ToSet(s) = OccurrencesOf(t.oid)
    <3> DEFINE occs == t.occs
               b == t.oid
    <3>1. occs \in Seq(Occurrence) /\ ToSet(occs) = OccurrencesOf(b) /\ s = SelectOccurrences(in.hist, occs, cfg)
      BY <2>2, <2>4, <2>5
    <3> HIDE DEF occs, b
    <3>2. s \in Seq(Occurrence) /\ ToSet(s) = ToSet(occs)
      BY <3>1, AllAreSelected
    <3>3. QED
      BY <3>1, <3>2 DEF b
  <2>8. /\ DOMAIN s = 1 .. Len(s)
        /\ \A i \in 1 .. Len(s) : s[i] \in ToSet(s)
        /\ \A o \in ToSet(s) : \E i \in 1 .. Len(s) : o = s[i]
    <3>1. s \in Seq(Occurrence)
      BY <2>7
    <3>2. QED
      BY <3>1, ToSetFacts
  <2>9. ASSUME NEW i \in 1 .. Len(s)
        PROVE  [path |-> s[i].path, commit |-> s[i].commit, res |-> res] \in Found
    <3> DEFINE o == s[i]
               e == [path |-> o.path, commit |-> o.commit, res |-> res]
    <3>1. o \in ToSet(in.occs) /\ o.blob = t.oid
      BY <2>7, <2>8 DEF OccurrencesOf
    <3> HIDE DEF o
    <3>2. /\ o.path \in Nat /\ o.commit \in Nat /\ IsBlob(Blob(o)) /\ IsConfig(cfg)
      BY <3>1, InputFacts
    <3>3. IsResultOf(res, Blob(o)) /\ ResultKind(Blob(o), cfg) = "hit"
      BY <2>1, <2>3, <3>1
    <3>4. HasMatch(Blob(o))
      BY <3>2, <3>3, HitMeansMatch
    <3>5. e \in [path : Nat, commit : Nat, res : { Result(i_1) : i_1 \in Search!Job }]
      BY <2>6, <3>2
    <3>6. e.path = o.path /\ e.commit = o.commit /\ e.res = res
      OBVIOUS
    <3> HIDE DEF e
    <3>7. e \in Found
      BY <3>1, <3>3, <3>4, <3>5, <3>6 DEF Found
    <3>8. QED
      BY <3>7 DEF e, o
  <2>10. en \in [DOMAIN s -> Found] /\ \A i \in 1 .. Len(s) : en[i].path = s[i].path /\ en[i].commit = s[i].commit
    BY <2>8, <2>9
  <2> HIDE DEF en
  <2>11. en \in Seq(Found) /\ \A i \in 1 .. Len(s) : en[i] \in ToSet(en)
    BY <2>7, <2>10, MappedElements
  <2>12. ASSUME NEW o \in ToSet(in.occs), o.blob = t.oid
         PROVE  \E e \in ToSet(en) : e.path = o.path /\ e.commit = o.commit
    <3>1. PICK i \in 1 .. Len(s) : o = s[i]
      BY <2>7, <2>8, <2>12 DEF OccurrencesOf
    <3>2. QED
      BY <2>10, <2>11, <3>1
  <2>13. QED
    BY <2>5, <2>11, <2>12 DEF t, j
<1> HIDE DEF entries
<1>4. ss \in [DOMAIN order -> Seq(Found)] /\ \A k \in 1 .. N : ss[k] = entries(k)
  BY <1>2, <1>3 DEF ss
<1>5. ss \in Seq(Seq(Found)) /\ Len(ss) = N
  BY <1>4, MappedElements DEF N
<1>6. flat \in Seq(Found) /\ ToSet(flat) = FlatSet(ss, N)
  BY <1>5, FlattenElements DEF flat
<1>7. /\ DOMAIN flat = 1 .. Len(flat) /\ Len(flat) \in Nat
      /\ \A i \in 1 .. Len(flat) : flat[i] \in Found
  BY <1>6, ToSetFacts
<1>8. \A x, y \in Found : << x, y >> \in E <=> x.path = y.path /\ x.commit = y.commit
  OBVIOUS
<1> HIDE DEF E
<1>9. AreFirsts(F, flat, E)
  <2>1. \A i \in 1 .. Len(flat) : \A j \in 1 .. i - 1 : j \in 1 .. Len(flat)
    BY <1>7
  <2>2. \A i \in 1 .. Len(flat) : \A j \in 1 .. i - 1 :
          << flat[j], flat[i] >> \notin E <=>
            ~(flat[j].path = flat[i].path /\ flat[j].commit = flat[i].commit)
    BY <1>7, <1>8, <2>1
  <2>3. QED
    BY <1>7, <2>2 DEF AreFirsts, F
<1>10. Transitive(E, Found) /\ Symmetric(E, Found)
  BY <1>8 DEF Transitive, Symmetric
<1>11. q \in Seq(Found) /\ ToSet(q) \subseteq Found
  <2>1. Picked(flat, F) \in Seq(Found)
    BY <1>6, <1>9, PickedElements DEF AreFirsts
  <2> DEFINE p == Picked(flat, F)
  <2> HIDE DEF p
  <2>2. p \in Seq(Found)
    BY <2>1 DEF p
  <2>3. \A x \in ToSet(p) : x \in Found
    BY <2>2, ToSetFacts
  <2>4. QED
    BY <1>1, <2>2, <2>3 DEF p
<1>12. ASSUME NEW x \in ToSet(q), NEW y \in ToSet(q), x.path = y.path, x.commit = y.commit
       PROVE  x = y
  <2>1. \A u, v \in ToSet(Picked(flat, F)) : << u, v >> \in E => u = v
    BY <1>6, <1>9, <1>10, FirstsDiffer
  <2>2. x \in ToSet(Picked(flat, F)) /\ y \in ToSet(Picked(flat, F)) /\ << x, y >> \in E
    BY <1>1, <1>8, <1>11, <1>12
  <2>3. QED
    BY <2>1, <2>2
<1>13. ASSUME NEW j \in ToSet(order), NEW o \in ToSet(in.occs), o.blob = Tasks(in.occs)[j].oid
       PROVE  \E e \in ToSet(q) : e.path = o.path /\ e.commit = o.commit
  <2>1. PICK k \in 1 .. N : j = order[k]
    BY <1>2
  <2>2. PICK e \in ToSet(ss[k]) : e.path = o.path /\ e.commit = o.commit
    BY <1>3, <1>4, <1>13, <2>1
  <2>3. e \in ToSet(flat)
    BY <1>6, <2>1, <2>2 DEF FlatSet
  <2>4. \A x \in ToSet(flat) : \E y \in ToSet(Picked(flat, F)) : y = x \/ << y, x >> \in E
    BY <1>6, <1>9, <1>10, FirstsRepresent DEF Represents
  <2>5. PICK y \in ToSet(q) : y = e \/ << y, e >> \in E
    BY <1>1, <2>3, <2>4
  <2>6. y \in Found /\ e \in Found
    <3>1. e \in Found
      BY <1>6, <2>3, ToSetFacts
    <3>2. QED
      BY <1>11, <3>1
  <2>7. y.path = e.path /\ y.commit = e.commit
    BY <1>8, <2>5, <2>6
  <2>8. QED
    BY <2>2, <2>7
<1>14. QED
  BY <1>11, <1>12, <1>13

-----------------------------------------------------------------------------
(* Files and commits by date.                                              *)

\* The dates of finitely many entries are bounded.
LEMMA DatesAreBounded ==
  ASSUME NEW s \in Seq(Found), \A c \in Found : in.hist.date[c.commit] \in Nat
  PROVE  \E B \in Nat : \A c \in ToSet(s) : in.hist.date[c.commit] <= B
<1> DEFINE N == Len(s)
           d(i) == in.hist.date[s[i].commit]
           G == { n \in 0 .. N : \E B \in Nat : \A i \in 1 .. n : d(i) <= B }
<1>1. /\ N \in Nat /\ \A i \in 1 .. N : d(i) \in Nat
      /\ \A c \in ToSet(s) : \E i \in 1 .. N : c = s[i]
  BY ToSetFacts
<1> HIDE DEF N, d
<1>2. ASSUME NEW n \in 0 .. N, \A k \in 0 .. N : k < n => k \in G PROVE n \in G
  <2>1. CASE n = 0
    <3>1. \A i \in 1 .. n : FALSE
      BY <2>1
    <3>2. 0 \in Nat
      OBVIOUS
    <3>3. QED
      BY <3>1, <3>2
  <2>2. CASE n # 0
    <3>1. /\ n - 1 \in 0 .. N /\ n - 1 < n /\ n \in 1 .. N
          /\ \A i \in 1 .. n : i \in 1 .. n - 1 \/ i = n
          /\ \A i \in 1 .. n - 1 : i \in 1 .. N
      BY <1>1, <2>2
    <3>2. PICK B \in Nat : \A i \in 1 .. n - 1 : d(i) <= B
      BY <1>2, <3>1
    <3> DEFINE C == B + d(n)
    <3>3. d(n) \in Nat /\ C \in Nat /\ B <= C /\ d(n) <= C
      BY <1>1, <3>1
    <3> HIDE DEF C
    <3>4. \A i \in 1 .. n : d(i) <= C
      <4>1. \A i \in 1 .. n - 1 : d(i) \in Nat
        BY <1>1, <3>1
      <4>2. \A i \in 1 .. n - 1 : d(i) <= C
        BY <3>2, <3>3, <4>1
      <4>3. QED
        BY <3>1, <3>3, <4>2
    <3>5. QED
      BY <3>3, <3>4
  <2>3. QED
    BY <2>1, <2>2
<1> HIDE DEF G
<1>3. \A n \in 0 .. N : n \in G
  <2>1. 0 .. N \in SUBSET Nat
    BY <1>1
  <2>2. QED
    BY <1>1, <1>2, <2>1, InductionFromBelow
<1>4. N \in G
  BY <1>1, <1>3
<1>5. PICK B \in Nat : \A i \in 1 .. N : d(i) <= B
  BY <1>4 DEF G
<1>6. QED
  BY <1>1, <1>5 DEF d

\* The newest commit of a file has a date.
LEMMA NewestDateIsANumber ==
  ASSUME NEW f, f.commits \in Seq(Found), \A c \in Found : in.hist.date[c.commit] \in Nat
  PROVE  NewestDate(in.hist, f) \in Nat
<1> DEFINE s == f.commits
           T == {0} \cup { in.hist.date[c.commit] : c \in ToSet(s) }
<1>1. PICK B \in Nat : \A c \in ToSet(s) : in.hist.date[c.commit] <= B
  BY DatesAreBounded
<1>2. \A c \in ToSet(s) : in.hist.date[c.commit] \in Nat
  <2>1. \A c \in ToSet(s) : c \in Found
    <3> HIDE DEF s
    <3>1. s \in Seq(Found)
      BY DEF s
    <3>2. QED
      BY <3>1, ToSetFacts
  <2>2. QED
    BY <2>1
<1>3. T \in SUBSET (0 .. B) /\ T # {}
  BY <1>1, <1>2
<1>4. NewestDate(in.hist, f) = Max(T)
  BY DEF NewestDate
<1> HIDE DEF T
<1>5. Max(T) \in T
  BY <1>3, GreatestElement DEF Max
<1>6. \A x \in T : x \in Nat
  <2>1. \A x \in 0 .. B : x \in Nat
    OBVIOUS
  <2>2. QED
    BY <1>3, <2>1
<1>7. QED
  BY <1>4, <1>5, <1>6

\* The commits of a file, and the files, as they are arranged.
ByDate(s)   == Arranged(s, LAMBDA c, d : CommitBefore(in.hist, c, d))
ByNewest(s) == Arranged(s, LAMBDA f, g : FileBefore(in.hist, f, g))

\* The commits of a file are arranged: the same entries.
LEMMA CommitsArranged ==
  ASSUME NEW s \in Seq(Found), \A c \in Found : c.commit \in Nat /\ in.hist.date[c.commit] \in Nat,
         \A x, y \in ToSet(s) : x.commit = y.commit => x = y,
         NEW t, t = ByDate(s)
  PROVE  t \in Seq(Found) /\ ToSet(t) = ToSet(s)
<1> DEFINE date(c) == in.hist.date[c.commit]
           R == { e \in Found \X Found : CommitBefore(in.hist, e[1], e[2]) }
           Good(p) == \A i, j \in DOMAIN s : i < j => ~CommitBefore(in.hist, s[p[j]], s[p[i]])
           q == CHOOSE p \in Surjection(DOMAIN s, DOMAIN s) : Good(p)
<1>1. t = [i \in DOMAIN s |-> s[q[i]]]
  BY DEF ByDate, Arranged
<1>2. /\ DOMAIN s = 1 .. Len(s)
      /\ \A i \in 1 .. Len(s) : s[i] \in Found
      /\ \A x \in ToSet(s) : x \in Found
  BY ToSetFacts
<1>3. \A x, y \in Found : << x, y >> \in R <=>
        date(x) > date(y) \/ (date(x) = date(y) /\ x.commit > y.commit)
  BY DEF CommitBefore
<1>4. \A x, y \in Found : << x, y >> \in R <=> CommitBefore(in.hist, x, y)
  OBVIOUS
<1> HIDE DEF R
<1>5. Orders(R, ToSet(s))
  <2>0. \A x \in Found : x.commit \in Nat /\ date(x) \in Nat
    OBVIOUS
  <2> HIDE DEF date
  <2>1. \A x \in Found : << x, x >> \notin R
    BY <1>3, <2>0
  <2>2. ASSUME NEW x \in ToSet(s), NEW y \in ToSet(s), x # y
        PROVE  << x, y >> \in R \/ << y, x >> \in R
    <3>1. x \in Found /\ y \in Found /\ x.commit # y.commit
      BY <1>2, <2>2
    <3>2. x.commit \in Nat /\ date(x) \in Nat /\ y.commit \in Nat /\ date(y) \in Nat
      BY <2>0, <3>1
    <3>3. << x, y >> \in R <=> date(x) > date(y) \/ (date(x) = date(y) /\ x.commit > y.commit)
      BY <1>3, <3>1
    <3>4. << y, x >> \in R <=> date(y) > date(x) \/ (date(y) = date(x) /\ y.commit > x.commit)
      BY <1>3, <3>1
    <3>5. QED
      BY <3>1, <3>2, <3>3, <3>4
  <2>3. ASSUME NEW x \in Found, NEW y \in Found, NEW z \in Found,
               << x, y >> \in R, << y, z >> \in R
        PROVE  << x, z >> \in R
    <3>1. /\ x.commit \in Nat /\ date(x) \in Nat /\ y.commit \in Nat /\ date(y) \in Nat
          /\ z.commit \in Nat /\ date(z) \in Nat
      BY <2>0
    <3>2. date(x) > date(y) \/ (date(x) = date(y) /\ x.commit > y.commit)
      BY <1>3, <2>3
    <3>3. date(y) > date(z) \/ (date(y) = date(z) /\ y.commit > z.commit)
      BY <1>3, <2>3
    <3>4. date(x) > date(z) \/ (date(x) = date(z) /\ x.commit > z.commit)
      BY <3>1, <3>2, <3>3
    <3>5. QED
      BY <1>3, <3>4
  <2>4. QED
    BY <1>2, <2>1, <2>2, <2>3 DEF Orders
<1>6. PICK p \in Surjection(DOMAIN s, DOMAIN s) : \A i, j \in DOMAIN s : i < j => << s[p[j]], s[p[i]] >> \notin R
  BY <1>5, CanBeArranged
<1>7. Good(p)
  <2>1. p \in [DOMAIN s -> DOMAIN s]
    BY DEF Surjection
  <2>2. \A i \in DOMAIN s : s[p[i]] \in Found
    BY <1>2, <2>1
  <2>3. QED
    BY <1>4, <1>6, <2>2
<1> HIDE DEF Good
<1>8. q \in Surjection(DOMAIN s, DOMAIN s)
  BY <1>7
<1> HIDE DEF q
<1>9. QED
  BY <1>1, <1>8, Rearranged

-----------------------------------------------------------------------------
(* The files of a report.                                                  *)

\* A sequence has the same length as another, in a set.
IsMapped(t, s, Y) ==
  /\ t \in Seq(Y)
  /\ \A i \in 1 .. Len(s) : t[i] \in ToSet(t)
  /\ \A x \in ToSet(t) : \E i \in 1 .. Len(s) : x = t[i]

LEMMA MappedIsMapped ==
  ASSUME NEW X, NEW s \in Seq(X), NEW Y, NEW t \in [DOMAIN s -> Y]
  PROVE  IsMapped(t, s, Y)
<1>1. Len(s) \in Nat /\ DOMAIN s = 1 .. Len(s)
  BY LenProperties
<1>2. t \in Seq(Y) /\ Len(t) = Len(s) /\ DOMAIN t = 1 .. Len(s)
  BY <1>1, IsASeq, LenProperties
<1>3. QED
  BY <1>2 DEF ToSet, IsMapped

\* The files of a report: each has the entries at its path.
Files == { f \in [path : Nat, commits : Seq(Found)] : \A c \in ToSet(f.commits) : c.path = f.path }

\* What is known of an entry.
LEMMA FoundFacts ==
  ASSUME GivenInv, NEW c \in Found
  PROVE  /\ c.path \in Nat /\ c.commit \in Nat /\ in.hist.date[c.commit] \in Nat
         /\ \E o \in ToSet(in.occs) : /\ c.path = o.path /\ c.commit = o.commit
                                      /\ HasMatch(Blob(o)) /\ IsResultOf(c.res, Blob(o))
<1>1. PICK o \in ToSet(in.occs) : /\ c.path = o.path /\ c.commit = o.commit
                                  /\ HasMatch(Blob(o)) /\ IsResultOf(c.res, Blob(o))
  BY DEF Found
<1>2. o.path \in Nat /\ o.commit \in Nat /\ Date(o.commit) \in Nat
  BY InputFacts
<1>3. QED
  BY <1>1, <1>2 DEF Date

\* The files are arranged: the same files.
LEMMA FilesArranged ==
  ASSUME GivenInv, NEW s \in Seq(Files), \A x, y \in ToSet(s) : x.path = y.path => x = y,
         NEW t, t = ByNewest(s)
  PROVE  t \in Seq(Files) /\ ToSet(t) = ToSet(s)
<1> DEFINE date(f) == NewestDate(in.hist, f)
           R == { e \in Files \X Files : FileBefore(in.hist, e[1], e[2]) }
           Good(p) == \A i, j \in DOMAIN s : i < j => ~FileBefore(in.hist, s[p[j]], s[p[i]])
           q == CHOOSE p \in Surjection(DOMAIN s, DOMAIN s) : Good(p)
<1>1. t = [i \in DOMAIN s |-> s[q[i]]]
  BY DEF ByNewest, Arranged
<1>2. /\ DOMAIN s = 1 .. Len(s)
      /\ \A i \in 1 .. Len(s) : s[i] \in Files
      /\ \A x \in ToSet(s) : x \in Files
  BY ToSetFacts
<1>3. \A x, y \in Files : << x, y >> \in R <=>
        date(x) > date(y) \/ (date(x) = date(y) /\ x.path < y.path)
  BY DEF FileBefore
<1>4. \A x, y \in Files : << x, y >> \in R <=> FileBefore(in.hist, x, y)
  OBVIOUS
<1> HIDE DEF R
<1>5. Orders(R, ToSet(s))
  <2>0. \A x \in Files : x.path \in Nat /\ date(x) \in Nat
    <3>1. \A c \in Found : in.hist.date[c.commit] \in Nat
      BY FoundFacts
    <3>2. \A x \in Files : x.path \in Nat /\ x.commits \in Seq(Found)
      BY DEF Files
    <3>3. QED
      BY <3>1, <3>2, NewestDateIsANumber
  <2> HIDE DEF date
  <2>1. \A x \in Files : << x, x >> \notin R
    BY <1>3, <2>0
  <2>2. ASSUME NEW x \in ToSet(s), NEW y \in ToSet(s), x # y
        PROVE  << x, y >> \in R \/ << y, x >> \in R
    <3>1. x \in Files /\ y \in Files /\ x.path # y.path
      BY <1>2, <2>2
    <3>2. x.path \in Nat /\ date(x) \in Nat /\ y.path \in Nat /\ date(y) \in Nat
      BY <2>0, <3>1
    <3>3. << x, y >> \in R <=> date(x) > date(y) \/ (date(x) = date(y) /\ x.path < y.path)
      BY <1>3, <3>1
    <3>4. << y, x >> \in R <=> date(y) > date(x) \/ (date(y) = date(x) /\ y.path < x.path)
      BY <1>3, <3>1
    <3>5. QED
      BY <3>1, <3>2, <3>3, <3>4
  <2>3. ASSUME NEW x \in Files, NEW y \in Files, NEW z \in Files,
               << x, y >> \in R, << y, z >> \in R
        PROVE  << x, z >> \in R
    <3>1. /\ x.path \in Nat /\ date(x) \in Nat /\ y.path \in Nat /\ date(y) \in Nat
          /\ z.path \in Nat /\ date(z) \in Nat
      BY <2>0
    <3>2. date(x) > date(y) \/ (date(x) = date(y) /\ x.path < y.path)
      BY <1>3, <2>3
    <3>3. date(y) > date(z) \/ (date(y) = date(z) /\ y.path < z.path)
      BY <1>3, <2>3
    <3>4. date(x) > date(z) \/ (date(x) = date(z) /\ x.path < z.path)
      BY <3>1, <3>2, <3>3
    <3>5. QED
      BY <1>3, <3>4
  <2>4. QED
    BY <1>2, <2>1, <2>2, <2>3 DEF Orders
<1>6. PICK p \in Surjection(DOMAIN s, DOMAIN s) : \A i, j \in DOMAIN s : i < j => << s[p[j]], s[p[i]] >> \notin R
  BY <1>5, CanBeArranged
<1>7. Good(p)
  <2>1. p \in [DOMAIN s -> DOMAIN s]
    BY DEF Surjection
  <2>2. \A i \in DOMAIN s : s[p[i]] \in Files
    BY <1>2, <2>1
  <2>3. QED
    BY <1>4, <1>6, <2>2
<1> HIDE DEF Good
<1>8. q \in Surjection(DOMAIN s, DOMAIN s)
  BY <1>7
<1> HIDE DEF q
<1>9. QED
  BY <1>1, <1>8, Rearranged

\* The file at a path, from all entries.
CommitsAt(s, path) == Picked(s, { i \in DOMAIN s : s[i].path = path })
FileAt(s, path) ==
  [path |-> path,
   commits |-> IF cfg.unordered THEN CommitsAt(s, path) ELSE ByDate(CommitsAt(s, path))]

\* It has the entries at that path.
LEMMA FileExact ==
  ASSUME GivenInv, NEW s \in Seq(Found),
         \A x, y \in ToSet(s) : x.path = y.path /\ x.commit = y.commit => x = y,
         NEW path \in Nat, NEW f, f = FileAt(s, path)
  PROVE  /\ f \in Files /\ f.path = path
         /\ \A e \in ToSet(s) : e.path = path => e \in ToSet(f.commits)
<1> DEFINE P == { i \in DOMAIN s : s[i].path = path }
           q == CommitsAt(s, path)
<1>1. /\ DOMAIN s = 1 .. Len(s)
      /\ \A i \in 1 .. Len(s) : s[i] \in Found /\ s[i] \in ToSet(s)
      /\ \A x \in ToSet(s) : \E i \in 1 .. Len(s) : x = s[i]
  BY ToSetFacts
<1>2. P \in SUBSET DOMAIN s /\ \A i \in DOMAIN s : i \in P <=> s[i].path = path
  OBVIOUS
<1>3. q = Picked(s, P)
  BY DEF CommitsAt
<1> HIDE DEF P, q
<1>4. q \in Seq(Found) /\ ToSet(q) = { s[i] : i \in P }
  BY <1>2, <1>3, PickedElements
<1>5. /\ \A x \in ToSet(q) : x \in ToSet(s) /\ x.path = path
      /\ \A e \in ToSet(s) : e.path = path => e \in ToSet(q)
  BY <1>1, <1>2, <1>4
<1> DEFINE r == IF cfg.unordered THEN q ELSE ByDate(q)
<1>6. f = [path |-> path, commits |-> r]
  BY DEF FileAt, q
<1>7. r \in Seq(Found) /\ ToSet(r) = ToSet(q)
  <2>1. CASE cfg.unordered
    BY <1>4, <2>1
  <2>2. CASE ~cfg.unordered
    <3>1. \A c \in Found : c.commit \in Nat /\ in.hist.date[c.commit] \in Nat
      BY FoundFacts
    <3>2. \A x, y \in ToSet(q) : x.commit = y.commit => x = y
      BY <1>5
    <3> DEFINE u == ByDate(q)
    <3>3. u \in Seq(Found) /\ ToSet(u) = ToSet(q)
      BY <1>4, <3>1, <3>2, CommitsArranged
    <3>4. QED
      BY <2>2, <3>3
  <2>3. QED
    BY <2>1, <2>2
<1> HIDE DEF r
<1>8. f \in [path : Nat, commits : Seq(Found)] /\ f.path = path /\ f.commits = r
  BY <1>6, <1>7
<1>9. \A c \in ToSet(f.commits) : c.path = f.path
  BY <1>5, <1>7, <1>8
<1>10. QED
  BY <1>5, <1>7, <1>8, <1>9 DEF Files

\* The report, from all entries.
FilesOf(s) ==
  LET firsts == Picked(s, { i \in DOMAIN s : \A j \in 1 .. i - 1 : ~(s[j].path = s[i].path) })
      files  == [i \in DOMAIN firsts |-> FileAt(s, firsts[i].path)]
  IN  IF cfg.unordered THEN files ELSE ByNewest(files)

\* The first entry of each path.
LEMMA FirstAtEachPath ==
  ASSUME NEW s \in Seq(Found), NEW F,
         F = { i \in DOMAIN s : \A j \in 1 .. i - 1 : ~(s[j].path = s[i].path) }
  PROVE  /\ Picked(s, F) \in Seq(Found)
         /\ \A x \in ToSet(s) : \E y \in ToSet(Picked(s, F)) : y.path = x.path
         /\ \A x, y \in ToSet(Picked(s, F)) : x.path = y.path => x = y
<1> DEFINE E == { e \in Found \X Found : e[1].path = e[2].path }
           p == Picked(s, F)
<1>1. /\ DOMAIN s = 1 .. Len(s) /\ Len(s) \in Nat
      /\ \A i \in 1 .. Len(s) : s[i] \in Found
      /\ \A x \in ToSet(s) : x \in Found
  BY ToSetFacts
<1>2. \A x, y \in Found : << x, y >> \in E <=> x.path = y.path
  OBVIOUS
<1> HIDE DEF E
<1>3. AreFirsts(F, s, E)
  <2>1. \A i \in 1 .. Len(s) : \A j \in 1 .. i - 1 : j \in 1 .. Len(s)
    BY <1>1
  <2>2. \A i \in 1 .. Len(s) : \A j \in 1 .. i - 1 :
          << s[j], s[i] >> \notin E <=> ~(s[j].path = s[i].path)
    BY <1>1, <1>2, <2>1
  <2>3. QED
    BY <1>1, <2>2 DEF AreFirsts
<1>4. Transitive(E, Found) /\ Symmetric(E, Found)
  BY <1>2 DEF Transitive, Symmetric
<1>5. p \in Seq(Found)
  BY <1>3, PickedElements DEF AreFirsts
<1>6. \A x \in ToSet(s) : \E y \in ToSet(p) : y = x \/ << y, x >> \in E
  <2> DEFINE X == Found
             r == s
             P == F
  <2>1. r \in Seq(X) /\ Transitive(E, X) /\ AreFirsts(P, r, E)
    BY <1>3, <1>4
  <2> HIDE DEF X, r, P
  <2>2. Represents(Picked(r, P), r, E)
    BY <2>1, FirstsRepresent
  <2>3. QED
    BY <2>2 DEF r, P, Represents
<1>7. \A x, y \in ToSet(p) : << x, y >> \in E => x = y
  BY <1>3, <1>4, FirstsDiffer
<1> HIDE DEF p
<1>8. \A x \in ToSet(p) : x \in Found
  BY <1>5, ToSetFacts
<1>9. \A x \in ToSet(s) : \E y \in ToSet(p) : y.path = x.path
  BY <1>1, <1>2, <1>6, <1>8
<1>10. \A x, y \in ToSet(p) : x.path = y.path => x = y
  BY <1>2, <1>7, <1>8
<1>11. QED
  BY <1>5, <1>9, <1>10 DEF p

\* Every entry is in the file of its path.
LEMMA FilesExact ==
  ASSUME GivenInv, NEW s \in Seq(Found),
         \A x, y \in ToSet(s) : x.path = y.path /\ x.commit = y.commit => x = y,
         NEW q, q = FilesOf(s)
  PROVE  /\ q \in Seq(Files)
         /\ \A e \in ToSet(s) : \E f \in ToSet(q) : f.path = e.path /\ e \in ToSet(f.commits)
<1> DEFINE F == { i \in DOMAIN s : \A j \in 1 .. i - 1 : ~(s[j].path = s[i].path) }
           firsts == Picked(s, F)
           files == [i \in DOMAIN firsts |-> FileAt(s, firsts[i].path)]
<1>1. q = IF cfg.unordered THEN files ELSE ByNewest(files)
  BY Zenon DEF FilesOf
<1>2. /\ firsts \in Seq(Found)
      /\ \A x \in ToSet(s) : \E y \in ToSet(firsts) : y.path = x.path
      /\ \A x, y \in ToSet(firsts) : x.path = y.path => x = y
  <2> HIDE DEF F
  <2>1. F = { i \in DOMAIN s : \A j \in 1 .. i - 1 : ~(s[j].path = s[i].path) }
    BY DEF F
  <2>2. QED
    BY <2>1, FirstAtEachPath
<1> HIDE DEF F, firsts
<1>3. /\ DOMAIN firsts = 1 .. Len(firsts)
      /\ \A i \in 1 .. Len(firsts) : firsts[i] \in Found /\ firsts[i] \in ToSet(firsts)
      /\ \A x \in ToSet(firsts) : x \in Found /\ \E i \in 1 .. Len(firsts) : x = firsts[i]
  BY <1>2, ToSetFacts
<1>4. ASSUME NEW i \in 1 .. Len(firsts)
      PROVE  /\ FileAt(s, firsts[i].path) \in Files
             /\ FileAt(s, firsts[i].path).path = firsts[i].path
             /\ \A e \in ToSet(s) : e.path = firsts[i].path =>
                  e \in ToSet(FileAt(s, firsts[i].path).commits)
  <2> DEFINE path == firsts[i].path
  <2>1. path \in Nat
    BY <1>3, FoundFacts
  <2> HIDE DEF path
  <2> DEFINE f == FileAt(s, path)
  <2>2. f \in Files /\ f.path = path /\ \A e \in ToSet(s) : e.path = path => e \in ToSet(f.commits)
    BY <2>1, FileExact
  <2>3. QED
    BY <2>2 DEF path
<1>5. /\ files \in [DOMAIN firsts -> Files]
      /\ \A i \in 1 .. Len(firsts) : files[i] = FileAt(s, firsts[i].path)
  BY <1>3, <1>4
<1> HIDE DEF files
<1>6. /\ files \in Seq(Files)
      /\ \A i \in 1 .. Len(firsts) : files[i] \in ToSet(files)
      /\ \A x \in ToSet(files) : \E i \in 1 .. Len(firsts) : x = files[i]
  <2>1. files \in [DOMAIN firsts -> Files]
    BY <1>5
  <2>2. firsts \in Seq(Found)
    BY <1>2
  <2> DEFINE X == Found
             Y == Files
             r == firsts
             t == files
  <2>3. r \in Seq(X) /\ t \in [DOMAIN r -> Y]
    BY <2>1, <2>2
  <2> HIDE DEF X, Y, r, t
  <2>4. IsMapped(t, r, Y)
    BY <2>3, MappedIsMapped
  <2>5. QED
    BY <2>4 DEF IsMapped, Y, r, t
<1>7. \A x, y \in ToSet(files) : x.path = y.path => x = y
  <2> SUFFICES ASSUME NEW i \in 1 .. Len(firsts), NEW j \in 1 .. Len(firsts),
                      files[i].path = files[j].path
               PROVE  files[i] = files[j]
    BY <1>6
  <2>1. firsts[i].path = firsts[j].path
    BY <1>4, <1>5
  <2>2. firsts[i] = firsts[j]
    BY <1>2, <1>3, <2>1
  <2>3. QED
    BY <1>5, <2>2
<1>8. q \in Seq(Files) /\ ToSet(q) = ToSet(files)
  <2>1. CASE cfg.unordered
    BY <1>1, <1>6, <2>1
  <2>2. CASE ~cfg.unordered
    BY <1>1, <1>6, <1>7, <2>2, FilesArranged
  <2>3. QED
    BY <2>1, <2>2
<1>9. ASSUME NEW e \in ToSet(s)
      PROVE  \E f \in ToSet(q) : f.path = e.path /\ e \in ToSet(f.commits)
  <2>1. PICK y \in ToSet(firsts) : y.path = e.path
    BY <1>2
  <2>2. PICK i \in 1 .. Len(firsts) : y = firsts[i]
    BY <1>3
  <2>3. files[i].path = e.path /\ e \in ToSet(files[i].commits)
    BY <1>4, <1>5, <2>1, <2>2
  <2>4. QED
    BY <1>6, <1>8, <2>3
<1>10. QED
  BY <1>8, <1>9

\* Aggregate computes it from the entries.
LEMMA AggregateIs ==
  ASSUME NEW results
  PROVE  Aggregate(in.hist, results, cfg) = FilesOf(Entries(in.hist, results, cfg))
BY Zenon DEF Aggregate, FilesOf, FileAt, CommitsAt, ByDate, ByNewest, Those, Firsts

-----------------------------------------------------------------------------
(* What is printed for a file.                                             *)

\* What a formatter prints for the commits of a file.
Body(f) == FlattenSeq([k \in DOMAIN f.commits |-> OnePrinted(f.path, f.commits[k])])

\* What it prints for the file, before the commits.
Heading(f, isFirst) ==
  (IF isFirst THEN << >> ELSE << Item("blank", f.path, 0, 0) >>) \o << Item("file", f.path, 0, 0) >>

LEMMA PrintFileIs ==
  ASSUME IsConfig(cfg), NEW f, NEW isFirst
  PROVE  PrintFile(f, isFirst, cfg) =
           << Item("boundary", f.path, 0, 0) >> \o
             (IF cfg.mode = "grouped" THEN Heading(f, isFirst) \o Body(f) ELSE Body(f))
<1>1. cfg.mode \in {"grouped", "single", "count", "names"}
  BY DEF IsConfig
<1>2. CASE cfg.mode = "grouped"
  <2> DEFINE one(k) == << Item("commit", f.path, f.commits[k].commit, 0) >> \o PrintCommit(f.path, f.commits[k])
  <2>1. \A k : OnePrinted(f.path, f.commits[k]) = one(k)
    BY <1>2 DEF OnePrinted
  <2>2. Body(f) = FlattenSeq([k \in DOMAIN f.commits |-> one(k)])
    <3> HIDE DEF one
    <3>1. [k \in DOMAIN f.commits |-> OnePrinted(f.path, f.commits[k])] = [k \in DOMAIN f.commits |-> one(k)]
      BY <2>1
    <3>2. QED
      BY <3>1, Zenon DEF Body
  <2>3. PrintFile(f, isFirst, cfg) = << Item("boundary", f.path, 0, 0) >> \o
          (Heading(f, isFirst) \o FlattenSeq([k \in DOMAIN f.commits |-> one(k)]))
    BY <1>2 DEF PrintFile, Heading
  <2>4. QED
    BY <1>2, <2>2, <2>3
<1>3. CASE cfg.mode = "single"
  <2>1. \A k : OnePrinted(f.path, f.commits[k]) = PrintCommit(f.path, f.commits[k])
    BY <1>3 DEF OnePrinted
  <2>2. Body(f) = FlattenSeq([k \in DOMAIN f.commits |-> PrintCommit(f.path, f.commits[k])])
    BY <2>1 DEF Body
  <2>3. QED
    BY <1>3, <2>2 DEF PrintFile
<1>4. CASE cfg.mode = "count"
  <2>1. \A k : OnePrinted(f.path, f.commits[k]) = PrintCount(f.path, f.commits[k])
    BY <1>4 DEF OnePrinted
  <2>2. Body(f) = FlattenSeq([k \in DOMAIN f.commits |-> PrintCount(f.path, f.commits[k])])
    BY <2>1 DEF Body
  <2>3. QED
    BY <1>4, <2>2 DEF PrintFile
<1>5. CASE cfg.mode = "names"
  <2>1. \A k : OnePrinted(f.path, f.commits[k]) = << Item("name", f.path, f.commits[k].commit, 0) >>
    BY <1>5 DEF OnePrinted
  <2>2. Body(f) = FlattenSeq([k \in DOMAIN f.commits |-> << Item("name", f.path, f.commits[k].commit, 0) >>])
    BY <2>1 DEF Body
  <2>3. QED
    BY <1>5, <2>2 DEF PrintFile
<1>6. QED
  BY <1>1, <1>2, <1>3, <1>4, <1>5

\* Each entry of a file is printed.
LEMMA BodyHasEach ==
  ASSUME GivenInv, NEW f \in Files
  PROVE  /\ Body(f) \in Seq(Items)
         /\ \A c \in ToSet(f.commits) : \A x \in ToSet(OnePrinted(f.path, c)) : x \in ToSet(Body(f))
<1> DEFINE s == f.commits
           path == f.path
           t == [k \in DOMAIN s |-> OnePrinted(path, s[k])]
<1>1. s \in Seq(Found) /\ path \in Nat /\ \A c \in ToSet(s) : c.path = path
  BY DEF Files
<1>2. Body(f) = FlattenSeq(t)
  BY DEF Body
<1> HIDE DEF s, path
<1>3. /\ DOMAIN s = 1 .. Len(s) /\ Len(s) \in Nat
      /\ \A k \in 1 .. Len(s) : s[k] \in Found /\ s[k] \in ToSet(s)
      /\ \A c \in ToSet(s) : c \in Found /\ \E k \in 1 .. Len(s) : c = s[k]
  BY <1>1, ToSetFacts
<1>4. ASSUME NEW k \in 1 .. Len(s) PROVE OnePrinted(path, s[k]) \in Seq(Items)
  <2>1. s[k] \in Found /\ s[k].path = path
    BY <1>1, <1>3
  <2> DEFINE c == s[k]
  <2> HIDE DEF c
  <2>2. PICK o \in ToSet(in.occs) : /\ c.path = o.path /\ c.commit = o.commit
                                    /\ HasMatch(Blob(o)) /\ IsResultOf(c.res, Blob(o))
    BY <2>1, FoundFacts DEF c
  <2>3. IsConfig(cfg) /\ IsBlob(Blob(o)) /\ o.path \in Nat /\ o.commit \in Nat
    BY InputFacts
  <2>4. OnePrinted(o.path, c) \in Seq(Items)
    BY <2>2, <2>3, OccurrencePrinted
  <2>5. QED
    BY <2>1, <2>2, <2>4 DEF c
<1>5. t \in [DOMAIN s -> Seq(Items)] /\ \A k \in 1 .. Len(s) : t[k] = OnePrinted(path, s[k])
  BY <1>3, <1>4
<1> HIDE DEF t
<1>6. t \in Seq(Seq(Items)) /\ Len(t) = Len(s)
  <2> DEFINE X == Found
             Y == Seq(Items)
  <2>1. s \in Seq(X) /\ t \in [DOMAIN s -> Y]
    BY <1>1, <1>5
  <2> HIDE DEF X, Y
  <2>2. t \in Seq(Y) /\ Len(t) = Len(s)
    BY <1>3, <2>1, IsASeq, LenProperties
  <2>3. QED
    BY <2>2 DEF Y
<1>7. FlattenSeq(t) \in Seq(Items) /\ ToSet(FlattenSeq(t)) = FlatSet(t, Len(s))
  BY <1>6, FlattenElements
<1>8. ASSUME NEW c \in ToSet(s), NEW x \in ToSet(OnePrinted(path, c))
      PROVE  x \in ToSet(FlattenSeq(t))
  <2>1. PICK k \in 1 .. Len(s) : c = s[k]
    BY <1>3
  <2>2. x \in ToSet(t[k])
    BY <1>5, <2>1
  <2>3. QED
    BY <1>7, <2>2 DEF FlatSet
<1>9. QED
  BY <1>2, <1>7, <1>8 DEF s, path

\* A file is printed with all its entries.
LEMMA FilePrinted ==
  ASSUME GivenInv, NEW f \in Files, NEW isFirst \in BOOLEAN
  PROVE  /\ PrintFile(f, isFirst, cfg) \in Seq(Items)
         /\ \A c \in ToSet(f.commits) : \A x \in ToSet(OnePrinted(f.path, c)) :
              x \in ToSet(PrintFile(f, isFirst, cfg))
<1> DEFINE h == Heading(f, isFirst)
           b == Body(f)
           w == << Item("boundary", f.path, 0, 0) >>
<1>1. f.path \in Nat
  BY DEF Files
<1>2. \A what \in {"boundary", "blank", "file"} : Item(what, f.path, 0, 0) \in Items
  BY <1>1 DEF Item, Items
<1>3. b \in Seq(Items)
  BY BodyHasEach
<1>4. h \in Seq(Items)
  BY <1>2 DEF Heading
<1>5. w \in Seq(Items)
  BY <1>2
<1>6. PrintFile(f, isFirst, cfg) = w \o (IF cfg.mode = "grouped" THEN h \o b ELSE b)
  <2>1. IsConfig(cfg)
    BY InputFacts
  <2>2. QED
    BY <2>1, PrintFileIs
<1> HIDE DEF h, b, w
<1>7. h \o b \in Seq(Items) /\ ToSet(h \o b) = ToSet(h) \cup ToSet(b)
  BY <1>3, <1>4, ConcatElements
<1> DEFINE r == IF cfg.mode = "grouped" THEN h \o b ELSE b
<1>8. r \in Seq(Items) /\ \A x \in ToSet(b) : x \in ToSet(r)
  BY <1>3, <1>7
<1> HIDE DEF r
<1>9. w \o r \in Seq(Items) /\ ToSet(w \o r) = ToSet(w) \cup ToSet(r)
  BY <1>5, <1>8, ConcatElements
<1>10. PrintFile(f, isFirst, cfg) = w \o r
  BY <1>6 DEF r
<1>11. \A c \in ToSet(f.commits) : \A x \in ToSet(OnePrinted(f.path, c)) : x \in ToSet(b)
  BY BodyHasEach DEF b
<1>12. QED
  BY <1>8, <1>9, <1>10, <1>11

-----------------------------------------------------------------------------
(* What is printed for a report.                                           *)

\* Everything that is printed for the files is there, names once for all the same.
LEMMA RenderingExact ==
  ASSUME GivenInv, NEW s \in Seq(Files), NEW r, r = Rendering(in.hist, s, cfg)
  PROVE  /\ r \in Seq(Items)
         /\ \A f \in ToSet(s) : \A c \in ToSet(f.commits) : \A x \in ToSet(OnePrinted(f.path, c)) :
              \E y \in ToSet(r) : y = x \/ SameName(y, x)
<1> DEFINE t == [i \in DOMAIN s |-> PrintFile(s[i], i = 1, cfg)]
           flat == FlattenSeq(t)
           F == { i \in DOMAIN flat : \A j \in 1 .. i - 1 :
                    ~( /\ flat[j].what = "name" /\ flat[i].what = "name" /\ flat[j].path = flat[i].path
                       /\ in.hist.short[flat[j].commit] = in.hist.short[flat[i].commit]) }
           E == { e \in Items \X Items : SameName(e[1], e[2]) }
<1>1. r = Picked(flat, F)
  <2>1. r = Distinct(in.hist, flat)
    BY Zenon DEF Rendering
  <2> HIDE DEF flat
  <2>2. QED
    BY <2>1, Zenon DEF Distinct, Firsts
<1>2. /\ DOMAIN s = 1 .. Len(s) /\ Len(s) \in Nat
      /\ \A i \in 1 .. Len(s) : s[i] \in Files
      /\ \A f \in ToSet(s) : \E i \in 1 .. Len(s) : f = s[i]
  BY ToSetFacts
<1> HIDE DEF F
<1>3. /\ t \in [DOMAIN s -> Seq(Items)]
      /\ \A i \in 1 .. Len(s) : t[i] = PrintFile(s[i], i = 1, cfg)
  <2>1. \A i \in 1 .. Len(s) : PrintFile(s[i], i = 1, cfg) \in Seq(Items)
    BY <1>2, FilePrinted
  <2>2. QED
    BY <1>2, <2>1
<1>4. ASSUME NEW i \in 1 .. Len(s), NEW c \in ToSet(s[i].commits), NEW x \in ToSet(OnePrinted(s[i].path, c))
      PROVE  x \in ToSet(t[i])
  <2> DEFINE f == s[i]
             b == (i = 1)
  <2>1. f \in Files /\ b \in BOOLEAN /\ c \in ToSet(f.commits) /\ x \in ToSet(OnePrinted(f.path, c))
    BY <1>2, <1>4
  <2>2. t[i] = PrintFile(f, b, cfg)
    BY <1>3
  <2> HIDE DEF f, b, t
  <2>3. x \in ToSet(PrintFile(f, b, cfg))
    BY <2>1, FilePrinted
  <2>4. QED
    BY <2>2, <2>3
<1> HIDE DEF t, flat
<1>5. t \in Seq(Seq(Items)) /\ Len(t) = Len(s)
  <2> DEFINE Y == Seq(Items)
  <2>1. t \in [1 .. Len(s) -> Y]
    BY <1>2, <1>3
  <2> HIDE DEF Y
  <2>2. t \in Seq(Y) /\ Len(t) = Len(s)
    BY <1>2, <2>1, IsASeq, LenProperties
  <2>3. QED
    BY <2>2 DEF Y
<1>6. flat \in Seq(Items) /\ ToSet(flat) = FlatSet(t, Len(s))
  BY <1>5, FlattenElements DEF flat
<1>7. /\ DOMAIN flat = 1 .. Len(flat) /\ Len(flat) \in Nat
      /\ \A i \in 1 .. Len(flat) : flat[i] \in Items
  BY <1>6, ToSetFacts
<1>8. \A x, y \in Items : << x, y >> \in E <=> SameName(x, y)
  OBVIOUS
<1> HIDE DEF E
<1>9. AreFirsts(F, flat, E)
  <2>1. \A i \in 1 .. Len(flat) : \A j \in 1 .. i - 1 : j \in 1 .. Len(flat)
    BY <1>7
  <2>2. \A i \in 1 .. Len(flat) : \A j \in 1 .. i - 1 :
          << flat[j], flat[i] >> \notin E <=>
            ~( /\ flat[j].what = "name" /\ flat[i].what = "name" /\ flat[j].path = flat[i].path
               /\ in.hist.short[flat[j].commit] = in.hist.short[flat[i].commit])
    <3>1. ASSUME NEW i \in 1 .. Len(flat), NEW j \in 1 .. i - 1
          PROVE  << flat[j], flat[i] >> \in E <=> SameName(flat[j], flat[i])
      BY <1>7, <1>8, <2>1
    <3>2. QED
      BY <3>1 DEF SameName
  <2>3. QED
    BY <1>7, <2>2, Zenon DEF AreFirsts, F
<1>10. Transitive(E, Items)
  <2>1. \A x, y, z : SameName(x, y) /\ SameName(y, z) => SameName(x, z)
    BY DEF SameName
  <2>2. QED
    BY <1>8, <2>1 DEF Transitive
<1>11. Represents(Picked(flat, F), flat, E)
  BY <1>6, <1>9, <1>10, FirstsRepresent
<1>12. r \in Seq(Items)
  <2>1. F \in SUBSET DOMAIN flat
    BY <1>9 DEF AreFirsts
  <2>2. Picked(flat, F) \in Seq(Items)
    BY <1>6, <2>1, PickedElements
  <2>3. QED
    BY <1>1, <2>2
<1>13. ASSUME NEW f \in ToSet(s), NEW c \in ToSet(f.commits), NEW x \in ToSet(OnePrinted(f.path, c))
       PROVE  \E y \in ToSet(r) : y = x \/ SameName(y, x)
  <2>1. PICK i \in 1 .. Len(s) : f = s[i]
    BY <1>2
  <2>2. x \in ToSet(t[i])
    BY <1>4, <1>13, <2>1
  <2>3. x \in ToSet(flat)
    BY <1>6, <2>2 DEF FlatSet
  <2>4. PICK y \in ToSet(r) : y = x \/ << y, x >> \in E
    BY <1>1, <1>11, <2>3 DEF Represents
  <2>5. x \in Items
    BY <1>6, <2>3, ToSetFacts
  <2>6. y \in Items
    <3> DEFINE u == r
    <3>1. u \in Seq(Items) /\ y \in ToSet(u)
      BY <1>12
    <3> HIDE DEF u
    <3>2. QED
      BY <3>1, ToSetFacts
  <2>7. QED
    BY <1>8, <2>4, <2>5, <2>6
<1>14. QED
  BY <1>12, <1>13

\* All finds of an occurrence whose task has arrived are printed.
LEMMA ReportIsComplete ==
  ASSUME GivenInv, NoneOverflows, NEW order \in Seq(Search!Job),
         \A j \in ToSet(order) : jobOrder[j] = "hit",
         NEW r, r = Rendering(in.hist, Aggregate(in.hist, [k \in DOMAIN order |-> Result(order[k])], cfg), cfg)
  PROVE  /\ r \in Seq(Items)
         /\ \A j \in ToSet(order), o \in ToSet(in.occs) : o.blob = Tasks(in.occs)[j].oid =>
              \A x \in Finds(o) : \E y \in ToSet(r) : x = y \/ SameName(x, y)
<1> DEFINE q == Entries(in.hist, [k \in DOMAIN order |-> Result(order[k])], cfg)
           files == FilesOf(q)
<1>1. /\ q \in Seq(Found)
      /\ \A x, y \in ToSet(q) : x.path = y.path /\ x.commit = y.commit => x = y
      /\ \A j \in ToSet(order), o \in ToSet(in.occs) : o.blob = Tasks(in.occs)[j].oid =>
           \E e \in ToSet(q) : e.path = o.path /\ e.commit = o.commit
  BY EntriesExact
<1>2. r = Rendering(in.hist, files, cfg)
  BY AggregateIs, Zenon
<1> HIDE DEF q
<1>3. /\ files \in Seq(Files)
      /\ \A e \in ToSet(q) : \E f \in ToSet(files) : f.path = e.path /\ e \in ToSet(f.commits)
  BY <1>1, FilesExact
<1> HIDE DEF files
<1>4. /\ r \in Seq(Items)
      /\ \A f \in ToSet(files) : \A c \in ToSet(f.commits) : \A x \in ToSet(OnePrinted(f.path, c)) :
           \E y \in ToSet(r) : y = x \/ SameName(y, x)
  <2> DEFINE u == r
  <2>1. u = Rendering(in.hist, files, cfg)
    BY <1>2
  <2> HIDE DEF u
  <2>2. /\ u \in Seq(Items)
        /\ \A f \in ToSet(files) : \A c \in ToSet(f.commits) : \A x \in ToSet(OnePrinted(f.path, c)) :
             \E y \in ToSet(u) : y = x \/ SameName(y, x)
    BY <1>3, <2>1, RenderingExact
  <2>3. QED
    BY <2>2 DEF u
<1>5. ASSUME NEW j \in ToSet(order), NEW o \in ToSet(in.occs), o.blob = Tasks(in.occs)[j].oid,
             NEW x \in Finds(o)
      PROVE  \E y \in ToSet(r) : x = y \/ SameName(x, y)
  <2>1. PICK e \in ToSet(q) : e.path = o.path /\ e.commit = o.commit
    BY <1>1, <1>5
  <2>2. PICK f \in ToSet(files) : f.path = e.path /\ e \in ToSet(f.commits)
    BY <1>3
  <2>3. e \in Found
    BY <1>1, ToSetFacts
  <2>4. PICK p \in ToSet(in.occs) : /\ e.path = p.path /\ e.commit = p.commit
                                    /\ HasMatch(Blob(p)) /\ IsResultOf(e.res, Blob(p))
    BY <2>3, FoundFacts
  <2>5. p = o
    BY <2>1, <2>4, InputFacts
  <2>6. IsConfig(cfg) /\ IsBlob(Blob(o)) /\ o.path \in Nat /\ o.commit \in Nat
    BY InputFacts
  <2>7. \A z \in Finds(o) : z \in ToSet(OnePrinted(o.path, e))
    BY <2>1, <2>4, <2>5, <2>6, OccurrencePrinted
  <2>8. x \in ToSet(OnePrinted(f.path, e))
    BY <1>5, <2>1, <2>2, <2>7
  <2>9. PICK y \in ToSet(r) : y = x \/ SameName(y, x)
    BY <1>4, <2>2, <2>8
  <2>10. QED
    BY <2>9 DEF SameName
<1>6. QED
  BY <1>4, <1>5

-----------------------------------------------------------------------------
(* What is due while the run goes on.                                      *)

\* All that Format is given to print.
Due == Rendering(in.hist, Report, cfg)

(***************************************************************************)
(* While Format prints, every item has been printed or is yet to be; when  *)
(* runContext has returned without an error, every item has been printed,  *)
(* unless the question was for help or quiet.                              *)
(***************************************************************************)
RenderInv ==
  NoneOverflows =>
    /\ pc = "render" =>
         /\ todo \in Seq(Items) /\ text \in Seq(Items)
         /\ \A y \in ToSet(Due) : y.what # "boundary" => y \in ToSet(text) \cup ToSet(todo)
    /\ pc \in {"return", "exited"} /\ err = "none" /\ ~in.info /\ ~quiet =>
         \A y \in ToSet(Due) : y.what # "boundary" => y \in ToSet(text)

\* The tasks that arrived have matches.
LEMMA ArrivedAreHits ==
  ASSUME RunInv
  PROVE  arrived \in Seq(Search!Job) /\ \A j \in ToSet(arrived) : jobOrder[j] = "hit"
<1>1. /\ arrived \in Seq(Nat) /\ delivered \subseteq Search!Job
      /\ ToSet(arrived) = { j \in delivered : jobOrder[j] = "hit" }
  BY DEF RunInv, SearchInv
<1> DEFINE s == arrived
<1>2. /\ DOMAIN s = 1 .. Len(s) /\ Len(s) \in Nat
      /\ \A i \in 1 .. Len(s) : s[i] \in ToSet(s)
  BY <1>1, ToSetFacts
<1>3. s = [i \in 1 .. Len(s) |-> s[i]]
  BY <1>1, <1>2
<1>4. \A i \in 1 .. Len(s) : s[i] \in Search!Job
  BY <1>1, <1>2
<1> DEFINE Y == Search!Job
<1>5. s \in Seq(Y)
  <2>1. s \in [1 .. Len(s) -> Y] /\ Len(s) \in Nat
    BY <1>2, <1>3, <1>4
  <2> HIDE DEF s, Y
  <2>2. QED
    BY <2>1, IsASeq
<1>6. QED
  BY <1>1, <1>5

\* What is due has the finds of all that arrived.
LEMMA DueIsComplete ==
  ASSUME RunInv, GivenInv, NoneOverflows
  PROVE  /\ Due \in Seq(Items)
         /\ \A j \in ToSet(arrived), o \in ToSet(in.occs) : o.blob = Tasks(in.occs)[j].oid =>
              \A x \in Finds(o) : \E y \in ToSet(Due) : x = y \/ SameName(x, y)
<1> DEFINE order == arrived
           r == Due
<1>1. order \in Seq(Search!Job) /\ \A j \in ToSet(order) : jobOrder[j] = "hit"
  BY ArrivedAreHits
<1>2. r = Rendering(in.hist, Aggregate(in.hist, [k \in DOMAIN order |-> Result(order[k])], cfg), cfg)
  BY Zenon DEF Due, Report, cfg
<1> HIDE DEF order, r
<1>3. /\ r \in Seq(Items)
      /\ \A j \in ToSet(order), o \in ToSet(in.occs) : o.blob = Tasks(in.occs)[j].oid =>
           \A x \in Finds(o) : \E y \in ToSet(r) : x = y \/ SameName(x, y)
  BY <1>1, <1>2, ReportIsComplete
<1>4. QED
  BY <1>3 DEF order, r

\* What is due stays as it is once the results are in.
LEMMA DueStays ==
  ASSUME UNCHANGED << in, arrived >>
  PROVE  Due' = Due /\ (NoneOverflows' <=> NoneOverflows)
<1>1. Due' = Due
  BY DEF Due, Report, Result, cfg
<1>2. NoneOverflows' <=> NoneOverflows
  BY DEF NoneOverflows, cfg, Overflows, Wanted, IsPassedOver, Blob
<1>3. QED
  BY <1>1, <1>2

\* The head of a sequence, its tail, and a sequence that grows.
LEMMA SequenceParts ==
  ASSUME NEW X, NEW s \in Seq(X), s # << >>
  PROVE  /\ Head(s) \in X /\ Tail(s) \in Seq(X)
         /\ \A x \in ToSet(s) : x = Head(s) \/ x \in ToSet(Tail(s))
<1> DEFINE t == Tail(s)
<1>1. /\ Head(s) \in X /\ t \in Seq(X) /\ Len(t) = Len(s) - 1
      /\ \A i \in 1 .. Len(t) : t[i] = s[i + 1]
  BY HeadTailProperties
<1>2. Head(s) = s[1]
  OBVIOUS
<1> HIDE DEF t
<1>3. /\ Len(s) \in Nat /\ \A x \in ToSet(s) : \E i \in 1 .. Len(s) : x = s[i]
      /\ \A i \in 1 .. Len(t) : t[i] \in ToSet(t)
  BY <1>1, ToSetFacts
<1>4. ASSUME NEW x \in ToSet(s) PROVE x = Head(s) \/ x \in ToSet(t)
  <2>1. PICK i \in 1 .. Len(s) : x = s[i]
    BY <1>3
  <2>2. CASE i = 1
    BY <1>2, <2>1, <2>2
  <2>3. CASE i # 1
    <3>1. i - 1 \in 1 .. Len(t)
      BY <1>1, <1>3, <2>3
    <3>2. t[i - 1] = s[i]
      <4> DEFINE k == i - 1
      <4>1. k \in 1 .. Len(t) /\ k + 1 = i
        BY <3>1
      <4> HIDE DEF k
      <4>2. t[k] = s[k + 1]
        BY <1>1, <4>1
      <4>3. QED
        BY <4>1, <4>2 DEF k
    <3>3. QED
      BY <1>3, <2>1, <3>1, <3>2
  <2>4. QED
    BY <2>2, <2>3
<1>5. QED
  BY <1>1, <1>4 DEF t

LEMMA SequenceGrows ==
  ASSUME NEW X, NEW s \in Seq(X), NEW x \in X
  PROVE  /\ Append(s, x) \in Seq(X)
         /\ x \in ToSet(Append(s, x)) /\ \A y \in ToSet(s) : y \in ToSet(Append(s, x))
<1> DEFINE t == Append(s, x)
<1>1. /\ t \in Seq(X) /\ Len(t) = Len(s) + 1 /\ Len(s) \in Nat
      /\ \A i \in 1 .. Len(s) : t[i] = s[i]
      /\ t[Len(s) + 1] = x
  BY AppendProperties
<1> HIDE DEF t
<1>2. /\ \A y \in ToSet(s) : \E i \in 1 .. Len(s) : y = s[i]
      /\ \A i \in 1 .. Len(t) : t[i] \in ToSet(t)
  BY <1>1, ToSetFacts
<1>3. \A i \in 1 .. Len(s) : i \in 1 .. Len(t)
  BY <1>1
<1>4. Len(s) + 1 \in 1 .. Len(t)
  BY <1>1
<1>5. x \in ToSet(t)
  BY <1>1, <1>2, <1>4
<1>6. \A y \in ToSet(s) : y \in ToSet(t)
  BY <1>1, <1>2, <1>3
<1>7. QED
  BY <1>1, <1>5, <1>6 DEF t

\* What is printed and what has yet to be, while nothing else matters changes.
LEMMA RenderGoesOn ==
  ASSUME RenderInv, NoneOverflows, pc = "render", UNCHANGED << in, arrived >>,
         todo' \in Seq(Items), text' \in Seq(Items),
         \A y \in ToSet(todo) : y.what # "boundary" => y \in ToSet(text') \cup ToSet(todo'),
         \A y \in ToSet(text) : y \in ToSet(text'),
         UNCHANGED << pc, err >> \/ Return("cancel")
  PROVE  RenderInv'
<1>1. Due' = Due
  BY DueStays
<1>2. \A y \in ToSet(Due) : y.what # "boundary" => y \in ToSet(text) \cup ToSet(todo)
  BY DEF RenderInv
<1>3. \A y \in ToSet(Due') : y.what # "boundary" => y \in ToSet(text') \cup ToSet(todo')
  BY <1>1, <1>2
<1>4. pc' = "render" \/ err' = "cancel"
  BY DEF Return
<1>5. pc' = "render" => ~(pc' \in {"return", "exited"})
  OBVIOUS
<1>6. QED
  BY <1>3, <1>4, <1>5, Zenon DEF RenderInv

\* Once Format is not at work, only an outcome without an error says anything.
LEMMA RenderIsOver ==
  ASSUME pc' # "render", ~(pc' \in {"return", "exited"} /\ err' = "none" /\ ~in'.info /\ ~quiet')
  PROVE  RenderInv'
BY Zenon DEF RenderInv

\* Emit hands over all that is due.
LEMMA EmitIsComplete == ASSUME RunInv, GivenInv, Emit PROVE RenderInv'
<1>1. /\ pc = "emit" /\ quiet \in BOOLEAN /\ text = << >> /\ err = "none"
      /\ UNCHANGED << in, arrived, quiet, text >>
  BY DEF Emit, RunInv, StepInv, Running, Late, given, output
<1>2. CASE arrived = << >>
  <2>1. Return(WithSkipped("noMatch"))
    BY <1>2 DEF Emit
  <2>2. WithSkipped("noMatch") \in {"noMatch", "skipped"}
    BY DEF WithSkipped
  <2>3. pc' = "return" /\ err' # "none"
    BY <2>1, <2>2 DEF Return
  <2>4. QED
    BY <2>3, RenderIsOver
<1>3. CASE arrived # << >> /\ quiet
  <2>1. pc' = "return" /\ quiet'
    BY <1>1, <1>3 DEF Emit, Return
  <2>2. QED
    BY <2>1, RenderIsOver
<1>4. CASE arrived # << >> /\ ~quiet
  <2>1. todo' = Due /\ pc' = "render" /\ text' = << >>
    <3>1. todo' = Rendering(in.hist, Report, in.cfg) /\ GoOn
      BY <1>4, Zenon DEF Emit
    <3>2. todo' = Due
      BY <3>1, Zenon DEF Due, cfg
    <3>3. pc' = "render"
      BY <1>1, <3>1, GoOnLeads
    <3>4. QED
      BY <1>1, <3>2, <3>3
  <2>2. Due' = Due /\ (NoneOverflows' <=> NoneOverflows)
    BY <1>1, DueStays
  <2>3. ASSUME NoneOverflows
        PROVE  todo' \in Seq(Items) /\ text' \in Seq(Items)
    <3>1. Due \in Seq(Items)
      BY <2>3, DueIsComplete
    <3>2. << >> \in Seq(Items)
      OBVIOUS
    <3>3. QED
      BY <2>1, <3>1, <3>2
  <2>4. \A y \in ToSet(Due') : y \in ToSet(todo')
    BY <2>1, <2>2
  <2>5. ~(pc' \in {"return", "exited"})
    BY <2>1
  <2>6. QED
    BY <2>2, <2>3, <2>4, <2>5, Zenon DEF RenderInv
<1>5. QED
  BY <1>2, <1>3, <1>4

\* Format prints what it takes from its list.
LEMMA FormatKeeps ==
  ASSUME RunInv, RenderInv, RenderBoundary \/ RenderItem \/ RenderFails \/ RenderDone
  PROVE  RenderInv'
<1>0. pc = "render" /\ UNCHANGED << in, arrived, quiet >>
  BY DEF RenderBoundary, RenderItem, RenderFails, RenderDone, given
<1>1. NoneOverflows' <=> NoneOverflows
  BY <1>0, DueStays
<1> SUFFICES ASSUME NoneOverflows PROVE RenderInv'
  BY <1>1 DEF RenderInv
<1>2. todo \in Seq(Items) /\ text \in Seq(Items)
  BY <1>0 DEF RenderInv
<1>3. ASSUME NEW looks, GoOnUnless(looks) PROVE UNCHANGED << pc, err >> \/ Return("cancel")
  <2>1. WithSkipped("cancel") = "cancel"
    BY DEF WithSkipped
  <2>2. Return(WithSkipped("cancel")) => Return("cancel")
    BY <2>1, Zenon
  <2>3. QED
    BY <1>3, <2>2, Zenon DEF GoOnUnless
<1>4. CASE RenderBoundary
  <2>1. todo # << >> /\ Head(todo).what = "boundary" /\ todo' = Tail(todo) /\ text' = text
    BY <1>4 DEF RenderBoundary, output
  <2>2. UNCHANGED << pc, err >> \/ Return("cancel")
    BY <1>3, <1>4, Zenon DEF RenderBoundary
  <2>3. todo' \in Seq(Items) /\ \A y \in ToSet(todo) : y = Head(todo) \/ y \in ToSet(todo')
    BY <1>2, <2>1, SequenceParts
  <2>4. \A y \in ToSet(todo) : y.what # "boundary" => y \in ToSet(text') \cup ToSet(todo')
    BY <2>1, <2>3
  <2>5. \A y \in ToSet(text) : y \in ToSet(text')
    BY <2>1
  <2>6. QED
    BY <1>0, <1>2, <2>1, <2>2, <2>3, <2>4, <2>5, RenderGoesOn
<1>5. CASE RenderItem
  <2>1. todo # << >> /\ todo' = Tail(todo) /\ text' = Append(text, Head(todo))
    BY <1>5 DEF RenderItem
  <2>2. UNCHANGED << pc, err >> \/ Return("cancel")
    BY <1>3, <1>5, Zenon DEF RenderItem
  <2>3. /\ todo' \in Seq(Items) /\ Head(todo) \in Items
        /\ \A y \in ToSet(todo) : y = Head(todo) \/ y \in ToSet(todo')
    BY <1>2, <2>1, SequenceParts
  <2>4. /\ text' \in Seq(Items) /\ Head(todo) \in ToSet(text')
        /\ \A y \in ToSet(text) : y \in ToSet(text')
    BY <1>2, <2>1, <2>3, SequenceGrows
  <2>5. \A y \in ToSet(todo) : y.what # "boundary" => y \in ToSet(text') \cup ToSet(todo')
    BY <2>3, <2>4
  <2>6. QED
    BY <1>0, <2>2, <2>3, <2>4, <2>5, RenderGoesOn
<1>6. CASE RenderFails
  <2>1. Return(WithSkipped(OrCancel("write")))
    BY <1>6 DEF RenderFails
  <2>2. WithSkipped(OrCancel("write")) \in {"cancel", "write"}
    BY DEF WithSkipped, OrCancel
  <2>3. pc' = "return" /\ err' # "none"
    BY <2>1, <2>2 DEF Return
  <2>4. QED
    BY <2>3, RenderIsOver
<1>7. CASE RenderDone
  <2>1. todo = << >> /\ text' = text /\ pc' = "return"
    BY <1>7 DEF RenderDone, Return, output
  <2>2. \A y \in ToSet(Due) : y.what # "boundary" => y \in ToSet(text) \cup ToSet(todo)
    BY <1>0 DEF RenderInv
  <2>3. ToSet(todo) = {}
    <3>1. DOMAIN << >> = {}
      OBVIOUS
    <3>2. QED
      BY <2>1, <3>1 DEF ToSet
  <2>4. Due' = Due
    BY <1>0, DueStays
  <2>5. \A y \in ToSet(Due') : y.what # "boundary" => y \in ToSet(text')
    BY <2>1, <2>2, <2>3, <2>4
  <2>6. pc' # "render"
    BY <2>1
  <2>7. QED
    BY <2>5, <2>6, Zenon DEF RenderInv
<1>8. QED
  BY <1>4, <1>5, <1>6, <1>7

\* Every other step returns an error, or comes before or after.
LEMMA OthersKeep ==
  ASSUME RunInv, RenderInv,
         \/ SetUp \/ PrintInfo \/ CheckCtx \/ Walk \/ CountOccurrences \/ SearchStep
         \/ EndOfResults \/ ReceiveErr \/ ReportSkipped \/ Exit
  PROVE  RenderInv'
<1>1. CASE SetUp \/ PrintInfo \/ CheckCtx \/ Walk \/ CountOccurrences \/ EndOfResults \/ ReceiveErr
  <2>1. (pc' = "return" /\ (err' # "none" \/ in'.info)) \/ GoOn
    BY <1>1 DEF SetUp, PrintInfo, CheckCtx, Walk, CountOccurrences, EndOfResults, ReceiveErr,
                Return, SetUpError, OrCancel, given
  <2>2. pc \in {"parse", "validate", "discover", "open", "matcher", "filter", "info",
                "ctxParsed", "ctxValid", "ctxWalked", "ctxSearched", "walk", "occurrences",
                "search", "errCh"}
    BY <1>1 DEF SetUp, PrintInfo, CheckCtx, Walk, CountOccurrences, EndOfResults, ReceiveErr
  <2>3. CASE GoOn
    <3>1. pc' \notin {"render", "return", "exited"}
      BY <2>2, <2>3, GoOnLeads
    <3>2. QED
      BY <3>1, RenderIsOver
  <2>4. QED
    BY <2>1, <2>3, RenderIsOver
<1>2. CASE SearchStep
  <2>1. pc' = "search"
    BY <1>2 DEF SearchStep
  <2>2. QED
    BY <2>1, RenderIsOver
<1>3. CASE ReportSkipped
  <2>1. pc' = "emit"
    BY <1>3, GoOnLeads DEF ReportSkipped
  <2>2. QED
    BY <2>1, RenderIsOver
<1>4. CASE Exit
  <2>1. /\ pc = "return" /\ pc' = "exited"
        /\ UNCHANGED << in, arrived, quiet, text, err >>
    BY <1>4 DEF Exit, given
  <2>2. Due' = Due /\ (NoneOverflows' <=> NoneOverflows)
    BY <2>1, DueStays
  <2>3. ASSUME NoneOverflows, err' = "none", ~in'.info, ~quiet'
        PROVE  \A y \in ToSet(Due') : y.what # "boundary" => y \in ToSet(text')
    <3>1. \A y \in ToSet(Due) : y.what # "boundary" => y \in ToSet(text)
      BY <2>1, <2>3 DEF RenderInv
    <3>2. QED
      BY <2>1, <2>2, <3>1
  <2>4. pc' # "render"
    BY <2>1
  <2>5. QED
    BY <2>2, <2>3, <2>4, Zenon DEF RenderInv
<1>5. QED
  BY <1>1, <1>2, <1>3, <1>4

\* Signals and waiting.
LEMMA SignalsKeep ==
  ASSUME RenderInv, Interrupt \/ ReleaseHandler \/ UNCHANGED vars
  PROVE  RenderInv'
<1>1. UNCHANGED << in, arrived, quiet, todo, text, err >> /\ (pc' = pc \/ pc' = "killed")
  BY DEF Interrupt, ReleaseHandler, Search!CallerCancel, search, given, format, output, vars
<1>2. Due' = Due /\ (NoneOverflows' <=> NoneOverflows)
  BY <1>1, DueStays
<1>3. CASE pc' = pc
  BY <1>1, <1>2, <1>3 DEF RenderInv
<1>4. CASE pc' = "killed"
  BY <1>4, RenderIsOver
<1>5. QED
  BY <1>1, <1>3, <1>4

LEMMA AlwaysRenderInv == Spec => []RenderInv
<1>1. Init => RenderInv
  BY DEF Init, RenderInv
<1>2. RunInv /\ GivenInv /\ RenderInv /\ [Next]_vars => RenderInv'
  <2> SUFFICES ASSUME RunInv, GivenInv, RenderInv, [Next]_vars PROVE RenderInv'
    OBVIOUS
  <2>1. QED
    BY EmitIsComplete, FormatKeeps, OthersKeep, SignalsKeep, Zenon DEF Next, Main, Ended
<1>3. QED
  BY <1>1, <1>2, AlwaysRunInv, AlwaysGivenInv, PTL DEF Spec

-----------------------------------------------------------------------------
(* The results.                                                            *)

(***************************************************************************)
(* Exit code 1 is given only to a complete walk and a complete search that *)
(* found nothing it had to report, with nothing on stdout.                 *)
(***************************************************************************)
THEOREM NegativeIsNeverGuessed == Spec => []NegativeIsEarned
<1>1. RunInv => NegativeIsEarned
  <2>1. SUFFICES ASSUME RunInv, exit = 1
                 PROVE  /\ Search!Loud = {} /\ text = << >>
                        /\ closed \/ jobOrder = << >>
                        /\ ~walkCancelled
    BY DEF NegativeIsEarned
  <2>2. pc = "exited" /\ err = "noMatch"
    BY <2>1 DEF RunInv, ExitInv, ErrInv, ExitCode, NoExit
  <2>3. walkCancelled => pc \in {"ctxWalked", "killed"} \/ err = "cancel"
    BY <2>1, Zenon DEF RunInv, StepInv
  <2>4. jobOrder = << >> => Search!Loud = {}
    BY DEF Search!Loud, Search!Job
  <2>5. text = << >> /\ (jobOrder = << >> \/ (closed /\ Search!Loud = {}))
    BY <2>1, <2>2 DEF RunInv, ErrInv
  <2>6. QED
    BY <2>2, <2>3, <2>4, <2>5
<1>2. QED
  BY <1>1, AlwaysRunInv, PTL

(***************************************************************************)
(* Exit code 0 is given only to a search whose match is one by the lines   *)
(* of the blob, and unless --quiet asked for no more, to one whose every   *)
(* result to report was a match.                                           *)
(***************************************************************************)
THEOREM PositiveIsNeverGuessed == Spec => []PositiveIsEarned
<1>1. RunInv /\ GivenInv => PositiveIsEarned
  <2> SUFFICES ASSUME RunInv, GivenInv, exit = 0, ~in.info
               PROVE  /\ arrived # << >> /\ AllFinds # {}
                      /\ quiet \/ Search!Loud = ToSet(arrived)
    BY DEF PositiveIsEarned
  <2>1. arrived # << >> /\ (quiet \/ Search!Loud = ToSet(arrived))
    BY DEF RunInv, ExitInv, ErrInv, ExitCode, NoExit
  <2>2. arrived \in Seq(Nat) /\ ToSet(arrived) = { j \in delivered : jobOrder[j] = "hit" }
        /\ delivered \subseteq Search!Job
    BY DEF RunInv, SearchInv
  <2>3. PICK j \in Search!Job : jobOrder[j] = "hit"
    <3>1. 1 \in DOMAIN arrived
      BY <2>1, <2>2, EmptySeq, LenProperties
    <3>2. arrived[1] \in ToSet(arrived)
      BY <3>1 DEF ToSet
    <3>3. QED
      BY <2>2, <3>2
  <2>4. PICK o \in ToSet(in.occs) : jobOrder[j] = ResultKind(Blob(o), cfg)
    BY TaskFacts
  <2>5. IsBlob(Blob(o)) /\ IsConfig(cfg)
    BY TaskFacts
  <2>6. HasMatch(Blob(o))
    BY <2>3, <2>4, <2>5, HitMeansMatch
  <2>7. Finds(o) # {}
    BY <2>5, <2>6, MatchIsFound
  <2>8. QED
    BY <2>1, <2>7 DEF AllFinds
<1>2. QED
  BY <1>1, AlwaysRunInv, AlwaysGivenInv, PTL

(***************************************************************************)
(* Exit code 1 says that nothing matches: the walk was complete, every     *)
(* blob was read and searched, and no line of any of them is wanted,       *)
(* whatever merging, inverting, counting and context did on the way.       *)
(***************************************************************************)
THEOREM NegativeIsTheTruth == Spec => []NegativeIsTrue
<1>1. NegativeIsEarned /\ GivenInv => NegativeIsTrue
  <2> SUFFICES ASSUME NegativeIsEarned, GivenInv, exit = 1, NoneOverflows
               PROVE  AllFinds = {}
    BY DEF NegativeIsTrue
  <2>1. ASSUME NEW o \in ToSet(in.occs) PROVE Finds(o) = {}
    <3>1. PICK j \in Search!Job : jobOrder[j] = ResultKind(Blob(o), cfg)
      BY TaskFacts
    <3>2. jobOrder[j] = "silent"
      BY <3>1 DEF NegativeIsEarned, Search!Loud
    <3>3. IsBlob(Blob(o)) /\ IsConfig(cfg)
      BY TaskFacts
    <3>4. HasContext(cfg) => ~Overflows(Blob(o))
      BY DEF NoneOverflows
    <3>5. ~HasMatch(Blob(o))
      BY <3>1, <3>2, <3>3, <3>4, SilentMeansNoMatch
    <3>6. QED
      BY <3>5 DEF Finds
  <2>2. QED
    BY <2>1 DEF AllFinds
<1>2. QED
  BY <1>1, NegativeIsNeverGuessed, AlwaysGivenInv, PTL

(***************************************************************************)
(* Exit code 0 says that there is a match, and unless --quiet asked for no *)
(* more, that every find of every blob has been printed, whatever merging, *)
(* grouping, sorting and removal of duplicates did on the way.             *)
(***************************************************************************)
THEOREM PositiveIsTheTruth == Spec => []PositiveIsTrue
<1>1. RunInv /\ GivenInv /\ RenderInv /\ PositiveIsEarned => PositiveIsTrue
  <2> SUFFICES ASSUME RunInv, GivenInv, RenderInv, PositiveIsEarned,
                      exit = 0, ~in.info, ~quiet, NoneOverflows,
                      NEW o \in ToSet(in.occs), NEW x \in Finds(o)
               PROVE  \E y \in ToSet(text) : x = y \/ SameName(x, y)
    BY DEF PositiveIsTrue, AllFinds
  <2>1. pc = "exited" /\ err = "none"
    BY DEF RunInv, ExitInv, ErrInv, ExitCode, NoExit
  <2>2. \A y \in ToSet(Due) : y.what # "boundary" => y \in ToSet(text)
    BY <2>1 DEF RenderInv
  <2>3. PICK j \in Search!Job : Tasks(in.occs)[j].oid = o.blob
    BY TaskOccurrences
  <2>4. jobOrder[j] = ResultKind(Blob(o), cfg)
    BY <2>3, TaskOccurrences DEF Blob
  <2>5. HasMatch(Blob(o))
    BY DEF Finds
  <2>6. IsBlob(Blob(o)) /\ IsConfig(cfg)
    BY InputFacts
  <2>7. jobOrder[j] # "silent"
    <3>1. HasContext(cfg) => ~Overflows(Blob(o))
      BY DEF NoneOverflows
    <3>2. QED
      BY <2>4, <2>5, <2>6, <3>1, SilentMeansNoMatch
  <2>8. j \in ToSet(arrived)
    BY <2>3, <2>7 DEF PositiveIsEarned, Search!Loud
  <2>9. PICK y \in ToSet(Due) : x = y \/ SameName(x, y)
    BY <2>3, <2>8, DueIsComplete
  <2>10. x.what # "boundary"
    BY <2>5, <2>6 DEF Finds, Item, IsConfig
  <2>11. y.what # "boundary"
    BY <2>9, <2>10 DEF SameName
  <2>12. QED
    BY <2>2, <2>9, <2>11
<1>2. QED
  BY <1>1, AlwaysRunInv, AlwaysGivenInv, AlwaysRenderInv, PositiveIsNeverGuessed, PTL

(***************************************************************************)
(* A blob whose search failed outright is never passed over in the exit    *)
(* code, whatever else was found and whenever interrupts arrived.          *)
(***************************************************************************)
THEOREM FatalReachesTheExitCode == Spec => []FatalIsNotMasked
<1>1. RunInv => FatalIsNotMasked
  BY DEF RunInv, SearchInv, StepInv, ExitInv, ErrInv, ExitCode, FatalIsNotMasked
<1>2. QED
  BY <1>1, AlwaysRunInv, PTL

(***************************************************************************)
(* A program that exits with 2 has written to stderr, unless it is quiet   *)
(* and was interrupted.                                                    *)
(***************************************************************************)
THEOREM FailureIsAlwaysDiagnosed == Spec => []FailureIsDiagnosed
<1>1. RunInv => FailureIsDiagnosed
  BY DEF RunInv, ExitInv, FailureIsDiagnosed, NoExit
<1>2. QED
  BY <1>1, AlwaysRunInv, PTL

(***************************************************************************)
(* A walk that an interrupt cut short leads to no output and no success.   *)
(***************************************************************************)
THEOREM CancelledWalkStaysSilent == Spec => []CancelledWalkIsNotShown
<1>1. RunInv => CancelledWalkIsNotShown
  BY DEF RunInv, StepInv, ExitInv, ExitCode, NoExit, CancelledWalkIsNotShown
<1>2. QED
  BY <1>1, AlwaysRunInv, PTL
==============================================================================
