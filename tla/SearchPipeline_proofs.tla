----------------------- MODULE SearchPipeline_proofs -----------------------
(***************************************************************************)
(* Proofs about SearchPipeline, for any pool of workers, any buffer size   *)
(* and any number of blobs: its safety invariants, and then that it        *)
(* implements SearchContract, every step of the goroutines, of the context *)
(* and of the caller being a step of the contract or one that leaves its   *)
(* state alone.                                                            *)
(***************************************************************************)
EXTENDS SearchPipeline, SequenceTheorems, FiniteSetTheorems, TLAPS

Holding == {"read", "match", "check", "publish", "send", "count"}

\* TypeOK is not inductive: a worker past "select" has a real job in hand.
TypeInv ==
  /\ TypeOK
  /\ \A w \in Worker : pc[w] \in Holding => task[w] \in Job
  /\ \A w \in Worker : pc[w] = "publish" => Fatal(w)

\* A sequence of one element, as the sends on an empty errCh build it.
LEMMA Singleton ==
  ASSUME NEW S, NEW e \in S
  PROVE  << e >> \in Seq(S) /\ Len(<< e >>) = 1 /\ << e >> # << >>
OBVIOUS

\* The errors that errCh can hold fit it.
LEMMA OneError ==
  ASSUME NEW e \in {"fatal", "cancelled"}
  PROVE  << e >> \in Seq({"fatal", "cancelled"}) /\ Len(<< e >>) <= 1
BY Singleton

\* The values stay in range initially, before any goroutine exists.
LEMMA InitTypeInv == Init => TypeInv
<1> SUFFICES ASSUME Init PROVE TypeInv
  OBVIOUS
<1> USE DEF Init
<1>1. PICK n \in 0 .. MaxJobs : jobOrder \in [1 .. n -> Kind]
  OBVIOUS
<1>2. n \in Nat
  BY MaxJobsAssumption
<1>3. jobOrder \in Seq(Kind) /\ Len(jobOrder) \in Nat
  BY <1>1, <1>2
<1>4. << >> \in Seq(1 .. Len(jobOrder)) /\ << >> \in Seq({"fatal", "cancelled"}) /\ Len(<< >>) = 0
  BY EmptySeq
<1>5. /\ Len(resultsCh) <= BufSize /\ Len(errCh) <= 1 /\ sent - received <= BufSize
      /\ sent \in 0 .. Len(jobOrder) /\ received \in 0 .. sent /\ searched \in Nat
  BY <1>3, <1>4, BufSizeAssumption
<1>6. /\ task \in [Worker -> 0 .. Len(jobOrder)]
      /\ res \in [Worker -> Kind \cup {"none", "cancelled"}]
      /\ pc \in [Worker -> {"unborn", "select", "read", "match", "check",
                            "publish", "send", "count", "stop", "exited"}]
  BY <1>3
<1>7. /\ resultsCh \in Seq(1 .. Len(jobOrder)) /\ errCh \in Seq({"fatal", "cancelled"})
      /\ collected \in Seq(1 .. Len(jobOrder)) /\ reported \in Seq({"fatal", "cancelled"})
  BY <1>4
<1>8. TypeOK
  BY <1>3, <1>5, <1>6, <1>7 DEF TypeOK, TasksBuffered, Job, NumJobs
<1>9. QED
  BY <1>8 DEF TypeInv, Holding

\* The parts of the type invariant that one step of a worker preserves.
LEMMA WorkerTypeInv ==
  ASSUME TypeInv, NEW w \in Worker, RunWorker(w)
  PROVE  TypeInv'
<1> USE DEF TypeInv, TypeOK, Holding, Job, NumJobs, TasksBuffered, Kind,
            input, context, tasksCh, held, outputs, caller, Goto, Fatal
<1>1. CASE WorkerQuit(w)
  BY <1>1 DEF WorkerQuit
<1>2. CASE WorkerDrained(w)
  BY <1>2 DEF WorkerDrained
<1>3. CASE WorkerReceive(w)
  <2>1. received' \in 0 .. sent /\ received' \in 1 .. Len(jobOrder) /\ received' <= sent
    BY <1>3 DEF WorkerReceive
  <2>2. sent' = sent /\ sent - received' <= BufSize
    BY <1>3, BufSizeAssumption DEF WorkerReceive
  <2>3. task' = [task EXCEPT ![w] = received']
    BY <1>3 DEF WorkerReceive
  <2>4. task' \in [Worker -> 0 .. Len(jobOrder)]
    BY <2>1, <2>3
  <2>5. TypeOK'
    BY <1>3, <2>1, <2>2, <2>4 DEF WorkerReceive
  <2>6. ASSUME NEW v \in Worker, pc'[v] \in Holding PROVE task'[v] \in 1 .. Len(jobOrder)
    BY <1>3, <2>1, <2>3, <2>6 DEF WorkerReceive
  <2>7. ASSUME NEW v \in Worker, pc'[v] = "publish" PROVE Fatal(v)'
    BY <1>3, <2>7 DEF WorkerReceive
  <2>8. jobOrder' = jobOrder
    BY <1>3 DEF WorkerReceive
  <2>9. QED
    BY <2>5, <2>6, <2>7, <2>8
<1>4. CASE ReadBlob(w)
  BY <1>4 DEF ReadBlob
<1>5. CASE MatchBlob(w)
  BY <1>5 DEF MatchBlob
<1>6. CASE CheckTeardown(w)
  BY <1>6 DEF CheckTeardown
<1>7. CASE PublishErr(w)
  <2>1. res[w] \in {"fatal", "cancelled"}
    BY <1>7 DEF PublishErr
  <2>2. errCh' \in Seq({"fatal", "cancelled"}) /\ Len(errCh') <= 1
    <3>1. errCh' = << res[w] >> \/ errCh' = errCh
      BY <1>7 DEF PublishErr, SendErr
    <3>2. << res[w] >> \in Seq({"fatal", "cancelled"}) /\ Len(<< res[w] >>) <= 1
      BY <2>1, OneError
    <3>3. QED
      BY <3>1, <3>2
  <2>3. QED
    BY <1>7, <2>2 DEF PublishErr
<1>8. CASE SendResult(w)
  <2>1. task[w] \in Job
    BY <1>8 DEF SendResult
  <2>2. resultsCh' \in Seq(Job) /\ Len(resultsCh') = Len(resultsCh) + 1
    BY <1>8, <2>1, AppendProperties DEF SendResult
  <2>3. Len(resultsCh') <= BufSize
    BY <1>8, <2>2, BufSizeAssumption, LenProperties DEF SendResult
  <2>4. QED
    BY <1>8, <2>2, <2>3 DEF SendResult
<1>9. CASE AbandonResult(w)
  BY <1>9 DEF AbandonResult
<1>10. CASE CountSearched(w)
  BY <1>10 DEF CountSearched
<1>11. CASE StopRun(w)
  BY <1>11 DEF StopRun
<1>12. QED
  BY <1>1, <1>2, <1>3, <1>4, <1>5, <1>6, <1>7, <1>8, <1>9, <1>10, <1>11
  DEF RunWorker

\* Every step of the program, of its caller and of the context preserves it.
LEMMA NextTypeInv == TypeInv /\ [Next]_vars => TypeInv'
<1> SUFFICES ASSUME TypeInv, [Next]_vars PROVE TypeInv'
  OBVIOUS
<1> USE DEF TypeInv, TypeOK, Holding, Job, NumJobs, TasksBuffered, Kind,
            input, context, tasksCh, held, workers, outputs, caller, Fatal
<1>1. CASE ReturnClosed
  <2>1. errCh' \in Seq({"fatal", "cancelled"}) /\ Len(errCh') <= 1
    <3>1. errCh' = << "cancelled" >> \/ errCh' = << >>
      BY <1>1 DEF ReturnClosed
    <3>2. << "cancelled" >> \in Seq({"fatal", "cancelled"}) /\ Len(<< "cancelled" >>) <= 1
      BY OneError
    <3>3. << >> \in Seq({"fatal", "cancelled"}) /\ Len(<< >>) <= 1
      BY EmptySeq
    <3>4. QED
      BY <3>1, <3>2, <3>3
  <2>2. QED
    BY <1>1, <2>1 DEF ReturnClosed
<1>2. CASE Spawn
  BY <1>2 DEF Spawn
<1>3. CASE DispatchSend
  BY <1>3, BufSizeAssumption DEF DispatchSend, AllSent, TasksRoom
<1>4. CASE DispatchReturn
  BY <1>4 DEF DispatchReturn
<1>5. ASSUME NEW w \in Worker, RunWorker(w) PROVE TypeInv'
  BY <1>5, WorkerTypeInv
<1>6. CASE CloserPublish
  <2>1. errCh' \in Seq({"fatal", "cancelled"}) /\ Len(errCh') <= 1
    <3>1. errCh' = << "cancelled" >> \/ errCh' = errCh
      BY <1>6 DEF CloserPublish, SendErr
    <3>2. << "cancelled" >> \in Seq({"fatal", "cancelled"}) /\ Len(<< "cancelled" >>) <= 1
      BY OneError
    <3>3. QED
      BY <3>1, <3>2
  <2>2. QED
    BY <1>6, <2>1 DEF CloserPublish
<1>7. CASE CloserClose
  BY <1>7 DEF CloserClose
<1>8. CASE CloserReturn
  BY <1>8 DEF CloserReturn
<1>9. CASE CallerCancel
  BY <1>9 DEF CallerCancel
<1>10. CASE PropagateCancel
  BY <1>10 DEF PropagateCancel
<1>11. CASE ReceiveResult
  <2>1. /\ Head(resultsCh) \in Job
        /\ Tail(resultsCh) \in Seq(Job)
        /\ Len(Tail(resultsCh)) = Len(resultsCh) - 1
    BY <1>11, HeadTailProperties DEF ReceiveResult
  <2>2. resultsCh' \in Seq(Job) /\ Len(resultsCh') <= BufSize
    BY <1>11, <2>1, BufSizeAssumption, LenProperties DEF ReceiveResult
  <2>3. collected' \in Seq(Job)
    BY <1>11, <2>1, AppendProperties DEF ReceiveResult
  <2>4. QED
    BY <1>11, <2>2, <2>3 DEF ReceiveResult
<1>12. CASE ReceiveErr
  BY <1>12 DEF ReceiveErr
<1>13. CASE UNCHANGED vars
  BY <1>13 DEF vars
<1>14. QED
  BY <1>1, <1>2, <1>3, <1>4, <1>5, <1>6, <1>7, <1>8, <1>9, <1>10, <1>11,
     <1>12, <1>13
  DEF Next, Goroutines, Dispatch, Closer, Finished

\* Every value stays in range and every buffer within its capacity.
THEOREM TypeCorrect == Spec => []TypeOK
<1>1. Spec => []TypeInv
  BY InitTypeInv, NextTypeInv, PTL DEF Spec
<1>2. TypeInv => TypeOK
  BY DEF TypeInv
<1>3. QED
  BY <1>1, <1>2, PTL

-----------------------------------------------------------------------------
(***************************************************************************)
(* What the caller can see, as sets.                                       *)
(***************************************************************************)
Errors   == Elements(reported) \cup Elements(errCh)
QuietHit == quiet /\ \E j \in Delivered : jobOrder[j] = "hit"

\* A channel before the first send.
LEMMA ElementsEmpty == Elements(<< >>) = {}
BY EmptySeq DEF Elements

\* A sequence of one element.
LEMMA ElementsOne ==
  ASSUME NEW e PROVE Elements(<< e >>) = {e}
BY DEF Elements

\* A send on a channel that holds others.
LEMMA ElementsAppend ==
  ASSUME NEW S, NEW s \in Seq(S), NEW e \in S
  PROVE  Elements(Append(s, e)) = Elements(s) \cup {e}
<1> DEFINE t == Append(s, e)
<1>1. /\ t \in Seq(S) /\ Len(t) = Len(s) + 1 /\ Len(s) \in Nat
      /\ DOMAIN t = 1 .. Len(t) /\ DOMAIN s = 1 .. Len(s)
      /\ \A i \in 1 .. Len(s) : t[i] = s[i]
      /\ t[Len(s) + 1] = e
  BY AppendProperties, LenProperties
<1> HIDE DEF t
<1>2. Elements(t) = Elements(s) \cup {e}
  BY <1>1 DEF Elements
<1>3. QED
  BY <1>2 DEF t

\* A receive.
LEMMA ElementsHeadTail ==
  ASSUME NEW S, NEW s \in Seq(S), s # << >>
  PROVE  Elements(s) = {Head(s)} \cup Elements(Tail(s))
<1> DEFINE t == Tail(s)
<1>1. /\ t \in Seq(S) /\ Len(t) = Len(s) - 1 /\ Len(s) \in Nat \ {0}
      /\ DOMAIN t = 1 .. Len(t) /\ DOMAIN s = 1 .. Len(s)
      /\ \A i \in 1 .. Len(t) : t[i] = s[i + 1]
  BY HeadTailProperties, LenProperties, EmptySeq
<1>2. Head(s) = s[1]
  BY <1>1
<1> HIDE DEF t
<1>3. Elements(s) \subseteq {Head(s)} \cup Elements(t)
  <2> SUFFICES ASSUME NEW i \in 1 .. Len(s), i # 1
               PROVE  s[i] \in Elements(t)
    BY <1>1, <1>2 DEF Elements
  <2>1. i - 1 \in 1 .. Len(t) /\ s[i] = t[i - 1]
    BY <1>1
  <2>2. QED
    BY <2>1, <1>1 DEF Elements
<1>4. Elements(t) \subseteq Elements(s)
  <2> SUFFICES ASSUME NEW i \in 1 .. Len(t) PROVE t[i] \in Elements(s)
    BY <1>1 DEF Elements
  <2>1. i + 1 \in 1 .. Len(s) /\ t[i] = s[i + 1]
    BY <1>1
  <2>2. QED
    BY <2>1, <1>1 DEF Elements
<1>5. Head(s) \in Elements(s)
  BY <1>1, <1>2 DEF Elements
<1>6. QED
  BY <1>3, <1>4, <1>5 DEF t

\* What was received and what is buffered.
LEMMA ElementsConcat ==
  ASSUME NEW S, NEW s \in Seq(S), NEW t \in Seq(S)
  PROVE  Elements(s \o t) = Elements(s) \cup Elements(t)
<1> DEFINE u == s \o t
<1>1. /\ u \in Seq(S) /\ Len(u) = Len(s) + Len(t)
      /\ Len(s) \in Nat /\ Len(t) \in Nat
      /\ DOMAIN u = 1 .. Len(u) /\ DOMAIN s = 1 .. Len(s)
      /\ DOMAIN t = 1 .. Len(t)
      /\ \A i \in 1 .. Len(u) :
           u[i] = IF i <= Len(s) THEN s[i] ELSE t[i - Len(s)]
  BY ConcatProperties, LenProperties
<1> HIDE DEF u
<1>2. Elements(u) \subseteq Elements(s) \cup Elements(t)
  <2> SUFFICES ASSUME NEW i \in 1 .. Len(u)
               PROVE  u[i] \in Elements(s) \cup Elements(t)
    BY <1>1 DEF Elements
  <2>1. CASE i <= Len(s)
    BY <1>1, <2>1 DEF Elements
  <2>2. CASE i > Len(s)
    <3>1. i - Len(s) \in 1 .. Len(t) /\ u[i] = t[i - Len(s)]
      BY <1>1, <2>2
    <3>2. QED
      BY <1>1, <3>1 DEF Elements
  <2>3. QED
    BY <1>1, <2>1, <2>2
<1>3. Elements(s) \subseteq Elements(u)
  BY <1>1 DEF Elements
<1>4. Elements(t) \subseteq Elements(u)
  <2> SUFFICES ASSUME NEW i \in 1 .. Len(t) PROVE t[i] \in Elements(u)
    BY <1>1 DEF Elements
  <2>1. i + Len(s) \in 1 .. Len(u) /\ u[i + Len(s)] = t[i]
    BY <1>1
  <2>2. QED
    BY <1>1, <2>1 DEF Elements
<1>5. QED
  BY <1>2, <1>3, <1>4 DEF u

\* The published errors, in order or as a set.
LEMMA PublishedErrors ==
  ASSUME TypeOK
  PROVE  /\ Elements(Published) = Errors
         /\ Published = << >> => Errors = {}
<1>1. reported \in Seq({"fatal", "cancelled"}) /\ errCh \in Seq({"fatal", "cancelled"})
  BY DEF TypeOK
<1>2. Elements(Published) = Errors
  BY <1>1, ElementsConcat DEF Published, Errors
<1>3. QED
  BY <1>2, ElementsEmpty

\* A send on errCh leaves an error there, and adds no error but its own.
LEMMA SendErrEffect ==
  ASSUME TypeOK, NEW e, SendErr(e), reported' = reported
  PROVE  /\ Errors' = Errors \/ Errors' = Errors \cup {e}
         /\ errCh = << >> => e \in Errors'
         /\ errCh # << >> => errCh[1] \in Errors /\ Errors' = Errors
<1>1. CASE errCh = << >>
  <2>1. errCh' = << e >>
    BY <1>1 DEF SendErr
  <2>2. Errors' = Errors \cup {e}
    BY <1>1, <2>1, ElementsOne, ElementsEmpty DEF Errors
  <2>3. QED
    BY <1>1, <2>2
<1>2. CASE errCh # << >>
  <2>1. errCh' = errCh
    BY <1>2 DEF SendErr
  <2>2. 1 \in DOMAIN errCh
    BY <1>2, EmptySeq, LenProperties DEF TypeOK
  <2>3. Errors' = Errors /\ errCh[1] \in Errors
    BY <2>1, <2>2 DEF Errors, Elements
  <2>4. QED
    BY <1>2, <2>3
<1>3. QED
  BY <1>1, <1>2

\* Receiving moves a result or an error; it hands over nothing new.
LEMMA ReceiveResultEffect ==
  ASSUME TypeOK, ReceiveResult PROVE Delivered' = Delivered /\ Errors' = Errors
<1>1. /\ resultsCh \in Seq(Job) /\ resultsCh # << >> /\ collected \in Seq(Job)
      /\ collected' = Append(collected, Head(resultsCh))
      /\ resultsCh' = Tail(resultsCh) /\ errCh' = errCh /\ reported' = reported
  BY DEF TypeOK, ReceiveResult
<1>2. Head(resultsCh) \in Job
  BY <1>1, HeadTailProperties
<1>3. Elements(collected') = Elements(collected) \cup {Head(resultsCh)}
  BY <1>1, <1>2, ElementsAppend
<1>4. Elements(resultsCh) = {Head(resultsCh)} \cup Elements(resultsCh')
  BY <1>1, ElementsHeadTail
<1>5. QED
  BY <1>1, <1>3, <1>4 DEF Delivered, Errors

\* The same for an error.
LEMMA ReceiveErrEffect ==
  ASSUME TypeOK, ReceiveErr PROVE Delivered' = Delivered /\ Errors' = Errors
<1> DEFINE E == {"fatal", "cancelled"}
<1>1. /\ errCh \in Seq(E) /\ errCh # << >> /\ Len(errCh) <= 1 /\ reported \in Seq(E)
      /\ reported' = Append(reported, Head(errCh)) /\ errCh' = << >>
      /\ collected' = collected /\ resultsCh' = resultsCh
  BY DEF TypeOK, ReceiveErr
<1>2. Head(errCh) \in E /\ Tail(errCh) \in Seq(E) /\ Len(Tail(errCh)) = Len(errCh) - 1
  BY <1>1, HeadTailProperties
<1>3. Tail(errCh) = << >>
  <2>1. ~(Len(Tail(errCh)) \in Nat \ {0})
    BY <1>1, <1>2, LenProperties
  <2>2. QED
    BY <1>2, <2>1, EmptySeq
<1>4. Elements(errCh) = {Head(errCh)} \cup Elements(errCh')
  BY <1>1, <1>3, ElementsHeadTail
<1>5. Elements(reported') = Elements(reported) \cup {Head(errCh)}
  BY <1>1, <1>2, ElementsAppend
<1>6. QED
  BY <1>1, <1>3, <1>4, <1>5, ElementsEmpty DEF Delivered, Errors

\* Sending a result hands it over.
LEMMA SendResultEffect ==
  ASSUME TypeInv, NEW w \in Worker, SendResult(w)
  PROVE  Delivered' = Delivered \cup {task[w]} /\ Errors' = Errors
<1>1. /\ resultsCh \in Seq(Job) /\ task[w] \in Job
      /\ resultsCh' = Append(resultsCh, task[w])
      /\ collected' = collected /\ errCh' = errCh /\ reported' = reported
  BY DEF TypeInv, TypeOK, SendResult, Holding, caller
<1>2. Elements(resultsCh') = Elements(resultsCh) \cup {task[w]}
  BY <1>1, ElementsAppend
<1>3. QED
  BY <1>1, <1>2 DEF Delivered, Errors

\* A step that leaves the channels alone.
LEMMA OutputsEffect ==
  ASSUME UNCHANGED outputs PROVE Delivered' = Delivered /\ Errors' = Errors
BY DEF outputs, Delivered, Errors

-----------------------------------------------------------------------------
(***************************************************************************)
(* Which goroutines live while, and what a worker past "read" holds.       *)
(***************************************************************************)
ControlInv ==
  /\ closer = "unborn" =>
       /\ dispatcher = "unborn" /\ ~ctxCancelled /\ received = 0
       /\ \A w \in Worker : pc[w] = "unborn"
  /\ closer # "unborn" =>
       dispatcher # "unborn" /\ \A w \in Worker : pc[w] # "unborn"
  /\ closer \notin {"unborn", "wait"} => \A w \in Worker : pc[w] = "exited"
  /\ \A w \in Worker :
       /\ pc[w] \in {"unborn", "select", "stop"} => task[w] = 0
       /\ res[w] = "cancelled" => ctxCancelled
       /\ pc[w] = "check" => res[w] \in {"cancelled", jobOrder[task[w]]}
       /\ pc[w] \in {"publish", "send"} => Reportable(res[w])
       /\ pc[w] = "publish" => res[w] = "fatal"
       /\ pc[w] \in {"send", "count"} => res[w] = jobOrder[task[w]]
       /\ pc[w] = "publish" => res[w] = jobOrder[task[w]]

\* The kind of the job in hand is a kind of result.
LEMMA TaskKind ==
  ASSUME TypeInv, NEW w \in Worker, pc[w] \in Holding
  PROVE  jobOrder[task[w]] \in Kind /\ jobOrder[task[w]] # "cancelled"
<1>1. jobOrder \in Seq(Kind) /\ task[w] \in 1 .. Len(jobOrder)
  BY DEF TypeInv, TypeOK, Job, NumJobs
<1>2. jobOrder[task[w]] \in Kind
  BY <1>1, ElementOfSeq
<1>3. QED
  BY <1>2 DEF Kind

\* No goroutine exists initially.
LEMMA InitControlInv == Init => ControlInv
BY DEF Init, ControlInv

\* A step of a worker keeps it.
LEMMA WorkerControlInv ==
  ASSUME TypeInv, ControlInv, NEW w \in Worker, RunWorker(w)
  PROVE  ControlInv'
<1> USE DEF TypeInv, TypeOK, ControlInv, Holding, Job, NumJobs, Kind, Reportable,
            input, context, tasksCh, held, outputs, caller, Goto, Fatal
<1>1. CASE WorkerQuit(w)
  BY <1>1 DEF WorkerQuit
<1>2. CASE WorkerDrained(w)
  BY <1>2 DEF WorkerDrained
<1>3. CASE WorkerReceive(w)
  BY <1>3 DEF WorkerReceive
<1>4. CASE ReadBlob(w)
  BY <1>4 DEF ReadBlob
<1>5. CASE MatchBlob(w)
  <2>1. jobOrder[task[w]] \in Kind /\ jobOrder[task[w]] # "cancelled"
    BY <1>5, TaskKind DEF MatchBlob
  <2>2. CASE ctxCancelled
    BY <1>5, <2>2 DEF MatchBlob
  <2>3. CASE ~ctxCancelled
    BY <1>5, <2>1, <2>3 DEF MatchBlob
  <2>4. QED
    BY <2>2, <2>3
<1>6. CASE CheckTeardown(w)
  BY <1>6 DEF CheckTeardown
<1>7. CASE PublishErr(w)
  BY <1>7 DEF PublishErr
<1>8. CASE SendResult(w)
  BY <1>8 DEF SendResult
<1>9. CASE AbandonResult(w)
  BY <1>9 DEF AbandonResult
<1>10. CASE CountSearched(w)
  BY <1>10 DEF CountSearched
<1>11. CASE StopRun(w)
  BY <1>11 DEF StopRun
<1>12. QED
  BY <1>1, <1>2, <1>3, <1>4, <1>5, <1>6, <1>7, <1>8, <1>9, <1>10, <1>11
  DEF RunWorker

\* Every step keeps it.
LEMMA NextControlInv == TypeInv /\ ControlInv /\ [Next]_vars => ControlInv'
<1> SUFFICES ASSUME TypeInv, ControlInv, [Next]_vars PROVE ControlInv'
  OBVIOUS
<1> USE DEF TypeInv, TypeOK, ControlInv, Holding, Job, NumJobs, Kind, Reportable,
            input, context, tasksCh, held, workers, outputs, caller
<1>1. CASE ReturnClosed
  BY <1>1 DEF ReturnClosed
<1>2. CASE Spawn
  BY <1>2 DEF Spawn
<1>3. CASE DispatchSend
  BY <1>3 DEF DispatchSend
<1>4. CASE DispatchReturn
  BY <1>4 DEF DispatchReturn
<1>5. ASSUME NEW w \in Worker, RunWorker(w) PROVE ControlInv'
  BY <1>5, WorkerControlInv
<1>6. CASE CloserPublish
  BY <1>6 DEF CloserPublish, WaitOver
<1>7. CASE CloserClose
  BY <1>7 DEF CloserClose
<1>8. CASE CloserReturn
  BY <1>8 DEF CloserReturn
<1>9. CASE CallerCancel
  BY <1>9 DEF CallerCancel
<1>10. CASE PropagateCancel
  BY <1>10 DEF PropagateCancel
<1>11. CASE ReceiveResult
  BY <1>11 DEF ReceiveResult
<1>12. CASE ReceiveErr
  BY <1>12 DEF ReceiveErr
<1>13. CASE UNCHANGED vars
  BY <1>13 DEF vars
<1>14. QED
  BY <1>1, <1>2, <1>3, <1>4, <1>5, <1>6, <1>7, <1>8, <1>9, <1>10, <1>11,
     <1>12, <1>13
  DEF Next, Goroutines, Dispatch, Closer, Finished

-----------------------------------------------------------------------------
(***************************************************************************)
(* What is owed to the caller: errors before results, a reason for every   *)
(* early stop.                                                             *)
(***************************************************************************)
Justified == callerCancelled \/ "fatal" \in Errors \/ QuietHit

ErrorInv ==
  /\ closer \in {"unborn", "wait"} => Errors \subseteq {"fatal"}
  /\ closer = "unborn" => Errors = {}
  /\ "cancelled" \in Errors => callerCancelled
  /\ \A j \in Delivered : jobOrder[j] = "fatal" => "fatal" \in Errors
  /\ ctxCancelled /\ closer # "done" => Justified
  /\ \A w \in Worker :
       /\ pc[w] \in {"send", "count"} /\ res[w] = "fatal" => "fatal" \in Errors
       /\ pc[w] = "count" /\ Reportable(res[w]) => task[w] \in Delivered
       /\ pc[w] = "stop" => "fatal" \in Errors \/ QuietHit

\* Nothing is owed initially.
LEMMA InitErrorInv == Init => ErrorInv
<1> SUFFICES ASSUME Init PROVE ErrorInv
  OBVIOUS
<1>1. Errors = {} /\ Delivered = {}
  BY ElementsEmpty DEF Init, Errors, Delivered
<1>2. QED
  BY <1>1 DEF Init, ErrorInv

\* A step that hands nothing over and moves no worker into debt keeps it.
LEMMA WorkerErrorInv ==
  ASSUME TypeInv, ControlInv, ErrorInv, NEW w \in Worker, RunWorker(w)
  PROVE  ErrorInv'
<1> USE DEF ErrorInv, QuietHit, Justified, Reportable
<1>1. CASE PublishErr(w)
  <2>1. /\ pc[w] = "publish" /\ SendErr("fatal") /\ reported' = reported
        /\ closer = "wait" /\ closer' = closer
        /\ jobOrder' = jobOrder /\ quiet' = quiet
        /\ callerCancelled' = callerCancelled /\ ctxCancelled' = ctxCancelled
        /\ task' = task /\ res' = res
        /\ pc' = [pc EXCEPT ![w] = "send"]
    BY <1>1 DEF PublishErr, ControlInv, TypeInv, TypeOK, input, context, held,
                caller, Goto
  <2>2. Delivered' = Delivered
    BY <1>1 DEF PublishErr, Delivered, caller
  <2>3. Errors' = Errors \/ Errors' = Errors \cup {"fatal"}
    BY <2>1, SendErrEffect DEF TypeInv
  <2>4. "fatal" \in Errors'
    BY <2>1, SendErrEffect DEF TypeInv
  <2>5. QED
    BY <2>1, <2>2, <2>3, <2>4 DEF TypeInv, TypeOK
<1>2. CASE SendResult(w)
  <2>1. Delivered' = Delivered \cup {task[w]} /\ Errors' = Errors
    BY <1>2, SendResultEffect
  <2>2. QED
    BY <1>2, <2>1 DEF SendResult, TypeInv, TypeOK, ControlInv, input, context,
                      held, Goto
<1>3. CASE UNCHANGED outputs
  <2>1. Delivered' = Delivered /\ Errors' = Errors
    BY <1>3, OutputsEffect
  <2> USE DEF TypeInv, TypeOK, ControlInv, Holding, Kind, 
              input, context, tasksCh, held, Goto, Fatal
  <2>2. CASE WorkerQuit(w) \/ WorkerDrained(w)
    BY <2>1, <2>2 DEF WorkerQuit, WorkerDrained
  <2>3. CASE WorkerReceive(w)
    BY <2>1, <2>3 DEF WorkerReceive
  <2>4. CASE ReadBlob(w)
    BY <2>1, <2>4 DEF ReadBlob
  <2>5. CASE MatchBlob(w)
    BY <2>1, <2>5 DEF MatchBlob
  <2>6. CASE CheckTeardown(w)
    BY <2>1, <2>6 DEF CheckTeardown
  <2>7. CASE AbandonResult(w)
    BY <2>1, <2>7 DEF AbandonResult
  <2>8. CASE CountSearched(w)
    <3>1. /\ jobOrder[task[w]] # "cancelled"
          /\ res[w] = jobOrder[task[w]]
      BY <2>8, TaskKind DEF CountSearched
    <3>2. EndsRun(w) => "fatal" \in Errors \/ QuietHit
      BY <2>8, <3>1 DEF CountSearched, EndsRun
    <3>3. pc'[w] = "stop" => EndsRun(w)
      BY <2>8 DEF CountSearched
    <3>4. QED
      BY <2>1, <2>8, <3>2, <3>3 DEF CountSearched
  <2>9. CASE StopRun(w)
    BY <2>1, <2>9 DEF StopRun
  <2>10. QED
    BY <1>1, <1>2, <2>2, <2>3, <2>4, <2>5, <2>6, <2>7, <2>8, <2>9
    DEF RunWorker
<1>4. QED
  BY <1>1, <1>2, <1>3
  DEF RunWorker, WorkerQuit, WorkerDrained, WorkerReceive, ReadBlob, MatchBlob,
      CheckTeardown, AbandonResult, CountSearched, StopRun

\* Every step keeps it.
LEMMA NextErrorInv ==
  TypeInv /\ ControlInv /\ ErrorInv /\ [Next]_vars => ErrorInv'
<1> SUFFICES ASSUME TypeInv, ControlInv, ErrorInv, [Next]_vars PROVE ErrorInv'
  OBVIOUS
<1> USE DEF ErrorInv, QuietHit, Justified
<1>1. CASE ReturnClosed
  <2>1. Delivered' = Delivered
    BY <1>1 DEF ReturnClosed, Delivered, caller
  <2>2. Errors' \subseteq {"cancelled"} /\ ("cancelled" \in Errors' => callerCancelled)
    <3>1. reported' = reported /\ Elements(reported) = {}
      BY <1>1 DEF ReturnClosed, caller, Errors
    <3>2. QED
      BY <1>1, <3>1, ElementsOne, ElementsEmpty DEF ReturnClosed, Errors
  <2>3. Errors = {}
    BY <1>1 DEF ReturnClosed
  <2>4. QED
    BY <1>1, <2>1, <2>2, <2>3
    DEF ReturnClosed, ControlInv, TypeInv, TypeOK, input, context, held
<1>2. ASSUME NEW w \in Worker, RunWorker(w) PROVE ErrorInv'
  BY <1>2, WorkerErrorInv
<1>3. CASE CloserPublish
  <2>1. Delivered' = Delivered
    BY <1>3 DEF CloserPublish, Delivered, caller
  <2>2. \/ Errors' = Errors
        \/ callerCancelled /\ Errors' = Errors \cup {"cancelled"}
    <3>1. CASE CutShort
      <4>1. SendErr("cancelled") /\ reported' = reported /\ callerCancelled
        BY <1>3, <3>1 DEF CloserPublish, CutShort, caller
      <4>2. QED
        BY <4>1, SendErrEffect DEF TypeInv
    <3>2. CASE ~CutShort
      <4>1. errCh' = errCh /\ reported' = reported
        BY <1>3, <3>2 DEF CloserPublish, caller
      <4>2. QED
        BY <4>1 DEF Errors
    <3>3. QED
      BY <3>1, <3>2
  <2>3. QED
    BY <1>3, <2>1, <2>2
    DEF CloserPublish, ControlInv, input, context, workers
<1>4. CASE ReceiveResult \/ ReceiveErr
  <2>1. Delivered' = Delivered /\ Errors' = Errors
    BY <1>4, ReceiveResultEffect, ReceiveErrEffect DEF TypeInv
  <2>2. QED
    BY <1>4, <2>1 DEF ReceiveResult, ReceiveErr, input, context, workers
<1>5. CASE UNCHANGED outputs
  <2>1. Delivered' = Delivered /\ Errors' = Errors
    BY <1>5, OutputsEffect
  <2> USE DEF input, context, workers, held
  <2>2. CASE Spawn
    BY <2>1, <2>2 DEF Spawn, ControlInv, TypeInv, TypeOK
  <2>3. CASE Dispatch
    BY <2>1, <2>3 DEF Dispatch, DispatchSend, DispatchReturn
  <2>4. CASE CloserClose
    BY <2>1, <2>4 DEF CloserClose
  <2>5. CASE CloserReturn
    BY <2>1, <2>5 DEF CloserReturn
  <2>6. CASE CallerCancel
    BY <2>1, <2>6 DEF CallerCancel
  <2>7. CASE PropagateCancel
    BY <2>1, <2>7 DEF PropagateCancel
  <2>8. CASE UNCHANGED vars
    BY <2>1, <2>8 DEF vars
  <2>9. QED
    BY <1>1, <1>2, <1>3, <1>4, <2>2, <2>3, <2>4, <2>5, <2>6, <2>7, <2>8
    DEF Next, Goroutines, Closer, Finished
<1>6. QED
  BY <1>1, <1>2, <1>3, <1>4, <1>5
  DEF Next, Goroutines, Closer, Finished, Spawn, Dispatch, DispatchSend,
      DispatchReturn, CloserClose, CloserReturn, CallerCancel, PropagateCancel,
      vars, outputs

-----------------------------------------------------------------------------
(***************************************************************************)
(* The counter of searched tasks.                                          *)
(***************************************************************************)
CountInv ==
  /\ \A v, w \in Worker : task[v] = task[w] /\ task[v] # 0 => v = w
  /\ \A w \in Worker : task[w] <= received
  /\ searched = Cardinality(Searched)
  /\ \A j \in Searched : Reportable(jobOrder[j]) => j \in Delivered

\* The searched jobs are jobs; when there are as many of them as jobs, all are.
LEMMA SearchedJobs ==
  ASSUME TypeInv
  PROVE  /\ IsFiniteSet(Searched) /\ Searched \subseteq Job
         /\ Cardinality(Searched) >= NumJobs => Searched = Job
         /\ Searched = Job => Cardinality(Searched) = NumJobs
<1>1. NumJobs \in Nat /\ received \in 0 .. NumJobs
  BY LenProperties DEF TypeInv, TypeOK, NumJobs
<1>2. IsFiniteSet(Job) /\ Cardinality(Job) = NumJobs
  BY <1>1, FS_Interval DEF Job
<1>3. Searched \subseteq Job
  BY <1>1 DEF Searched, Job
<1>4. /\ IsFiniteSet(Searched) /\ Cardinality(Searched) <= NumJobs
      /\ Cardinality(Job) = Cardinality(Searched) => Job = Searched
  BY <1>2, <1>3, FS_Subset
<1>5. Cardinality(Searched) \in Nat
  BY <1>4, FS_CardinalityType
<1>6. QED
  BY <1>1, <1>2, <1>3, <1>4, <1>5

\* Results and errors only accumulate; the input never changes.
LEMMA OutputsGrow ==
  ASSUME TypeInv, ControlInv, ErrorInv, [Next]_vars
  PROVE  /\ Delivered \subseteq Delivered' /\ Errors \subseteq Errors'
         /\ jobOrder' = jobOrder /\ quiet' = quiet
<1>1. jobOrder' = jobOrder /\ quiet' = quiet
  BY DEF Next, Goroutines, Dispatch, Closer, Finished, RunWorker, ReturnClosed,
         Spawn, DispatchSend, DispatchReturn, WorkerQuit, WorkerDrained,
         WorkerReceive, ReadBlob, MatchBlob, CheckTeardown, PublishErr,
         SendResult, AbandonResult, CountSearched, StopRun, CloserPublish,
         CloserClose, CloserReturn, CallerCancel, PropagateCancel,
         ReceiveResult, ReceiveErr, vars, input
<1>2. CASE ReturnClosed
  <2>1. Delivered' = Delivered /\ Errors = {}
    BY <1>2 DEF ReturnClosed, Delivered, caller, ErrorInv
  <2>2. QED
    BY <1>1, <2>1
<1>3. ASSUME NEW w \in Worker, PublishErr(w)
      PROVE  Delivered' = Delivered /\ Errors \subseteq Errors'
  <2>1. SendErr(res[w]) /\ reported' = reported
    BY <1>3 DEF PublishErr, caller
  <2>2. Delivered' = Delivered
    BY <1>3 DEF PublishErr, caller, Delivered
  <2>3. QED
    BY <2>1, <2>2, SendErrEffect DEF TypeInv
<1>4. ASSUME NEW w \in Worker, SendResult(w)
      PROVE  Delivered \subseteq Delivered' /\ Errors' = Errors
  BY <1>4, SendResultEffect
<1>5. CASE CloserPublish
  <2>1. Delivered' = Delivered
    BY <1>5 DEF CloserPublish, Delivered, caller
  <2>2. CASE CutShort
    <3>1. SendErr("cancelled") /\ reported' = reported
      BY <1>5, <2>2 DEF CloserPublish, caller
    <3>2. QED
      BY <1>1, <2>1, <3>1, SendErrEffect DEF TypeInv
  <2>3. CASE ~CutShort
    <3>1. errCh' = errCh /\ reported' = reported
      BY <1>5, <2>3 DEF CloserPublish, caller
    <3>2. Errors' = Errors
      BY <3>1 DEF Errors
    <3>3. QED
      BY <1>1, <2>1, <3>2
  <2>4. QED
    BY <2>2, <2>3
<1>6. CASE ReceiveResult \/ ReceiveErr
  BY <1>1, <1>6, ReceiveResultEffect, ReceiveErrEffect DEF TypeInv
<1>7. CASE UNCHANGED outputs
  BY <1>1, <1>7, OutputsEffect
<1>8. QED
  BY <1>1, <1>2, <1>3, <1>4, <1>5, <1>6, <1>7
  DEF Next, Goroutines, Dispatch, Closer, Finished, RunWorker, Spawn,
      DispatchSend, DispatchReturn, WorkerQuit, WorkerDrained, WorkerReceive,
      ReadBlob, MatchBlob, CheckTeardown, AbandonResult, CountSearched, StopRun,
      CloserClose, CloserReturn, CallerCancel, PropagateCancel, vars, outputs

\* Nothing is searched initially.
LEMMA InitCountInv == Init => CountInv
<1> SUFFICES ASSUME Init PROVE CountInv
  OBVIOUS
<1>1. Searched = {}
  BY DEF Init, Searched
<1>2. Cardinality({}) = 0
  BY FS_EmptySet
<1>3. QED
  BY <1>1, <1>2 DEF Init, CountInv

\* Taking a task changes no count: the new task is in hand at once.
LEMMA ReceiveCountInv ==
  ASSUME TypeInv, ControlInv, CountInv, NEW w \in Worker, WorkerReceive(w)
  PROVE  CountInv'
<1>1. /\ received \in Nat /\ received' = received + 1
      /\ task \in [Worker -> Nat] /\ task' = [task EXCEPT ![w] = received + 1]
      /\ task[w] = 0 /\ searched' = searched /\ jobOrder' = jobOrder
  BY LenProperties
  DEF WorkerReceive, TypeInv, TypeOK, ControlInv, input, NumJobs
<1>2. Delivered' = Delivered
  BY OutputsEffect DEF WorkerReceive
<1>3. Searched' = Searched
  <2>1. Searched' \subseteq Searched
    BY <1>1 DEF Searched
  <2>2. ASSUME NEW j \in Searched PROVE j \in Searched'
    <3>1. j \in 1 .. received' /\ j # received + 1
      BY <1>1 DEF Searched
    <3>2. \A v \in Worker : task'[v] # j
      BY <1>1, <3>1 DEF Searched
    <3>3. QED
      BY <3>1, <3>2 DEF Searched
  <2>3. QED
    BY <2>1, <2>2
<1>4. \A v \in Worker : task'[v] <= received'
  BY <1>1 DEF CountInv
<1>5. \A u, v \in Worker : task'[u] = task'[v] /\ task'[u] # 0 => u = v
  BY <1>1 DEF CountInv
<1>6. QED
  BY <1>1, <1>2, <1>3, <1>4, <1>5 DEF CountInv

\* Counting a task takes it out of the worker's hand, and out of no other's.
LEMMA CountCountInv ==
  ASSUME TypeInv, ControlInv, ErrorInv, CountInv,
         NEW w \in Worker, CountSearched(w)
  PROVE  CountInv'
<1> DEFINE k == task[w]
<1>1. /\ received \in Nat /\ received' = received
      /\ task \in [Worker -> Nat] /\ task' = [task EXCEPT ![w] = 0]
      /\ k \in 1 .. received /\ searched' = searched + 1 /\ searched \in Nat
      /\ jobOrder' = jobOrder
  BY LenProperties
  DEF CountSearched, TypeInv, TypeOK, CountInv, Holding, Job, input, tasksCh,
      NumJobs
<1>2. Delivered' = Delivered
  BY OutputsEffect DEF CountSearched
<1>3. Reportable(jobOrder[k]) => k \in Delivered
  BY DEF CountSearched, ControlInv, ErrorInv
<1>4. \A v \in Worker : task[v] = k => v = w
  BY <1>1 DEF CountInv
<1> HIDE DEF k
<1>5. Searched' = Searched \cup {k} /\ k \notin Searched
  <2>1. Searched' = (1 .. received) \ { task'[v] : v \in Worker }
    BY <1>1 DEF Searched
  <2>2. \A j \in 1 .. received :
          (\A v \in Worker : task'[v] # j) <=> (j = k \/ \A v \in Worker : task[v] # j)
    BY <1>1, <1>4 DEF k
  <2>3. k \notin Searched
    BY DEF Searched, k
  <2>4. QED
    BY <1>1, <2>1, <2>2, <2>3 DEF Searched
<1>6. searched' = Cardinality(Searched')
  <2>1. Cardinality(Searched') = Cardinality(Searched) + 1
    BY <1>5, SearchedJobs, FS_AddElement
  <2>2. QED
    BY <1>1, <2>1 DEF CountInv
<1>7. \A j \in Searched' : Reportable(jobOrder'[j]) => j \in Delivered'
  BY <1>1, <1>2, <1>3, <1>5 DEF CountInv
<1>8. \A v \in Worker : task'[v] <= received'
  BY <1>1 DEF CountInv
<1>9. \A u, v \in Worker : task'[u] = task'[v] /\ task'[u] # 0 => u = v
  BY <1>1 DEF CountInv
<1>10. QED
  BY <1>6, <1>7, <1>8, <1>9 DEF CountInv

\* Every step keeps the count.
LEMMA NextCountInv ==
  TypeInv /\ ControlInv /\ ErrorInv /\ CountInv /\ [Next]_vars => CountInv'
<1> SUFFICES ASSUME TypeInv, ControlInv, ErrorInv, CountInv, [Next]_vars
             PROVE  CountInv'
  OBVIOUS
<1>1. ASSUME NEW w \in Worker, WorkerReceive(w) PROVE CountInv'
  BY <1>1, ReceiveCountInv
<1>2. ASSUME NEW w \in Worker, CountSearched(w) PROVE CountInv'
  BY <1>2, CountCountInv
<1>3. CASE UNCHANGED << received, task, searched >>
  <2>1. Searched' = Searched
    BY <1>3 DEF Searched
  <2>2. Delivered \subseteq Delivered' /\ jobOrder' = jobOrder
    BY OutputsGrow
  <2>3. QED
    BY <1>3, <2>1, <2>2 DEF CountInv
<1>4. QED
  BY <1>1, <1>2, <1>3
  DEF Next, Goroutines, Dispatch, Closer, Finished, RunWorker, ReturnClosed,
      Spawn, DispatchSend, DispatchReturn, WorkerQuit, WorkerDrained, ReadBlob,
      MatchBlob, CheckTeardown, PublishErr, SendResult, AbandonResult, StopRun,
      CloserPublish, CloserClose, CloserReturn, CallerCancel, PropagateCancel,
      ReceiveResult, ReceiveErr, vars, tasksCh, held, workers

-----------------------------------------------------------------------------
(***************************************************************************)
(* Why goroutines end, and what has been accomplished when all have.       *)
(***************************************************************************)
AllDelivered == \A j \in Job : Reportable(jobOrder[j]) => j \in Delivered

EndInv ==
  /\ dispatcher = "done" /\ closer # "done" => ctxCancelled \/ sent = NumJobs
  /\ \A w \in Worker : pc[w] = "exited" /\ closer # "done" =>
       ctxCancelled \/ (dispatcher = "done" /\ received = sent /\ task[w] = 0)
  /\ closer \notin {"unborn", "wait"} =>
       Errors # {} \/ AllDelivered \/ QuietHit
  /\ Searched = Job /\ Job # {} => "cancelled" \notin Errors

\* No goroutine has ended initially.
LEMMA InitEndInv == Init => EndInv
<1> SUFFICES ASSUME Init PROVE EndInv
  OBVIOUS
<1>1. Errors = {}
  BY ElementsEmpty DEF Init, Errors
<1>2. QED
  BY <1>1 DEF Init, EndInv

\* A step of a worker keeps it: a worker ends because the run is over.
LEMMA WorkerEndInv ==
  ASSUME TypeInv, ControlInv, ErrorInv, ErrorInv', ControlInv', EndInv,
         NEW w \in Worker, RunWorker(w)
  PROVE  EndInv'
<1>1. closer = "wait" /\ closer' = "wait" /\ dispatcher' = dispatcher /\ sent' = sent
  BY DEF ControlInv, TypeInv, TypeOK, RunWorker, WorkerQuit, WorkerDrained,
         WorkerReceive, ReadBlob, MatchBlob, CheckTeardown, PublishErr,
         SendResult, AbandonResult, CountSearched, StopRun, tasksCh
<1>2. "cancelled" \notin Errors'
  BY <1>1 DEF ErrorInv
<1>3. jobOrder' = jobOrder
  BY DEF RunWorker, WorkerQuit, WorkerDrained,
         WorkerReceive, ReadBlob, MatchBlob, CheckTeardown, PublishErr,
         SendResult, AbandonResult, CountSearched, StopRun, input
<1>4. NumJobs' = NumJobs
  BY <1>3 DEF NumJobs
<1>5. ctxCancelled' = ctxCancelled \/ ctxCancelled'
  BY DEF RunWorker, WorkerQuit, WorkerDrained,
         WorkerReceive, ReadBlob, MatchBlob, CheckTeardown, PublishErr,
         SendResult, AbandonResult, CountSearched, StopRun, context
<1>6. SUFFICES ASSUME NEW v \in Worker, pc'[v] = "exited", ~ctxCancelled'
               PROVE  dispatcher = "done" /\ received' = sent /\ task'[v] = 0
  BY <1>1, <1>2, <1>4, <1>5 DEF EndInv
<1> USE DEF TypeInv, TypeOK, ControlInv, EndInv, input, context, tasksCh, held, Goto
<1>7. CASE WorkerQuit(w) \/ AbandonResult(w) \/ StopRun(w)
  BY <1>6, <1>7 DEF WorkerQuit, AbandonResult, StopRun
<1>8. CASE WorkerDrained(w)
  BY <1>1, <1>6, <1>8 DEF WorkerDrained, TasksClosed, TasksBuffered
<1>9. CASE WorkerReceive(w)
  BY <1>1, <1>6, <1>9 DEF WorkerReceive, TasksBuffered
<1>10. CASE ReadBlob(w) \/ MatchBlob(w)
  BY <1>1, <1>6, <1>10 DEF ReadBlob, MatchBlob
<1>11. CASE CheckTeardown(w)
  BY <1>1, <1>6, <1>11 DEF CheckTeardown
<1>12. CASE PublishErr(w) \/ SendResult(w)
  BY <1>1, <1>6, <1>12 DEF PublishErr, SendResult
<1>13. CASE CountSearched(w)
  BY <1>1, <1>6, <1>13 DEF CountSearched
<1>14. QED
  BY <1>7, <1>8, <1>9, <1>10, <1>11, <1>12, <1>13 DEF RunWorker

(***************************************************************************)
(* When wg.Wait returns, the closer publishes the cancellation, or a fatal *)
(* error was published, or a quiet match was handed over, or every worker  *)
(* found tasksCh drained: then every task was taken, and counted.          *)
(***************************************************************************)
LEMMA CloserEndInv ==
  ASSUME TypeInv, ControlInv, ErrorInv, CountInv, EndInv, CloserPublish
  PROVE  EndInv'
<1>1. /\ closer = "wait" /\ \A w \in Worker : pc[w] = "exited"
      /\ closer' = "closeResults" /\ reported' = reported
      /\ UNCHANGED << jobOrder, quiet, callerCancelled, ctxCancelled, sent, received,
                      dispatcher, pc, task, res, searched >>
  BY DEF CloserPublish, WaitOver, input, context, tasksCh, workers, caller
<1>2. /\ Delivered' = Delivered /\ Searched' = Searched
      /\ NumJobs' = NumJobs /\ Job' = Job
  BY <1>1 DEF CloserPublish, Delivered, Searched, NumJobs, Job, caller
<1>3. Cardinality(Searched) \in Nat /\ NumJobs \in Nat
  BY SearchedJobs, FS_CardinalityType, LenProperties DEF TypeInv, TypeOK, NumJobs
<1>4. ASSUME CutShort
      PROVE  /\ Errors' # {} /\ Searched # Job
  <2>1. SendErr("cancelled")
    BY <1>4 DEF CloserPublish
  <2>2. Errors' # {}
    BY <1>1, <2>1, SendErrEffect DEF TypeInv
  <2>3. Searched # Job
    BY <1>3, <1>4, SearchedJobs DEF CutShort, CountInv
  <2>4. QED
    BY <2>2, <2>3
<1>5. ASSUME ~CutShort
      PROVE  /\ Errors' = Errors
             /\ Errors # {} \/ AllDelivered \/ QuietHit
  <2>1. Errors' = Errors
    BY <1>1, <1>5 DEF CloserPublish, Errors
  <2>2. CASE Searched = Job
    BY <2>1, <2>2 DEF CountInv, AllDelivered
  <2>3. CASE Searched # Job
    <3>1. ~callerCancelled
      BY <1>3, <1>5, <2>3, SearchedJobs DEF CutShort, CountInv
    <3>2. CASE ctxCancelled
      BY <1>1, <2>1, <3>1, <3>2 DEF ErrorInv, Justified
    <3>3. CASE ~ctxCancelled
      <4>1. \A w \in Worker : task[w] = 0
        BY <1>1, <3>3 DEF EndInv
      <4>2. received = NumJobs
        BY <1>1, <3>3, WorkerAssumption DEF EndInv
      <4>3. Searched = Job
        BY <4>1, <4>2 DEF Searched, Job
      <4>4. QED
        BY <2>3, <4>3
    <3>4. QED
      BY <3>2, <3>3
  <2>4. QED
    BY <2>2, <2>3
<1>6. "cancelled" \notin Errors
  BY <1>1 DEF ErrorInv
<1>7. AllDelivered' <=> AllDelivered
  BY <1>1, <1>2 DEF AllDelivered
<1>8. QuietHit' <=> QuietHit
  BY <1>1, <1>2 DEF QuietHit
<1>9. CASE CutShort
  BY <1>1, <1>2, <1>4, <1>9 DEF EndInv
<1>10. CASE ~CutShort
  BY <1>1, <1>2, <1>5, <1>6, <1>7, <1>8, <1>10 DEF EndInv
<1>11. QED
  BY <1>9, <1>10

\* Every step keeps it.
LEMMA NextEndInv ==
  /\ TypeInv /\ ControlInv /\ ErrorInv /\ CountInv /\ EndInv
  /\ [Next]_vars /\ ControlInv' /\ ErrorInv'
  => EndInv'
<1> SUFFICES ASSUME TypeInv, ControlInv, ErrorInv, CountInv, EndInv,
                    [Next]_vars, ControlInv', ErrorInv'
             PROVE  EndInv'
  OBVIOUS
<1>1. ASSUME NEW w \in Worker, RunWorker(w) PROVE EndInv'
  BY <1>1, WorkerEndInv
<1>2. CASE CloserPublish
  BY <1>2, CloserEndInv
<1>3. CASE ReturnClosed
  <2>1. /\ closer' = "done" /\ received = 0 /\ received' = received
        /\ jobOrder' = jobOrder /\ task' = task
    BY <1>3 DEF ReturnClosed, ControlInv, input, held
  <2>2. Searched' = {}
    BY <2>1 DEF Searched
  <2>3. CASE callerCancelled
    <3>1. errCh' = << "cancelled" >>
      BY <1>3, <2>3 DEF ReturnClosed
    <3>2. Errors' # {}
      BY <3>1, ElementsOne DEF Errors
    <3>3. QED
      BY <2>1, <2>2, <3>2 DEF EndInv
  <2>4. CASE ~callerCancelled
    <3>1. Job' = {}
      BY <1>3, <2>1, <2>4 DEF ReturnClosed, Job, NumJobs
    <3>2. QED
      BY <2>1, <3>1 DEF EndInv, AllDelivered
  <2>5. QED
    BY <2>3, <2>4
<1>4. CASE Spawn
  <2>1. closer' = "wait" /\ dispatcher' = "run" /\ \A w \in Worker : pc'[w] = "select"
    BY <1>4 DEF Spawn
  <2>2. "cancelled" \notin Errors'
    BY <2>1 DEF ErrorInv
  <2>3. QED
    BY <2>1, <2>2 DEF EndInv
<1>5. CASE Dispatch
  <2>1. /\ dispatcher = "run" /\ UNCHANGED outputs
        /\ UNCHANGED << jobOrder, quiet, ctxCancelled, received, pc, task, closer >>
        /\ dispatcher' = "done" => ctxCancelled \/ sent' = NumJobs
    BY <1>5 DEF Dispatch, DispatchSend, DispatchReturn, AllSent, input, context,
                workers, held
  <2>2. /\ Delivered' = Delivered /\ Errors' = Errors
        /\ Searched' = Searched /\ NumJobs' = NumJobs /\ Job' = Job
    BY <2>1, OutputsEffect DEF Searched, NumJobs, Job
  <2>3. QED
    BY <2>1, <2>2 DEF EndInv, AllDelivered, QuietHit
<1>6. CASE \/ CloserClose \/ CloserReturn \/ CallerCancel \/ PropagateCancel
           \/ ReceiveResult \/ ReceiveErr \/ UNCHANGED vars
  <2>1. /\ UNCHANGED << jobOrder, quiet, sent, received, dispatcher, pc, task >>
        /\ ctxCancelled => ctxCancelled'
        /\ closer # closer' => closer \notin {"unborn", "wait", "done"}
    BY <1>6
    DEF CloserClose, CloserReturn, CallerCancel, PropagateCancel, ReceiveResult,
        ReceiveErr, vars, input, context, tasksCh, workers
  <2>2. Delivered' = Delivered /\ Errors' = Errors
    <3>1. CASE ReceiveResult \/ ReceiveErr
      BY <3>1, ReceiveResultEffect, ReceiveErrEffect DEF TypeInv
    <3>2. CASE UNCHANGED outputs
      BY <3>2, OutputsEffect
    <3>3. QED
      BY <1>6, <3>1, <3>2
      DEF CloserClose, CloserReturn, CallerCancel, PropagateCancel, vars, outputs
  <2>3. Searched' = Searched /\ NumJobs' = NumJobs /\ Job' = Job
    BY <2>1 DEF Searched, NumJobs, Job
  <2>4. closer = "done" => closer' = "done"
    BY <2>1
  <2>5. \A w \in Worker : pc'[w] = "exited" /\ closer' # "done" =>
          ctxCancelled' \/ (dispatcher' = "done" /\ received' = sent' /\ task'[w] = 0)
    BY <2>1, <2>4 DEF EndInv
  <2>6. QED
    BY <2>1, <2>2, <2>3, <2>4, <2>5 DEF EndInv, AllDelivered, QuietHit
<1>7. QED
  BY <1>1, <1>2, <1>3, <1>4, <1>5, <1>6
  DEF Next, Goroutines, Closer, Finished

-----------------------------------------------------------------------------
(***************************************************************************)
(* The inductive invariant.                                                *)
(***************************************************************************)
IInv == TypeInv /\ ControlInv /\ ErrorInv /\ CountInv /\ EndInv

\* IInv holds in every state of every run.
THEOREM Inductive == Spec => []IInv
<1>1. Init => IInv
  BY InitTypeInv, InitControlInv, InitErrorInv, InitCountInv, InitEndInv DEF IInv
<1>2. IInv /\ [Next]_vars => IInv'
  BY NextTypeInv, NextControlInv, NextErrorInv, NextCountInv, NextEndInv
  DEF IInv
<1>3. QED
  BY <1>1, <1>2, PTL DEF Spec

(***************************************************************************)
(* A call that closes errCh without an error has handed over every result, *)
(* or was quiet and handed over a match.                                   *)
(***************************************************************************)
THEOREM Completeness == Spec => []NoErrorMeansComplete
<1>1. IInv => NoErrorMeansComplete
  BY PublishedErrors
  DEF IInv, TypeInv, EndInv, NoErrorMeansComplete, ErrClosed, AllDelivered, QuietHit
<1>2. QED
  BY <1>1, Inductive, PTL

\* Only a cancellation by the caller is ever reported as one.
THEOREM NoFalseCancellation == Spec => []InternalStopIsNotCancellation
<1>1. IInv => InternalStopIsNotCancellation
  BY PublishedErrors DEF IInv, TypeInv, ErrorInv, InternalStopIsNotCancellation
<1>2. QED
  BY <1>1, Inductive, PTL

\* A caller who was handed everything is not told that it was cut short.
THEOREM NoLateCancellation == Spec => []CompleteIsNotCancelled
<1>1. IInv => CompleteIsNotCancelled
  BY PublishedErrors DEF IInv, TypeInv, EndInv, CompleteIsNotCancelled
<1>2. QED
  BY <1>1, Inductive, PTL

\* The result of a fatal blob never overtakes its error.
THEOREM ErrorFirst == Spec => []FatalErrorPrecedesResult
<1>1. IInv => FatalErrorPrecedesResult
  BY PublishedErrors DEF IInv, TypeInv, ErrorInv, FatalErrorPrecedesResult
<1>2. QED
  BY <1>1, Inductive, PTL

\* No run is stopped early without a reason the caller gave or can see.
THEOREM NoCauselessStop == Spec => []EarlyStopIsJustified
<1>1. IInv => EarlyStopIsJustified
  BY PublishedErrors
  DEF IInv, TypeInv, ErrorInv, EarlyStopIsJustified, Justified, QuietHit
<1>2. QED
  BY <1>1, Inductive, PTL

\* No goroutine is left that could send on a closed channel.
THEOREM NoSendAfterClose == Spec => []NoSendOnClosedChannel
<1>1. IInv => NoSendOnClosedChannel
  BY DEF IInv, ControlInv, NoSendOnClosedChannel, ResultsClosed
<1>2. QED
  BY <1>1, Inductive, PTL

-----------------------------------------------------------------------------
(* Sequences without repetition, and channels between two of them.         *)

Injective(s) == \A i, k \in DOMAIN s : s[i] = s[k] => i = k

\* A new element at the end repeats none.
LEMMA InjectiveAppend ==
  ASSUME NEW S, NEW s \in Seq(S), NEW e \in S, Injective(s), e \notin Elements(s)
  PROVE  Injective(Append(s, e))
<1> DEFINE t == Append(s, e)
<1>1. /\ Len(s) \in Nat /\ DOMAIN s = 1 .. Len(s) /\ DOMAIN t = 1 .. Len(s) + 1
      /\ \A i \in 1 .. Len(s) : t[i] = s[i]
      /\ t[Len(s) + 1] = e
  BY AppendProperties, LenProperties
<1> HIDE DEF t
<1>2. \A i \in 1 .. Len(s) : t[i] # e
  BY <1>1 DEF Elements
<1>3. ASSUME NEW i \in DOMAIN t, NEW k \in DOMAIN t, t[i] = t[k] PROVE i = k
  <2>1. CASE i \in 1 .. Len(s) /\ k \in 1 .. Len(s)
    BY <1>1, <1>3, <2>1 DEF Injective
  <2>2. CASE i = Len(s) + 1 \/ k = Len(s) + 1
    BY <1>1, <1>2, <1>3, <2>2
  <2>3. QED
    BY <1>1, <2>1, <2>2
<1>4. QED
  BY <1>3 DEF t, Injective

\* Only the empty sequence has no element.
LEMMA NoElements ==
  ASSUME NEW S, NEW s \in Seq(S), Elements(s) = {}
  PROVE  s = << >>
<1>1. Len(s) \in Nat /\ DOMAIN s = 1 .. Len(s)
  BY LenProperties
<1>2. ~(1 \in DOMAIN s)
  BY DEF Elements
<1>3. Len(s) = 0
  BY <1>1, <1>2
<1>4. QED
  BY <1>3, EmptySeq

\* A send extends what was handed over by one.
LEMMA ConcatAppend ==
  ASSUME NEW S, NEW s \in Seq(S), NEW t \in Seq(S), NEW e \in S
  PROVE  s \o Append(t, e) = Append(s \o t, e)
<1>1. Append(t, e) = t \o << e >> /\ << e >> \in Seq(S)
  BY AppendIsConcat, Singleton
<1>2. s \o (t \o << e >>) = (s \o t) \o << e >>
  BY <1>1, ConcatAssociative
<1>3. s \o t \in Seq(S)
  BY ConcatProperties
<1>4. Append(s \o t, e) = (s \o t) \o << e >>
  BY <1>3, AppendIsConcat
<1>5. QED
  BY <1>1, <1>2, <1>4

\* A receive only moves the head: the whole stays the same.
LEMMA ConcatMoveHead ==
  ASSUME NEW S, NEW s \in Seq(S), NEW t \in Seq(S), t # << >>
  PROVE  Append(s, Head(t)) \o Tail(t) = s \o t
<1> DEFINE one  == << Head(t) >>
           back == one \o Tail(t)
<1>1. /\ Head(t) \in S /\ Tail(t) \in Seq(S) /\ Len(Tail(t)) = Len(t) - 1
      /\ \A i \in 1 .. Len(Tail(t)) : Tail(t)[i] = t[i + 1]
      /\ Len(t) \in Nat \ {0}
  BY HeadTailProperties, EmptySeq
<1>2. one \in Seq(S) /\ Len(one) = 1 /\ one[1] = t[1]
  BY <1>1
<1> HIDE DEF one
<1>3. /\ back \in Seq(S) /\ Len(back) = Len(one) + Len(Tail(t))
      /\ \A i \in 1 .. Len(one) + Len(Tail(t)) :
           back[i] = IF i <= Len(one) THEN one[i] ELSE Tail(t)[i - Len(one)]
  BY <1>1, <1>2, ConcatProperties
<1> HIDE DEF back
<1>4. ASSUME NEW i \in 1 .. Len(back) PROVE back[i] = t[i]
  <2>1. CASE i = 1
    BY <1>1, <1>2, <1>3, <2>1
  <2>2. CASE i # 1
    <3>1. i - 1 \in 1 .. Len(Tail(t)) /\ back[i] = Tail(t)[i - 1]
      BY <1>1, <1>2, <1>3, <2>2
    <3>2. QED
      BY <1>1, <3>1
  <2>3. QED
    BY <2>1, <2>2
<1>5. back = t
  BY <1>1, <1>2, <1>3, <1>4, SeqEqual
<1>6. Append(s, Head(t)) = s \o one
  BY <1>1, AppendIsConcat DEF one
<1>7. (s \o one) \o Tail(t) = s \o back
  <2>1. ASSUME NEW u \in Seq(S), NEW v \in Seq(S), NEW w \in Seq(S)
        PROVE  (u \o v) \o w = u \o (v \o w)
    BY ConcatAssociative
  <2>2. s \in Seq(S) /\ one \in Seq(S) /\ Tail(t) \in Seq(S)
    BY <1>1, <1>2
  <2>3. QED
    BY <2>1, <2>2, Zenon DEF back
<1>8. QED
  BY <1>5, <1>6, <1>7

-----------------------------------------------------------------------------
(***************************************************************************)
(* What was handed over, in order.  A job is handed over only after a      *)
(* worker took it, and the worker that still holds it is about to count it.*)
(***************************************************************************)
Handed == collected \o resultsCh

OnceInv ==
  /\ Injective(Handed)
  /\ Delivered \subseteq 1 .. received
  /\ \A w \in Worker : task[w] \in Delivered => pc[w] = "count"

\* What is handed over is the elements of the two sequences.
LEMMA HandedElements ==
  ASSUME TypeOK PROVE Handed \in Seq(Job) /\ Elements(Handed) = Delivered
<1>1. collected \in Seq(Job) /\ resultsCh \in Seq(Job)
  BY DEF TypeOK
<1>2. QED
  BY <1>1, ElementsConcat, ConcatProperties DEF Handed, Delivered

\* Nothing is handed over initially.
LEMMA InitOnceInv == Init => OnceInv
<1> SUFFICES ASSUME Init PROVE OnceInv
  OBVIOUS
<1>1. Delivered = {}
  BY ElementsEmpty DEF Init, Delivered
<1>2. Handed = << >>
  <2>1. << >> \in Seq(Job)
    BY EmptySeq
  <2>2. QED
    BY <2>1, ConcatEmptySeq DEF Init, Handed
<1>3. QED
  BY <1>1, <1>2 DEF OnceInv, Injective

\* A step that leaves what is handed over alone, worker by worker.
LEMMA KeepOnceInv ==
  ASSUME TypeInv, ControlInv, OnceInv, Handed' = Handed, Delivered' = Delivered,
         received' = received, task' = task,
         \A w \in Worker : pc[w] = "count" => pc'[w] = "count"
  PROVE  OnceInv'
BY DEF OnceInv, Injective

\* Sending a result hands over a job that was not handed over before.
LEMMA SendOnceInv ==
  ASSUME TypeInv, ControlInv, CountInv, OnceInv, NEW w \in Worker, SendResult(w)
  PROVE  OnceInv'
<1>1. /\ task[w] \in Job /\ task[w] \notin Delivered /\ task[w] \in 1 .. received
      /\ resultsCh' = Append(resultsCh, task[w]) /\ collected' = collected
      /\ received' = received /\ task' = task /\ pc' = [pc EXCEPT ![w] = "count"]
  BY DEF SendResult, TypeInv, TypeOK, Holding, Job, CountInv, OnceInv, tasksCh, held,
         caller, Goto
<1>2. Delivered' = Delivered \cup {task[w]}
  BY SendResultEffect
<1>3. Handed' = Append(Handed, task[w])
  BY <1>1, ConcatAppend DEF Handed, TypeInv, TypeOK
<1>4. Injective(Handed')
  BY <1>1, <1>3, HandedElements, InjectiveAppend DEF OnceInv, TypeInv
<1>5. ASSUME NEW v \in Worker, task[v] \in Delivered' PROVE pc'[v] = "count"
  <2>1. CASE v = w
    BY <1>1, <2>1 DEF TypeInv, TypeOK
  <2>2. CASE v # w
    <3>1. task[v] # task[w]
      BY <1>1, <2>2 DEF CountInv, Job
    <3>2. QED
      BY <1>1, <1>2, <1>5, <2>2, <3>1 DEF OnceInv, TypeInv, TypeOK
  <2>3. QED
    BY <2>1, <2>2
<1>6. QED
  BY <1>1, <1>2, <1>4, <1>5 DEF OnceInv, Injective

\* Every step keeps it.
LEMMA NextOnceInv == IInv /\ OnceInv /\ [Next]_vars => OnceInv'
<1> SUFFICES ASSUME IInv, OnceInv, [Next]_vars PROVE OnceInv'
  OBVIOUS
<1> USE DEF IInv
<1>1. ASSUME NEW w \in Worker, SendResult(w) PROVE OnceInv'
  BY <1>1, SendOnceInv
<1>2. CASE ReceiveResult
  <2>1. Delivered' = Delivered
    BY <1>2, ReceiveResultEffect DEF TypeInv
  <2>2. Handed' = Handed
    BY <1>2, ConcatMoveHead DEF ReceiveResult, Handed, TypeInv, TypeOK
  <2>3. QED
    BY <1>2, <2>1, <2>2, KeepOnceInv DEF ReceiveResult, tasksCh, workers
<1>3. CASE UNCHANGED << collected, resultsCh >>
  <2>1. Handed' = Handed /\ Delivered' = Delivered
    BY <1>3 DEF Handed, Delivered
  <2>2. ASSUME NEW w \in Worker, WorkerReceive(w) PROVE OnceInv'
    <3>1. /\ received \in Nat /\ received' = received + 1
          /\ task' = [task EXCEPT ![w] = received + 1] /\ pc[w] # "count"
          /\ pc' = [pc EXCEPT ![w] = "read"]
      BY <2>2, LenProperties DEF WorkerReceive, TypeInv, TypeOK, NumJobs, Goto
    <3>2. received + 1 \notin Delivered /\ Delivered \subseteq 1 .. received'
      BY <3>1 DEF OnceInv
    <3>3. \A v \in Worker : task'[v] \in Delivered => pc'[v] = "count"
      BY <3>1, <3>2 DEF OnceInv, TypeInv, TypeOK
    <3>4. QED
      BY <2>1, <3>2, <3>3 DEF OnceInv, Injective
  <2>3. ASSUME NEW w \in Worker, CountSearched(w) PROVE OnceInv'
    <3>1. /\ received' = received /\ task' = [task EXCEPT ![w] = 0]
          /\ \A v \in Worker : v # w => pc'[v] = pc[v]
      BY <2>3 DEF CountSearched, TypeInv, TypeOK, tasksCh, Goto
    <3>2. 0 \notin Delivered
      BY LenProperties DEF OnceInv, TypeInv, TypeOK
    <3>3. \A v \in Worker : task'[v] \in Delivered => pc'[v] = "count"
      BY <3>1, <3>2 DEF OnceInv, TypeInv, TypeOK
    <3>4. QED
      BY <2>1, <3>1, <3>3 DEF OnceInv, Injective
  <2>4. CASE ReturnClosed \/ Spawn
    <3>1. /\ received' = received /\ task' = task
          /\ \A w \in Worker : pc[w] # "count"
      BY <2>4 DEF ReturnClosed, Spawn, ControlInv, held
    <3>2. QED
      BY <2>1, <3>1, KeepOnceInv
  <2>5. ASSUME NEW w \in Worker,
               \/ WorkerQuit(w) \/ WorkerDrained(w) \/ ReadBlob(w) \/ MatchBlob(w)
               \/ CheckTeardown(w) \/ PublishErr(w) \/ AbandonResult(w) \/ StopRun(w)
        PROVE  OnceInv'
    <3>1. /\ received' = received /\ task' = task
          /\ pc[w] # "count" /\ \E l : pc' = [pc EXCEPT ![w] = l]
      BY <2>5 DEF WorkerQuit, WorkerDrained, ReadBlob, MatchBlob, CheckTeardown,
                  PublishErr, AbandonResult, StopRun, tasksCh, held, Goto
    <3>2. QED
      BY <2>1, <3>1, KeepOnceInv DEF TypeInv, TypeOK
  <2>6. CASE UNCHANGED << received, workers >>
    BY <2>1, <2>6, KeepOnceInv DEF workers
  <2>7. QED
    BY <1>1, <1>2, <2>2, <2>3, <2>4, <2>5, <2>6
    DEF Next, Goroutines, Dispatch, Closer, Finished, RunWorker, DispatchSend,
        DispatchReturn, CloserPublish, CloserClose, CloserReturn, CallerCancel,
        PropagateCancel, ReceiveErr, vars, tasksCh, workers
<1>4. QED
  BY <1>1, <1>2, <1>3
  DEF Next, Goroutines, Dispatch, Closer, Finished, RunWorker, ReturnClosed,
      Spawn, DispatchSend, DispatchReturn, WorkerQuit, WorkerDrained,
      WorkerReceive, ReadBlob, MatchBlob, CheckTeardown, PublishErr,
      AbandonResult, CountSearched, StopRun, CloserPublish, CloserClose,
      CloserReturn, CallerCancel, PropagateCancel, ReceiveErr, vars, outputs, caller

\* It holds in every state of every run.
LEMMA AlwaysOnce == Spec => [](IInv /\ OnceInv)
<1>1. Spec => []IInv
  BY Inductive
<1>2. Init => OnceInv
  BY InitOnceInv
<1>3. IInv /\ OnceInv /\ [Next]_vars => OnceInv'
  BY NextOnceInv
<1>4. QED
  BY <1>1, <1>2, <1>3, PTL DEF Spec

(***************************************************************************)
(* No result is handed over twice, whichever workers take the tasks and    *)
(* however the caller interleaves its receives.                            *)
(***************************************************************************)
THEOREM NoResultTwice == Spec => []DeliveredOnce
<1>1. IInv /\ OnceInv => DeliveredOnce
  BY DEF OnceInv, Injective, Handed, DeliveredOnce
<1>2. QED
  BY <1>1, AlwaysOnce, PTL

-----------------------------------------------------------------------------
(***************************************************************************)
(* The steps of the pipeline as steps of the contract.                     *)
(***************************************************************************)

\* An error in the set of errors is one in the sequence of published errors.
LEMMA PublishedEmpty ==
  ASSUME TypeOK PROVE Published = << >> <=> Errors = {}
<1>1. /\ reported \in Seq({"fatal", "cancelled"}) /\ errCh \in Seq({"fatal", "cancelled"})
  BY DEF TypeOK
<1>2. Published \in Seq({"fatal", "cancelled"})
  BY <1>1, ConcatProperties DEF Published
<1>3. QED
  BY <1>2, PublishedErrors, NoElements

\* A send on errCh publishes the error, or drops it when the slot is taken.
LEMMA SendErrPublishes ==
  ASSUME TypeOK, NEW e \in {"fatal", "cancelled"}, SendErr(e), reported' = reported
  PROVE  Published' = Append(Published, e) \/ Published' = Published
<1> DEFINE E == {"fatal", "cancelled"}
<1>1. reported \in Seq(E)
  BY DEF TypeOK
<1>2. CASE errCh = << >>
  <2>1. Published = reported
    BY <1>1, <1>2, ConcatEmptySeq DEF Published
  <2>2. errCh' = << e >>
    BY <1>2 DEF SendErr
  <2>3. Published' = Append(Published, e)
    BY <1>1, <2>1, <2>2, AppendIsConcat DEF Published
  <2>4. QED
    BY <2>3
<1>3. CASE errCh # << >>
  BY <1>3 DEF SendErr, Published
<1>4. QED
  BY <1>2, <1>3

\* Receiving an error leaves the published ones as they are.
LEMMA ReceiveErrPublished ==
  ASSUME TypeOK, ReceiveErr PROVE Published' = Published
<1> DEFINE E == {"fatal", "cancelled"}
<1>1. /\ reported \in Seq(E) /\ errCh \in Seq(E) /\ errCh # << >> /\ Len(errCh) <= 1
      /\ reported' = Append(reported, Head(errCh)) /\ errCh' = << >>
  BY DEF TypeOK, ReceiveErr
<1>2. Tail(errCh) \in Seq(E) /\ Len(Tail(errCh)) = Len(errCh) - 1 /\ Len(errCh) \in Nat
  BY <1>1, HeadTailProperties, LenProperties
<1>3. Tail(errCh) = << >>
  <2>1. ~(Len(Tail(errCh)) \in Nat \ {0})
    BY <1>1, <1>2
  <2>2. QED
    BY <1>2, <2>1, EmptySeq
<1>4. QED
  BY <1>1, <1>3, ConcatMoveHead DEF Published

\* A run starts as the contract does: nothing handed over, nothing published.
LEMMA InitContract == Init => Contract!Init
<1> SUFFICES ASSUME Init PROVE Contract!Init
  OBVIOUS
<1>1. Delivered = {}
  BY ElementsEmpty DEF Init, Delivered
<1>2. Published = << >>
  <2>1. << >> \in Seq({"fatal"})
    BY EmptySeq
  <2>2. QED
    BY <2>1, ConcatEmptySeq DEF Init, Published
<1>3. QED
  BY <1>1, <1>2 DEF Init, Contract!Init, Contract!Kind, Kind, ErrClosed

\* Sending a result is a delivery of it.
LEMMA SendResultDelivers ==
  ASSUME IInv, OnceInv, NEW w \in Worker, SendResult(w)
  PROVE  Contract!Deliver(task[w]) /\ task[w] \in Contract!Job
<1> USE DEF IInv
<1>1. /\ pc[w] = "send" /\ task[w] \in Job /\ closer = "wait" /\ closer' = closer
      /\ UNCHANGED << jobOrder, quiet, callerCancelled, errCh, reported >>
  BY DEF SendResult, TypeInv, TypeOK, Holding, ControlInv, input, context, caller
<1>2. Delivered' = Delivered \cup {task[w]} /\ Published' = Published
  BY <1>1, SendResultEffect DEF Published
<1>3. task[w] \notin Delivered
  BY <1>1 DEF OnceInv
<1>4. jobOrder[task[w]] # "silent"
  BY <1>1 DEF ControlInv, Reportable
<1>5. jobOrder[task[w]] = "fatal" => Published # << >>
  BY <1>1, PublishedErrors DEF ControlInv, ErrorInv, TypeInv
<1>6. task[w] \in 1 .. Len(jobOrder)
  BY <1>1 DEF Job, NumJobs
<1>7. QED
  BY <1>1, <1>2, <1>3, <1>4, <1>5, <1>6
  DEF Contract!Deliver, Contract!Loud, Contract!Job, Contract!HasError, ErrClosed

\* Publishing a worker's error publishes a fatal one, or changes nothing.
LEMMA PublishErrPublishes ==
  ASSUME IInv, OnceInv, NEW w \in Worker, PublishErr(w)
  PROVE  Contract!PublishFatal \/ UNCHANGED Contract!vars
<1> USE DEF IInv
<1>1. /\ pc[w] = "publish" /\ res[w] = "fatal" /\ jobOrder[task[w]] = "fatal"
      /\ task[w] \in 1 .. Len(jobOrder) /\ closer = "wait" /\ closer' = closer
      /\ SendErr("fatal")
      /\ UNCHANGED << jobOrder, quiet, callerCancelled, resultsCh, collected, reported >>
  BY DEF PublishErr, TypeInv, TypeOK, Holding, ControlInv, Job, NumJobs, input,
         context, caller
<1>2. Delivered' = Delivered /\ ErrClosed' = ErrClosed
  BY <1>1 DEF Delivered, ErrClosed
<1>3. task[w] \notin Delivered
  BY <1>1 DEF OnceInv
<1>4. Published' = Append(Published, "fatal") \/ Published' = Published
  BY <1>1, SendErrPublishes DEF TypeInv
<1>5. CASE Published' = Append(Published, "fatal")
  BY <1>1, <1>2, <1>3, <1>5 DEF Contract!PublishFatal, Contract!Job, ErrClosed
<1>6. CASE Published' = Published
  BY <1>1, <1>2, <1>6 DEF Contract!vars
<1>7. QED
  BY <1>4, <1>5, <1>6

(***************************************************************************)
(* The closer publishes a cancellation only of a caller that cancelled and *)
(* was not handed everything: a job that was not counted is one no worker  *)
(* took, or one whose worker gave up on delivering it.                     *)
(***************************************************************************)
LEMMA CloserPublishes ==
  ASSUME IInv, OnceInv, CloserPublish
  PROVE  Contract!PublishCancelled \/ UNCHANGED Contract!vars
<1> USE DEF IInv
<1>1. /\ closer = "wait" /\ closer' = "closeResults" /\ \A w \in Worker : pc[w] = "exited"
      /\ UNCHANGED << jobOrder, quiet, callerCancelled, resultsCh, collected, reported >>
  BY DEF CloserPublish, WaitOver, input, context, caller
<1>2. Delivered' = Delivered /\ ~ErrClosed /\ ErrClosed' = ErrClosed
  BY <1>1 DEF Delivered, ErrClosed
<1>3. CASE CutShort
  <2>1. callerCancelled /\ searched < NumJobs /\ SendErr("cancelled")
    BY <1>3 DEF CloserPublish, CutShort
  <2>2. Searched # Job
    <3>1. NumJobs \in Nat /\ searched \in Nat
      BY LenProperties DEF TypeInv, TypeOK, NumJobs
    <3>2. QED
      BY <2>1, <3>1, SearchedJobs DEF CountInv
  <2>3. PICK j \in Job : j \notin Searched
    BY <2>2, SearchedJobs
  <2>4. j \notin Delivered
    <3>1. CASE j \in 1 .. received
      <4>1. PICK w \in Worker : task[w] = j
        BY <2>3, <3>1 DEF Searched
      <4>2. QED
        BY <1>1, <4>1 DEF OnceInv
    <3>2. CASE j \notin 1 .. received
      BY <3>2 DEF OnceInv
    <3>3. QED
      BY <3>1, <3>2
  <2>5. Published' = Append(Published, "cancelled") \/ Published' = Published
    BY <1>1, <2>1, SendErrPublishes DEF TypeInv
  <2>6. CASE Published' = Append(Published, "cancelled")
    BY <1>1, <1>2, <2>1, <2>3, <2>4, <2>6
    DEF Contract!PublishCancelled, Contract!Job, Job, NumJobs
  <2>7. CASE Published' = Published
    BY <1>1, <1>2, <2>7 DEF Contract!vars
  <2>8. QED
    BY <2>5, <2>6, <2>7
<1>4. CASE ~CutShort
  <2>1. Published' = Published
    BY <1>1, <1>4 DEF CloserPublish, Published
  <2>2. QED
    BY <1>1, <1>2, <2>1 DEF Contract!vars
<1>5. QED
  BY <1>3, <1>4

\* A call that is over before it starts closes at once.
LEMMA ReturnClosedCloses ==
  ASSUME IInv, OnceInv, ReturnClosed
  PROVE  Contract!CloseCancelled \/ Contract!Close
<1> USE DEF IInv
<1>1. /\ closer = "unborn" /\ closer' = "done" /\ received = 0
      /\ callerCancelled \/ NumJobs = 0
      /\ errCh' = IF callerCancelled THEN << "cancelled" >> ELSE << >>
      /\ UNCHANGED << jobOrder, quiet, callerCancelled, resultsCh, collected, reported >>
  BY DEF ReturnClosed, ControlInv, input, context, caller
<1>2. Delivered = {} /\ Delivered' = {}
  <2>1. Delivered = {}
    BY <1>1 DEF OnceInv
  <2>2. QED
    BY <1>1, <2>1 DEF Delivered
<1>3. Published = << >> /\ reported = << >>
  <2>1. Errors = {}
    BY <1>1 DEF ErrorInv
  <2>2. Elements(reported) = {} /\ reported \in Seq({"fatal", "cancelled"})
    BY <2>1 DEF Errors, TypeInv, TypeOK
  <2>3. QED
    BY <2>1, <2>2, PublishedEmpty, NoElements DEF TypeInv
<1>4. Published' = errCh'
  <2>1. errCh' \in Seq({"fatal", "cancelled"})
    BY <1>1, OneError, EmptySeq
  <2>2. QED
    BY <1>1, <1>3, <2>1, ConcatEmptySeq DEF Published
<1>5. ~ErrClosed /\ ErrClosed'
  BY <1>1 DEF ErrClosed
<1>6. CASE callerCancelled
  BY <1>1, <1>2, <1>3, <1>4, <1>5, <1>6 DEF Contract!CloseCancelled, Contract!HasError
<1>7. CASE ~callerCancelled
  <2>1. Contract!Loud = {}
    BY <1>1, <1>7 DEF Contract!Loud, Contract!Job, NumJobs
  <2>2. QED
    BY <1>1, <1>2, <1>3, <1>4, <1>5, <1>7, <2>1 DEF Contract!Close
<1>8. QED
  BY <1>6, <1>7

\* Closing resultsCh is nothing to the contract; closing errCh closes the call.
LEMMA CloserCloses ==
  ASSUME IInv, CloserClose
  PROVE  Contract!Close \/ UNCHANGED Contract!vars
<1> USE DEF IInv
<1>1. /\ UNCHANGED << jobOrder, quiet, callerCancelled >>
      /\ Delivered' = Delivered /\ Published' = Published
  BY DEF CloserClose, input, context, outputs, Delivered, Published
<1>2. CASE closer = "closeResults" /\ closer' = "closeErr"
  BY <1>1, <1>2 DEF Contract!vars, ErrClosed
<1>3. CASE closer = "closeErr" /\ closer' = "cancel"
  <2>1. ~ErrClosed /\ ErrClosed'
    BY <1>3 DEF ErrClosed
  <2>2. Published # << >> \/ AllDelivered \/ QuietHit
    BY <1>3, PublishedEmpty DEF EndInv, TypeInv
  <2>3. Contract!HasError \/ Contract!Satisfied \/ Contract!Loud \subseteq Delivered
    BY <2>2 DEF Contract!HasError, Contract!Satisfied, Contract!Loud, Contract!Job,
                AllDelivered, QuietHit, Job, NumJobs, Reportable
  <2>4. QED
    BY <1>1, <2>1, <2>3 DEF Contract!Close
<1>4. QED
  BY <1>2, <1>3 DEF CloserClose

\* Every step of the pipeline is a step of the contract, or none.
LEMMA NextContract ==
  IInv /\ OnceInv /\ [Next]_vars => [Contract!Next]_(Contract!vars)
<1> SUFFICES ASSUME IInv, OnceInv, [Next]_vars
             PROVE  Contract!Next \/ UNCHANGED Contract!vars
  OBVIOUS
<1>1. ASSUME NEW w \in Worker, SendResult(w) PROVE Contract!Next
  BY <1>1, SendResultDelivers DEF Contract!Next
<1>2. ASSUME NEW w \in Worker, PublishErr(w)
      PROVE  Contract!Next \/ UNCHANGED Contract!vars
  BY <1>2, PublishErrPublishes DEF Contract!Next
<1>3. CASE CloserPublish
  BY <1>3, CloserPublishes DEF Contract!Next
<1>4. CASE ReturnClosed
  BY <1>4, ReturnClosedCloses DEF Contract!Next
<1>5. CASE CloserClose
  BY <1>5, CloserCloses DEF Contract!Next
<1>6. CASE CallerCancel
  <2>1. Contract!CallerCancel
    BY <1>6 DEF CallerCancel, Contract!CallerCancel, input, outputs, Delivered,
                Published, ErrClosed
  <2>2. QED
    BY <2>1 DEF Contract!Next
<1>7. CASE ReceiveResult \/ ReceiveErr
  <2>1. Delivered' = Delivered
    BY <1>7, ReceiveResultEffect, ReceiveErrEffect DEF IInv, TypeInv
  <2>2. Published' = Published
    BY <1>7, ReceiveErrPublished DEF ReceiveResult, Published, IInv, TypeInv
  <2>3. QED
    BY <1>7, <2>1, <2>2
    DEF ReceiveResult, ReceiveErr, input, context, Contract!vars, ErrClosed
<1>8. CASE CloserReturn
  BY <1>8 DEF CloserReturn, input, outputs, Delivered, Published, ErrClosed,
              Contract!vars
<1>9. CASE Spawn
  BY <1>9 DEF Spawn, input, context, outputs, Delivered, Published, ErrClosed,
              Contract!vars
<1>10. CASE UNCHANGED << input, callerCancelled, outputs, closer >>
  BY <1>10 DEF input, outputs, Delivered, Published, ErrClosed, Contract!vars
<1>11. QED
  BY <1>1, <1>2, <1>3, <1>4, <1>5, <1>6, <1>7, <1>8, <1>9, <1>10
  DEF Next, Goroutines, Dispatch, Closer, Finished, RunWorker, DispatchSend,
      DispatchReturn, WorkerQuit, WorkerDrained, WorkerReceive, ReadBlob,
      MatchBlob, CheckTeardown, AbandonResult, CountSearched, StopRun,
      PropagateCancel, vars, context, input, outputs, caller

(***************************************************************************)
(* The pipeline keeps the promise of SearchContract to its caller, for any *)
(* pool, any buffer size and any set of blobs: results one at a time and   *)
(* never twice, a fatal error before its result, no error without a cause, *)
(* and no close without an error unless everything asked for was done.     *)
(***************************************************************************)
THEOREM PipelineKeepsContract == Spec => KeepsContract
<1>1. Init => Contract!Init
  BY InitContract
<1>2. IInv /\ OnceInv /\ [Next]_vars => [Contract!Next]_(Contract!vars)
  BY NextContract
<1>3. QED
  BY <1>1, <1>2, AlwaysOnce, PTL DEF Spec, KeepsContract, Contract!Spec
=============================================================================
