------------------------ MODULE RepositoryReader_proofs ------------------------
(***************************************************************************)
(* Proofs about RepositoryReader, for any number of reading and closing    *)
(* goroutines, any packs, any store of copies and any depth limit.         *)
(***************************************************************************)
EXTENDS RepositoryReader, RecursionLemmas, SequenceTheorems

Label   == {"idle", "rlock", "check", "add", "runlock", "scan", "io", "done", "return"}
Closing == {"idle", "called", "lock", "wait", "release", "returned"}
Result  == {"none", "found", "absent", "corrupt", "closed", "panic"}
Call    == [op : {"read", "has"}, obj : Object]

(***************************************************************************)
(* TypeOK is not inductive: a goroutine in a call has a call and a stack,  *)
(* a result exactly when its innermost read has been decided, and in "io"  *)
(* a copy to read.                                                         *)
(***************************************************************************)
ThreadType(t) ==
  /\ stack[t] = << >> <=> pc[t] = "idle"
  /\ pc[t] # "idle" => call[t] \in Call
  /\ pc[t] \in {"rlock", "check", "add", "scan", "io"} => result[t] = "none"
  /\ pc[t] = "runlock" => result[t] \in {"none", "closed"}
  /\ pc[t] \in {"done", "return"} => result[t] # "none"
  /\ pc[t] = "io" => /\ Top(t).sources = "live"
                     /\ Top(t).next <= Len(Copies[Top(t).obj])

TypeInv ==
  /\ readers \subseteq Thread /\ writer \in ClosingThread \cup {NoOne}
  /\ closed \in BOOLEAN /\ fields \in {"live", "nil"}
  /\ inflight \subseteq Thread \X (Nat \ {0}) /\ open \subseteq Pack
  /\ pc \in [Thread -> Label] /\ cpc \in [ClosingThread -> Closing]
  /\ stack \in [Thread -> Seq(FrameType)]
  /\ result \in [Thread -> Result]
  /\ call \in [Thread -> {<< >>} \cup Call]
  /\ \A t \in Thread : ThreadType(t)

\* The innermost read of t is registered in inflight.
Registered(t) ==
  \/ pc[t] \in {"scan", "io", "done"}
  \/ pc[t] = "runlock" /\ result[t] = "none"

\* Exactly the reads that t has started and not ended are in inflight.
ReadsRegistered(t) ==
  \A k \in Nat \ {0} :
    << t, k >> \in inflight <=> k < Level(t) \/ (k = Level(t) /\ Registered(t))

(***************************************************************************)
(* The lock excludes the critical section of Close from that of acquire;   *)
(* inflight holds the reads that a goroutine has started and not ended;    *)
(* the descriptors are touched when there is none and can be none again.   *)
(***************************************************************************)
LockInv ==
  /\ readers = { t \in Thread : pc[t] \in {"check", "add", "runlock"} }
  /\ \A c \in ClosingThread : cpc[c] = "lock" <=> writer = c
  /\ closed <=> fields = "nil"
  /\ \A t \in Thread : pc[t] = "add" => ~closed
  /\ \A c \in ClosingThread : cpc[c] \in {"wait", "release"} => closed
  /\ \A t \in Thread : ReadsRegistered(t)
  /\ open # Pack \/ (\E c \in ClosingThread : cpc[c] = "release") =>
       closed /\ inflight = {}

-----------------------------------------------------------------------------
(* Copies and stacks.                                                      *)

\* The copies of an object are a sequence of copies.
LEMMA CopiesOf ==
  ASSUME NEW o \in Object
  PROVE  /\ Copies[o] \in Seq(Copy) /\ Len(Copies[o]) \in Nat
         /\ DOMAIN Copies[o] = 1 .. Len(Copies[o])
         /\ \A i \in 1 .. Len(Copies[o]) : Copies[o][i] \in Copy
<1>1. Copies[o] \in Seq(Copy)
  BY CopiesAssumption
<1>2. QED
  BY <1>1, LenProperties, ElementOfSeq

\* A goroutine in a call has an innermost read.
LEMMA TopFrame ==
  ASSUME TypeInv, NEW t \in Thread, pc[t] # "idle"
  PROVE  /\ Level(t) \in Nat \ {0} /\ Top(t) \in FrameType
         /\ stack[t] \in Seq(FrameType) /\ stack[t] # << >>
         /\ \A l \in 1 .. Level(t) : stack[t][l] \in FrameType
<1>1. stack[t] \in Seq(FrameType) /\ stack[t] # << >>
  BY DEF TypeInv, ThreadType
<1>2. Level(t) \in Nat \ {0}
  BY <1>1, EmptySeq DEF Level
<1>3. \A l \in 1 .. Level(t) : stack[t][l] \in FrameType
  BY <1>1, ElementOfSeq DEF Level
<1>4. Top(t) \in FrameType
  BY <1>2, <1>3 DEF Top
<1>5. QED
  BY <1>1, <1>2, <1>3, <1>4

\* Replacing the innermost read leaves the outer ones alone.
LEMMA SetTopEffect ==
  ASSUME TypeInv, NEW t \in Thread, pc[t] # "idle", NEW f \in FrameType, SetTop(t, f)
  PROVE  /\ stack' \in [Thread -> Seq(FrameType)] /\ stack'[t] # << >>
         /\ \A u \in Thread : u # t => stack'[u] = stack[u]
         /\ Level(t)' = Level(t) /\ Top(t)' = f
         /\ \A l \in 1 .. Level(t) - 1 : stack'[t][l] = stack[t][l]
<1> DEFINE s == [stack[t] EXCEPT ![Level(t)] = f]
<1>1. stack' = [stack EXCEPT ![t] = s] /\ stack \in [Thread -> Seq(FrameType)]
  BY DEF SetTop, TypeInv
<1>2. Level(t) \in 1 .. Len(stack[t]) /\ stack[t] \in Seq(FrameType)
  BY TopFrame DEF Level
<1>3. /\ s \in Seq(FrameType) /\ Len(s) = Len(stack[t])
      /\ \A l \in 1 .. Len(stack[t]) : s[l] = IF l = Level(t) THEN f ELSE stack[t][l]
  BY <1>2, ExceptSeq
<1> HIDE DEF s
<1>4. stack'[t] = s
  BY <1>1
<1>5. s # << >>
  BY <1>2, <1>3, EmptySeq
<1>6. QED
  BY <1>1, <1>2, <1>3, <1>4, <1>5, TopFrame DEF Level, Top

\* Starting a nested read puts it on top.
LEMMA PushEffect ==
  ASSUME TypeInv, NEW t \in Thread, pc[t] # "idle", NEW f \in FrameType,
         stack' = [stack EXCEPT ![t] = Append(@, f)]
  PROVE  /\ stack' \in [Thread -> Seq(FrameType)] /\ stack'[t] # << >>
         /\ \A u \in Thread : u # t => stack'[u] = stack[u]
         /\ Level(t)' = Level(t) + 1 /\ Top(t)' = f
         /\ \A l \in 1 .. Level(t) : stack'[t][l] = stack[t][l]
<1> DEFINE s == Append(stack[t], f)
<1>1. stack' = [stack EXCEPT ![t] = s] /\ stack \in [Thread -> Seq(FrameType)]
  BY DEF TypeInv
<1>2. /\ s \in Seq(FrameType) /\ s # << >> /\ Len(s) = Len(stack[t]) + 1
      /\ \A l \in 1 .. Len(stack[t]) : s[l] = stack[t][l]
      /\ s[Len(stack[t]) + 1] = f
  BY <1>1, AppendProperties
<1> HIDE DEF s
<1>3. QED
  BY <1>1, <1>2, TopFrame DEF Level, Top

\* Ending a nested read uncovers the one that asked for it.
LEMMA PopEffect ==
  ASSUME TypeInv, NEW t \in Thread, Level(t) > 1, pc[t] # "idle"
  PROVE  LET below == SubSeq(stack[t], 1, Level(t) - 1)
         IN  /\ below \in Seq(FrameType) /\ below # << >>
             /\ Len(below) = Level(t) - 1
             /\ \A l \in 1 .. Level(t) - 1 : below[l] = stack[t][l]
<1> DEFINE below == SubSeq(stack[t], 1, Level(t) - 1)
<1>1. /\ Level(t) \in Nat \ {0}
      /\ \A l \in 1 .. Level(t) - 1 : stack[t][l] \in FrameType
  BY TopFrame
<1>2. /\ below \in Seq(FrameType)
      /\ Len(below) = IF 1 <= Level(t) - 1 THEN (Level(t) - 1) - 1 + 1 ELSE 0
      /\ \A l \in 1 .. (Level(t) - 1) - 1 + 1 : below[l] = stack[t][1 + l - 1]
  <2>1. 1 \in Int /\ Level(t) - 1 \in Int
    BY <1>1
  <2>2. QED
    BY <1>1, <2>1, SubSeqProperties
<1> HIDE DEF below
<1>3. Len(below) = Level(t) - 1 /\ \A l \in 1 .. Level(t) - 1 : below[l] = stack[t][l]
  BY <1>1, <1>2
<1>4. below # << >>
  BY <1>1, <1>3, EmptySeq
<1>5. QED
  BY <1>2, <1>3, <1>4 DEF below

-----------------------------------------------------------------------------
(* Types.                                                                  *)

\* What a goroutine's step leaves alone.
OthersKept(t) ==
  \A u \in Thread : u # t =>
    /\ pc'[u] = pc[u] /\ stack'[u] = stack[u] /\ result'[u] = result[u]
    /\ call'[u] = call[u]

\* A new read is a frame.
LEMMA NewFrame ==
  ASSUME NEW o \in Object, NEW d \in 0 .. MaxDeltaDepth + 1
  PROVE  /\ Frame(o, d) \in FrameType
         /\ Frame(o, d).obj = o /\ Frame(o, d).depth = d /\ Frame(o, d).next = 1
         /\ Frame(o, d).err = "none"
BY DEF Frame, FrameType

\* A frame whose copy failed is a frame that is on to the next copy.
LEMMA CopyFailsEffect ==
  ASSUME NEW f \in FrameType, NEW e \in {"corrupt", "closed", "absent"}
  PROVE  LET g == CopyFails(f, e)
         IN  /\ g \in FrameType /\ g.next = f.next + 1 /\ g.obj = f.obj
             /\ g.depth = f.depth /\ g.sources = f.sources
             /\ g.err = IF f.err = "none" THEN e ELSE f.err
<1> DEFINE e2 == IF f.err = "none" THEN e ELSE f.err
           n2 == f.next + 1
           g  == [f EXCEPT !.err = e2, !.next = n2]
<1>1. CopyFails(f, e) = g
  BY DEF CopyFails
<1>2. n2 \in Nat \ {0} /\ e2 \in {"none", "corrupt", "closed", "absent"}
  BY DEF FrameType
<1> HIDE DEF e2, n2
<1>3. g \in FrameType
  BY <1>2 DEF FrameType
<1>4. /\ g.obj = f.obj /\ g.depth = f.depth /\ g.sources = f.sources
      /\ g.next = n2 /\ g.err = e2
  BY DEF FrameType
<1>5. QED
  BY <1>1, <1>3, <1>4 DEF e2, n2

\* The goroutine that asked for a base takes up its read again.
LEMMA ReturnBaseEffect ==
  ASSUME TypeInv, NEW t \in Thread, ReturnBase(t)
  PROVE  /\ pc[t] = "return" /\ Level(t) > 1 /\ result[t] \in Result \ {"none"}
         /\ stack' \in [Thread -> Seq(FrameType)] /\ stack'[t] # << >>
         /\ \A u \in Thread : u # t => stack'[u] = stack[u]
         /\ Level(t)' = Level(t) - 1
         /\ \A l \in 1 .. Level(t) - 2 : stack'[t][l] = stack[t][l]
         /\ \/ /\ result[t] \in {"found", "panic"} /\ result' = result
               /\ pc' = [pc EXCEPT ![t] = "done"]
               /\ Top(t)' = stack[t][Level(t) - 1]
            \/ /\ result[t] \in {"corrupt", "closed", "absent"}
               /\ result' = [result EXCEPT ![t] = "none"]
               /\ pc' = [pc EXCEPT ![t] = "scan"]
               /\ Top(t)' = CopyFails(stack[t][Level(t) - 1], result[t])
<1> DEFINE below == SubSeq(stack[t], 1, Level(t) - 1)
           outer == below[Len(below)]
           failed == [below EXCEPT ![Len(below)] = CopyFails(outer, result[t])]
<1>1. /\ pc[t] = "return" /\ Level(t) > 1 /\ result[t] \in Result \ {"none"}
      /\ stack \in [Thread -> Seq(FrameType)]
      /\ Level(t) \in Nat
  BY TopFrame DEF ReturnBase, TypeInv, ThreadType
<1>2. /\ below \in Seq(FrameType) /\ below # << >> /\ Len(below) = Level(t) - 1
      /\ \A l \in 1 .. Level(t) - 1 : below[l] = stack[t][l]
  BY <1>1, PopEffect
<1>3. outer = stack[t][Level(t) - 1] /\ outer \in FrameType
  BY <1>1, <1>2, TopFrame
<1>4. \/ /\ result[t] \in {"found", "panic"} /\ result' = result
         /\ stack' = [stack EXCEPT ![t] = below] /\ pc' = [pc EXCEPT ![t] = "done"]
      \/ /\ result[t] \notin {"found", "panic"}
         /\ stack' = [stack EXCEPT ![t] = failed]
         /\ result' = [result EXCEPT ![t] = "none"]
         /\ pc' = [pc EXCEPT ![t] = "scan"]
  BY DEF ReturnBase, Goto, Yield
<1> HIDE DEF below, outer
<1>5. CASE result[t] \in {"found", "panic"}
  <2>1. /\ result' = result /\ pc' = [pc EXCEPT ![t] = "done"]
        /\ stack' = [stack EXCEPT ![t] = below]
    BY <1>4, <1>5
  <2>2. stack'[t] = below /\ \A u \in Thread : u # t => stack'[u] = stack[u]
    BY <1>1, <2>1
  <2>3. Level(t)' = Level(t) - 1 /\ Top(t)' = stack[t][Level(t) - 1]
    BY <1>1, <1>2, <2>2 DEF Level, Top
  <2>4. stack' \in [Thread -> Seq(FrameType)]
    BY <1>1, <1>2, <2>1
  <2>5. QED
    BY <1>1, <1>2, <1>5, <2>1, <2>2, <2>3, <2>4
<1>6. CASE result[t] \notin {"found", "panic"}
  <2>1. /\ result' = [result EXCEPT ![t] = "none"] /\ pc' = [pc EXCEPT ![t] = "scan"]
        /\ stack' = [stack EXCEPT ![t] = failed]
        /\ result[t] \in {"corrupt", "closed", "absent"}
    BY <1>1, <1>4, <1>6 DEF Result
  <2>2. CopyFails(outer, result[t]) \in FrameType
    BY <1>3, <2>1, CopyFailsEffect
  <2>3. /\ failed \in Seq(FrameType) /\ Len(failed) = Level(t) - 1
        /\ \A l \in 1 .. Level(t) - 1 :
             failed[l] = IF l = Level(t) - 1 THEN CopyFails(outer, result[t]) ELSE stack[t][l]
    <3>1. Len(below) \in 1 .. Len(below)
      BY <1>1, <1>2
    <3>2. QED
      BY <1>2, <2>2, <3>1, ExceptSeq
  <2> HIDE DEF failed
  <2>4. stack'[t] = failed /\ \A u \in Thread : u # t => stack'[u] = stack[u]
    BY <1>1, <2>1
  <2>5. Level(t)' = Level(t) - 1 /\ Top(t)' = CopyFails(stack[t][Level(t) - 1], result[t])
    BY <1>1, <1>3, <2>3, <2>4 DEF Level, Top
  <2>6. stack' \in [Thread -> Seq(FrameType)] /\ failed # << >>
    BY <1>1, <2>1, <2>3, EmptySeq
  <2>7. QED
    BY <1>1, <2>1, <2>3, <2>4, <2>5, <2>6
<1>7. QED
  BY <1>5, <1>6

\* Initially every value has its type.
LEMMA InitTypeInv == Init => TypeInv
<1> SUFFICES ASSUME Init PROVE TypeInv
  OBVIOUS
<1>1. << >> \in Seq(FrameType)
  BY EmptySeq
<1>2. stack \in [Thread -> Seq(FrameType)] /\ \A t \in Thread : stack[t] = << >>
  BY <1>1 DEF Init
<1>3. \A t \in Thread : ThreadType(t)
  BY <1>2 DEF Init, ThreadType
<1>4. QED
  BY <1>2, <1>3 DEF Init, TypeInv, Label, Closing, Result, Call

\* A step of one goroutine that keeps its own values typed keeps all typed.
LEMMA ThreadStep ==
  ASSUME TypeInv, NEW t \in Thread, NEW label \in Label,
         pc' = [pc EXCEPT ![t] = label],
         stack' \in [Thread -> Seq(FrameType)],
         result' \in [Thread -> Result], call' \in [Thread -> {<< >>} \cup Call],
         OthersKept(t), ThreadType(t)',
         readers' \subseteq Thread, inflight' \subseteq Thread \X (Nat \ {0}),
         UNCHANGED << writer, closed, fields, open, cpc >>
  PROVE  TypeInv'
<1>1. ASSUME NEW u \in Thread, u # t PROVE ThreadType(u)'
  <2>1. ThreadType(u) /\ pc'[u] = pc[u] /\ stack'[u] = stack[u]
        /\ result'[u] = result[u] /\ call'[u] = call[u]
    BY <1>1 DEF TypeInv, OthersKept
  <2>2. QED
    BY <2>1 DEF ThreadType, Top, Level
<1>2. \A u \in Thread : ThreadType(u)'
  BY <1>1
<1>3. pc' \in [Thread -> Label]
  BY DEF TypeInv
<1>4. QED
  BY <1>2, <1>3 DEF TypeInv

\* A goroutine in "io" has a copy to read.
LEMMA CurrentCopy ==
  ASSUME TypeInv, NEW t \in Thread, pc[t] = "io"
  PROVE  /\ Current(t) \in Copy /\ Top(t) \in FrameType /\ Top(t).obj \in Object
         /\ Top(t).next \in DOMAIN Copies[Top(t).obj]
<1>1. Top(t) \in FrameType /\ Top(t).next <= Len(Copies[Top(t).obj])
  BY TopFrame DEF TypeInv, ThreadType
<1>2. Top(t).obj \in Object /\ Top(t).next \in Nat \ {0}
  BY <1>1 DEF FrameType
<1>3. QED
  BY <1>1, <1>2, CopiesOf DEF Current

\* Invoke keeps the types.
LEMMA InvokeTyped == ASSUME TypeInv, NEW t \in Thread, Invoke(t) PROVE TypeInv'
<1>1. PICK op \in {"read", "has"}, o \in Object :
        /\ call'  = [call  EXCEPT ![t] = [op |-> op, obj |-> o]]
        /\ stack' = [stack EXCEPT ![t] = << Frame(o, 0) >>]
  BY DEF Invoke
<1>2. Frame(o, 0) \in FrameType
  BY NewFrame, DepthAssumption
<1>3. << Frame(o, 0) >> \in Seq(FrameType) /\ << Frame(o, 0) >> # << >>
  BY <1>2
<1>4. [op |-> op, obj |-> o] \in Call
  BY DEF Call
<1>5. ThreadType(t)'
  BY <1>1, <1>3, <1>4 DEF Invoke, Goto, Yield, TypeInv, ThreadType
<1>6. OthersKept(t)
  BY <1>1 DEF Invoke, Goto, Yield, TypeInv, OthersKept
<1>7. stack' \in [Thread -> Seq(FrameType)] /\ call' \in [Thread -> {<< >>} \cup Call]
      /\ result' \in [Thread -> Result]
  BY <1>1, <1>3, <1>4 DEF Invoke, Yield, TypeInv, Result
<1>8. pc' = [pc EXCEPT ![t] = "rlock"] /\ "rlock" \in Label
  BY DEF Invoke, Goto, Label
<1>9. readers' \subseteq Thread /\ inflight' \subseteq Thread \X (Nat \ {0})
      /\ UNCHANGED << writer, closed, fields, open, cpc >>
  BY DEF Invoke, mu, TypeInv
<1>10. QED
  BY <1>5, <1>6, <1>7, <1>8, <1>9, ThreadStep

\* The steps that leave the stacks and the calls alone keep the types.
LEMMA PlainTyped ==
  ASSUME TypeInv, NEW t \in Thread,
         RLock(t) \/ CheckClosed(t) \/ RUnlock(t) \/ Claimed(t) \/ Scan(t) \/ Unregister(t)
  PROVE  TypeInv'
<1>1. /\ pc[t] \in Label \ {"idle"} /\ stack' = stack /\ call' = call
      /\ UNCHANGED << writer, closed, fields, open, cpc >>
  BY DEF RLock, CheckClosed, RUnlock, Claimed, Scan, Unregister, mu, Label
<1>2. stack[t] # << >> /\ call[t] \in Call /\ Top(t) \in FrameType
  BY <1>1, TopFrame DEF TypeInv, ThreadType
<1>3. readers' \subseteq Thread /\ inflight' \subseteq Thread \X (Nat \ {0})
  BY DEF TypeInv, RLock, CheckClosed, RUnlock, Claimed, Scan, Unregister, mu
<1>4. ASSUME ~Scan(t)
      PROVE  /\ \E label \in Label \ {"idle", "io"} : pc' = [pc EXCEPT ![t] = label]
             /\ result' \in [Thread -> Result]
             /\ OthersKept(t) /\ ThreadType(t)'
  <2>1. CASE RLock(t)
    BY <1>1, <1>2, <2>1 DEF TypeInv, ThreadType, RLock, Goto, Label, OthersKept
  <2>2. CASE CheckClosed(t)
    BY <1>1, <1>2, <2>2 DEF TypeInv, ThreadType, CheckClosed, Goto, Yield, Label, Result, OthersKept
  <2>3. CASE RUnlock(t)
    BY <1>1, <1>2, <2>3 DEF TypeInv, ThreadType, RUnlock, Goto, Label, OthersKept
  <2>4. CASE Claimed(t)
    <3>1. PICK r \in {"found", "absent"} : result' = [result EXCEPT ![t] = r]
      BY <2>4 DEF Claimed, Yield
    <3>2. QED
      BY <1>1, <1>2, <2>4, <3>1 DEF TypeInv, ThreadType, Claimed, Goto, Label, Result, OthersKept
  <2>5. CASE Unregister(t)
    BY <1>1, <1>2, <2>5 DEF TypeInv, ThreadType, Unregister, Goto, Label, OthersKept
  <2>6. QED
    BY <1>4, <2>1, <2>2, <2>3, <2>4, <2>5
<1>5. CASE Scan(t)
  <2>1. /\ Top(t).err \in {"none", "corrupt", "closed", "absent"}
        /\ Top(t).next \in Nat \ {0} /\ Top(t).sources \in {"live", "nil"}
        /\ Top(t).obj \in Object
    BY <1>2 DEF FrameType
  <2>2. CASE Top(t).next > Len(Visible(t))
    <3>1. PICK r \in Result \ {"none"} : result' = [result EXCEPT ![t] = r]
      BY <1>5, <2>1, <2>2 DEF Scan, Yield, Result
    <3>2. pc' = [pc EXCEPT ![t] = "done"] /\ "done" \in Label
      BY <1>5, <2>1, <2>2, CopiesOf DEF Scan, Goto, Label, Visible
    <3>3. ThreadType(t)' /\ OthersKept(t) /\ result' \in [Thread -> Result]
      BY <1>1, <1>2, <3>1, <3>2 DEF TypeInv, ThreadType, OthersKept
    <3>4. QED
      BY <1>1, <1>3, <3>2, <3>3, ThreadStep DEF TypeInv
  <2>3. CASE Top(t).next <= Len(Visible(t))
    <3>1. pc[t] = "scan" /\ pc' = [pc EXCEPT ![t] = "io"] /\ "io" \in Label /\ result' = result
      BY <1>5, <2>1, <2>3, CopiesOf, EmptySeq DEF Scan, Goto, Label, Visible
    <3>2. Top(t).sources = "live" /\ Top(t).next <= Len(Copies[Top(t).obj])
      BY <2>1, <2>3, EmptySeq DEF Visible
    <3>3. Top(t)' = Top(t)
      BY <1>1 DEF Top, Level
    <3>4. ThreadType(t)' /\ OthersKept(t)
      BY <1>1, <1>2, <3>1, <3>2, <3>3 DEF TypeInv, ThreadType, OthersKept
    <3>5. QED
      BY <1>1, <1>3, <3>1, <3>4, ThreadStep DEF TypeInv
  <2>4. QED
    BY <1>5, <2>2, <2>3 DEF Scan
<1>6. QED
  BY <1>1, <1>3, <1>4, <1>5, ThreadStep DEF TypeInv

\* A copy that fails sends the read on, with the error it had or this one.
LEMMA FailEffect ==
  ASSUME TypeInv, NEW t \in Thread, pc[t] = "io", Fail(t, "corrupt")
  PROVE  /\ stack' \in [Thread -> Seq(FrameType)] /\ stack'[t] # << >>
         /\ \A u \in Thread : u # t => stack'[u] = stack[u]
         /\ Level(t)' = Level(t) /\ Top(t)' = CopyFails(Top(t), "corrupt")
         /\ \A l \in 1 .. Level(t) - 1 : stack'[t][l] = stack[t][l]
         /\ result' = result /\ pc' = [pc EXCEPT ![t] = "scan"]
<1>1. CopyFails(Top(t), "corrupt") \in FrameType
  BY CurrentCopy, CopyFailsEffect
<1>2. QED
  BY <1>1, SetTopEffect DEF Fail, Goto

\* The nested read of a base starts on top of the read of the delta.
LEMMA NestEffect ==
  ASSUME TypeInv, NEW t \in Thread, pc[t] = "io", ~TooDeep(t),
         stack' = [stack EXCEPT ![t] = Append(@,
           Frame(Current(t).base, Top(t).depth + Current(t).hops + 1))]
  PROVE  /\ stack' \in [Thread -> Seq(FrameType)] /\ stack'[t] # << >>
         /\ \A u \in Thread : u # t => stack'[u] = stack[u]
         /\ Level(t)' = Level(t) + 1
         /\ Top(t)' = Frame(Current(t).base, Top(t).depth + Current(t).hops + 1)
         /\ Top(t)' \in FrameType
         /\ \A l \in 1 .. Level(t) : stack'[t][l] = stack[t][l]
<1>1. Current(t).base \in Object /\ Current(t).hops \in Nat
      /\ Top(t).depth \in 0 .. MaxDeltaDepth + 1
  BY CurrentCopy DEF Copy, FrameType
<1>2. Top(t).depth + Current(t).hops + 1 \in 0 .. MaxDeltaDepth + 1
  BY <1>1, DepthAssumption DEF TooDeep
<1>3. Frame(Current(t).base, Top(t).depth + Current(t).hops + 1) \in FrameType
  BY <1>1, <1>2, NewFrame
<1>4. QED
  BY <1>3, PushEffect

\* Registering a read gives its frame the sources and changes nothing else.
LEMMA RegisterEffect ==
  ASSUME TypeInv, NEW t \in Thread, Register(t)
  PROVE  LET f == [Top(t) EXCEPT !.sources = fields]
         IN  /\ stack' \in [Thread -> Seq(FrameType)] /\ stack'[t] # << >>
             /\ \A u \in Thread : u # t => stack'[u] = stack[u]
             /\ Level(t)' = Level(t) /\ Top(t)' = f
             /\ \A l \in 1 .. Level(t) - 1 : stack'[t][l] = stack[t][l]
             /\ f \in FrameType /\ f.sources = fields /\ f.obj = Top(t).obj
             /\ f.depth = Top(t).depth /\ f.next = Top(t).next /\ f.err = Top(t).err
<1>1. pc[t] = "add" /\ Top(t) \in FrameType /\ fields \in {"live", "nil"}
  BY TopFrame DEF TypeInv, Register
<1>2. LET f == [Top(t) EXCEPT !.sources = fields]
      IN  /\ f \in FrameType /\ f.sources = fields /\ f.obj = Top(t).obj
          /\ f.depth = Top(t).depth /\ f.next = Top(t).next /\ f.err = Top(t).err
  BY <1>1 DEF FrameType
<1>3. QED
  BY <1>1, <1>2, SetTopEffect DEF Register

\* The steps that change the stack of a goroutine keep the types.
LEMMA StackTyped ==
  ASSUME TypeInv, NEW t \in Thread,
         Register(t) \/ ReadLoose(t) \/ ReadPacked(t) \/ ReturnCall(t) \/ ReturnBase(t)
  PROVE  TypeInv'
<1>1. /\ pc[t] \in Label \ {"idle"} /\ call' = call
      /\ UNCHANGED << writer, closed, fields, open, cpc >>
      /\ readers' \subseteq Thread
  BY DEF Register, ReadLoose, ReadPacked, ReturnCall, ReturnBase, mu, Label, TypeInv
<1>2. /\ stack[t] # << >> /\ call[t] \in Call /\ Top(t) \in FrameType
      /\ Level(t) \in Nat \ {0}
  BY <1>1, TopFrame DEF TypeInv, ThreadType
<1>3. inflight' \subseteq Thread \X (Nat \ {0})
  BY <1>2 DEF TypeInv, Register, ReadLoose, ReadPacked, ReturnCall, ReturnBase
<1>4. ASSUME NEW label \in Label, pc' = [pc EXCEPT ![t] = label],
             stack' \in [Thread -> Seq(FrameType)], result' \in [Thread -> Result],
             \A u \in Thread : u # t => stack'[u] = stack[u] /\ result'[u] = result[u],
             ThreadType(t)'
      PROVE  TypeInv'
  <2>1. OthersKept(t)
    BY <1>1, <1>4 DEF OthersKept, TypeInv
  <2>2. call' \in [Thread -> {<< >>} \cup Call]
    BY <1>1 DEF TypeInv
  <2>3. QED
    BY <1>1, <1>3, <1>4, <2>1, <2>2, ThreadStep
<1>5. CASE Register(t)
  <2>2. /\ stack' \in [Thread -> Seq(FrameType)] /\ stack'[t] # << >>
        /\ \A u \in Thread : u # t => stack'[u] = stack[u]
    BY <1>5, RegisterEffect
  <2>3. ThreadType(t)' /\ pc' = [pc EXCEPT ![t] = "runlock"] /\ result' = result
    BY <1>1, <1>2, <1>5, <2>2 DEF Register, Goto, TypeInv, ThreadType
  <2>4. QED
    BY <1>4, <2>2, <2>3 DEF TypeInv, Label
<1>6. ASSUME pc[t] = "io", Fail(t, "corrupt") PROVE TypeInv'
  <2>1. ThreadType(t)'
    BY <1>1, <1>2, <1>6, FailEffect DEF TypeInv, ThreadType
  <2>2. QED
    BY <1>4, <1>6, <2>1, FailEffect DEF TypeInv, Label
<1>7. ASSUME pc[t] = "io", stack' = stack, Goto(t, "done"),
             NEW r \in {"found", "panic"}, Yield(t, r)
      PROVE  TypeInv'
  <2>1. ThreadType(t)' /\ result' \in [Thread -> Result]
    BY <1>1, <1>2, <1>7 DEF TypeInv, ThreadType, Goto, Yield, Result
  <2>2. QED
    BY <1>4, <1>7, <2>1 DEF TypeInv, Label, Goto, Yield
<1>8. CASE ReadLoose(t)
  BY <1>6, <1>7, <1>8 DEF ReadLoose, Succeed
<1>9. CASE ReadPacked(t)
  <2>1. CASE /\ ~TooDeep(t) /\ Current(t).kind = "ref"
             /\ stack' = [stack EXCEPT ![t] = Append(@,
                  Frame(Current(t).base, Top(t).depth + Current(t).hops + 1))]
             /\ UNCHANGED result /\ Goto(t, "rlock")
    <3>1. pc[t] = "io"
      BY <1>9 DEF ReadPacked
    <3>2. ThreadType(t)'
      BY <1>1, <1>2, <2>1, <3>1, NestEffect DEF TypeInv, ThreadType, Goto
    <3>3. QED
      BY <1>4, <2>1, <3>1, <3>2, NestEffect DEF TypeInv, Label, Goto
  <2>2. QED
    BY <1>6, <1>7, <1>9, <2>1 DEF ReadPacked, Succeed
<1>10. CASE ReturnCall(t)
  <2>1. /\ stack' = [stack EXCEPT ![t] = << >>] /\ pc' = [pc EXCEPT ![t] = "idle"]
        /\ result' = result /\ << >> \in Seq(FrameType)
    BY <1>10, EmptySeq DEF ReturnCall, Goto
  <2>2. ThreadType(t)' /\ stack' \in [Thread -> Seq(FrameType)]
    BY <1>1, <2>1 DEF TypeInv, ThreadType
  <2>3. QED
    BY <1>4, <2>1, <2>2 DEF TypeInv, Label
<1>11. CASE ReturnBase(t)
  <2>1. ThreadType(t)' /\ result' \in [Thread -> Result]
    BY <1>1, <1>2, <1>11, ReturnBaseEffect DEF TypeInv, ThreadType, Result
  <2>2. \A u \in Thread : u # t => stack'[u] = stack[u] /\ result'[u] = result[u]
    BY <1>11, ReturnBaseEffect DEF TypeInv
  <2>3. QED
    BY <1>4, <1>11, <2>1, <2>2, ReturnBaseEffect DEF Label
<1>12. QED
  BY <1>1, <1>5, <1>8, <1>9, <1>10, <1>11

\* The steps of Close keep the types.
LEMMA CloseTyped ==
  ASSUME TypeInv, NEW c \in ClosingThread, CallClose(c) \/ Close(c)
  PROVE  TypeInv'
<1>1. /\ UNCHANGED << readers, inflight, pc, stack, result, call >>
      /\ writer' \in ClosingThread \cup {NoOne} /\ closed' \in BOOLEAN
      /\ fields' \in {"live", "nil"} /\ open' \subseteq Pack
      /\ cpc' \in [ClosingThread -> Closing]
  BY DEF TypeInv, Closing, CallClose, Close, AwaitLock, TakeSources, AwaitReads, ReleasePack,
         ReturnClose, CGoto, mu
<1>2. \A t \in Thread : ThreadType(t)'
  BY <1>1 DEF TypeInv, ThreadType, Top, Level
<1>3. QED
  BY <1>1, <1>2 DEF TypeInv

\* Every step keeps the types.
LEMMA NextTypeInv == ASSUME TypeInv, [Next]_vars PROVE TypeInv'
<1>1. CASE UNCHANGED vars
  BY <1>1 DEF vars, TypeInv, ThreadType, Top, Level
<1>2. ASSUME NEW t \in Thread, Invoke(t) \/ Read(t) PROVE TypeInv'
  BY <1>2, InvokeTyped, PlainTyped, StackTyped DEF Read
<1>3. QED
  BY <1>1, <1>2, CloseTyped DEF Next

\* Every state of every behaviour is typed.
LEMMA AlwaysTypeInv == Spec => []TypeInv
<1>1. QED
  BY InitTypeInv, NextTypeInv, PTL DEF Spec

(***************************************************************************)
(* The values of the reader stay in range: in particular no chain of reads *)
(* goes deeper than the limit, and a goroutine has a stack exactly while   *)
(* it is in a call.                                                        *)
(***************************************************************************)
THEOREM ReaderTypeCorrect == Spec => []TypeOK
<1>1. TypeInv => TypeOK
  BY DEF TypeInv, TypeOK, ThreadType, Label, Closing, Result, Call
<1>2. QED
  BY <1>1, AlwaysTypeInv, PTL

-----------------------------------------------------------------------------
(* Close and the reads in flight.                                          *)

\* What a goroutine has registered depends on its own values only.
LEMMA RegisteredKept ==
  ASSUME NEW u \in Thread, ReadsRegistered(u),
         pc'[u] = pc[u], stack'[u] = stack[u], result'[u] = result[u],
         \A k \in Nat \ {0} : << u, k >> \in inflight' <=> << u, k >> \in inflight
  PROVE  ReadsRegistered(u)'
BY DEF ReadsRegistered, Registered, Level

\* A step of t outside Close preserves LockInv if it preserves t's part of it.
LEMMA ReaderKeepsLock ==
  ASSUME TypeInv, LockInv, NEW t \in Thread, OthersKept(t), TypeInv',
         UNCHANGED << writer, closed, fields, open, cpc >>,
         inflight' \subseteq inflight \cup {<< t, Level(t) >>},
         \A u \in Thread, k \in Nat \ {0} :
           u # t => (<< u, k >> \in inflight' <=> << u, k >> \in inflight),
         readers' = IF pc'[t] \in {"check", "add", "runlock"} THEN readers \cup {t}
                                                             ELSE readers \ {t},
         pc'[t] = "add" \/ << t, Level(t) >> \in inflight' \ inflight => ~closed,
         ReadsRegistered(t)'
  PROVE  LockInv'
<1>1. ASSUME NEW u \in Thread PROVE ReadsRegistered(u)'
  BY RegisteredKept DEF LockInv, OthersKept
<1>2. readers' = { u \in Thread : pc'[u] \in {"check", "add", "runlock"} }
  BY DEF LockInv, OthersKept
<1>3. \A u \in Thread : pc'[u] = "add" => ~closed'
  BY DEF LockInv, OthersKept
<1>4. open' # Pack \/ (\E c \in ClosingThread : cpc'[c] = "release") =>
        closed' /\ inflight' = {}
  BY DEF LockInv
<1>5. QED
  BY <1>1, <1>2, <1>3, <1>4 DEF LockInv

\* The goroutines that read preserve LockInv.
LEMMA ReadersLockInv ==
  ASSUME TypeInv, LockInv, TypeInv', NEW t \in Thread, Invoke(t) \/ Read(t)
  PROVE  LockInv'
<1>1. /\ UNCHANGED << writer, closed, fields, open, cpc >>
      /\ pc \in [Thread -> Label] /\ stack \in [Thread -> Seq(FrameType)]
      /\ result \in [Thread -> Result] /\ ReadsRegistered(t)
      /\ readers = { u \in Thread : pc[u] \in {"check", "add", "runlock"} }
      /\ inflight \subseteq Thread \X (Nat \ {0})
  BY DEF Invoke, Read, RLock, CheckClosed, Register, RUnlock, Claimed, Scan, ReadLoose,
         ReadPacked, Unregister, ReturnCall, ReturnBase, mu, LockInv, TypeInv
<1>2. ASSUME pc[t] # "idle" PROVE Level(t) \in Nat \ {0} /\ stack[t] # << >>
  BY <1>2, TopFrame
<1>3. CASE Invoke(t)
  <2>1. PICK o \in Object : stack' = [stack EXCEPT ![t] = << Frame(o, 0) >>]
    BY <1>3 DEF Invoke
  <2>2. Level(t) = 0 /\ Level(t)' = 1
    BY <1>1, <1>3, <2>1 DEF Invoke, Level, TypeInv, ThreadType
  <2>3. OthersKept(t) /\ pc'[t] = "rlock" /\ inflight' = inflight
    BY <1>1, <1>3, <2>1 DEF Invoke, Goto, Yield, TypeInv, OthersKept
  <2>4. ReadsRegistered(t)'
    BY <1>1, <2>2, <2>3 DEF ReadsRegistered, Registered
  <2>5. readers' = readers /\ t \notin readers
    BY <1>1, <1>3 DEF Invoke, mu
  <2>6. QED
    BY <1>1, <2>3, <2>4, <2>5, ReaderKeepsLock
<1>4. CASE RLock(t) \/ CheckClosed(t) \/ RUnlock(t) \/ Claimed(t) \/ Scan(t)
  <2>1. /\ stack' = stack /\ inflight' = inflight /\ call' = call /\ Level(t)' = Level(t)
        /\ OthersKept(t)
    BY <1>1, <1>4 DEF RLock, CheckClosed, RUnlock, Claimed, Scan, Level, OthersKept, Goto, Yield
  <2>2. ThreadType(t) /\ ThreadType(t)'
    BY DEF TypeInv
  <2>3. /\ Registered(t)' <=> Registered(t)
        /\ pc'[t] = "add" => ~closed
        /\ readers' = IF pc'[t] \in {"check", "add", "runlock"} THEN readers \cup {t}
                                                               ELSE readers \ {t}
    <3>1. CASE RLock(t)
      BY <1>1, <3>1 DEF RLock, Goto, Registered
    <3>2. CASE CheckClosed(t)
      BY <1>1, <2>2, <3>2 DEF CheckClosed, Goto, Yield, Registered, mu, ThreadType
    <3>3. CASE RUnlock(t)
      BY <1>1, <2>2, <3>3 DEF RUnlock, Goto, Registered, ThreadType
    <3>4. CASE Claimed(t) \/ Scan(t)
      BY <1>1, <3>4 DEF Claimed, Scan, Goto, Registered, mu
    <3>5. QED
      BY <1>4, <3>1, <3>2, <3>3, <3>4
  <2>4. ReadsRegistered(t)'
    BY <1>1, <2>1, <2>3 DEF ReadsRegistered
  <2>5. QED
    BY <1>1, <2>1, <2>3, <2>4, ReaderKeepsLock
<1>5. CASE Register(t)
  <2>1. /\ pc[t] = "add" /\ pc' = [pc EXCEPT ![t] = "runlock"] /\ result' = result
        /\ inflight' = inflight \cup {<< t, Level(t) >>} /\ readers' = readers
        /\ call' = call
    BY <1>5 DEF Register, Goto, mu
  <2>3. Level(t)' = Level(t) /\ OthersKept(t)
    BY <1>1, <1>5, <2>1, RegisterEffect DEF OthersKept
  <2>4. result[t] = "none" /\ ~closed
    BY <2>1 DEF TypeInv, ThreadType, LockInv
  <2>5. ReadsRegistered(t)'
    BY <1>1, <1>2, <2>1, <2>3, <2>4 DEF ReadsRegistered, Registered
  <2>6. QED
    BY <1>1, <2>1, <2>3, <2>4, <2>5, ReaderKeepsLock
<1>6. CASE ReadLoose(t) \/ ReadPacked(t)
  <2>1. /\ pc[t] = "io" /\ inflight' = inflight /\ readers' = readers /\ call' = call
    BY <1>6 DEF ReadLoose, ReadPacked, mu
  <2>2. \/ Fail(t, "corrupt")
        \/ /\ stack' = stack /\ Goto(t, "done")
           /\ \E r \in {"found", "panic"} : Yield(t, r)
        \/ /\ ~TooDeep(t) /\ UNCHANGED result /\ Goto(t, "rlock")
           /\ stack' = [stack EXCEPT ![t] = Append(@,
                Frame(Current(t).base, Top(t).depth + Current(t).hops + 1))]
    BY <1>6 DEF ReadLoose, ReadPacked, Succeed
  <2>3. /\ OthersKept(t) /\ pc'[t] \notin {"check", "add", "runlock"}
        /\ \/ pc'[t] \in {"scan", "done"} /\ Level(t)' = Level(t)
           \/ pc'[t] = "rlock" /\ Level(t)' = Level(t) + 1
    <3>1. CASE Fail(t, "corrupt")
      BY <1>1, <2>1, <3>1, FailEffect DEF OthersKept
    <3>2. CASE stack' = stack /\ Goto(t, "done") /\ \E r \in {"found", "panic"} : Yield(t, r)
      BY <1>1, <2>1, <3>2 DEF OthersKept, Goto, Yield, Level
    <3>3. CASE /\ ~TooDeep(t) /\ UNCHANGED result /\ Goto(t, "rlock")
               /\ stack' = [stack EXCEPT ![t] = Append(@,
                    Frame(Current(t).base, Top(t).depth + Current(t).hops + 1))]
      BY <1>1, <2>1, <3>3, NestEffect DEF OthersKept, Goto
    <3>4. QED
      BY <2>2, <3>1, <3>2, <3>3
  <2>4. ReadsRegistered(t)'
    BY <1>1, <1>2, <2>1, <2>3 DEF ReadsRegistered, Registered
  <2>5. QED
    BY <1>1, <2>1, <2>3, <2>4, ReaderKeepsLock
<1>7. CASE Unregister(t)
  <2>1. /\ pc[t] = "done" /\ pc' = [pc EXCEPT ![t] = "return"] /\ result' = result
        /\ inflight' = inflight \ {<< t, Level(t) >>} /\ readers' = readers
        /\ call' = call /\ stack' = stack /\ Level(t)' = Level(t)
    BY <1>7 DEF Unregister, Goto, mu, Level
  <2>2. ReadsRegistered(t)'
    BY <1>1, <1>2, <2>1 DEF ReadsRegistered, Registered
  <2>3. OthersKept(t)
    BY <1>1, <2>1 DEF OthersKept
  <2>4. QED
    BY <1>1, <2>1, <2>2, <2>3, ReaderKeepsLock
<1>8. CASE ReturnCall(t)
  <2>1. /\ pc[t] = "return" /\ pc' = [pc EXCEPT ![t] = "idle"] /\ result' = result
        /\ inflight' = inflight /\ readers' = readers /\ call' = call
        /\ Level(t) = 1 /\ stack' = [stack EXCEPT ![t] = << >>]
    BY <1>8 DEF ReturnCall, Goto, mu
  <2>2. Level(t)' = 0 /\ OthersKept(t)
    BY <1>1, <2>1, EmptySeq DEF Level, OthersKept
  <2>3. ReadsRegistered(t)'
    BY <1>1, <2>1, <2>2 DEF ReadsRegistered, Registered
  <2>4. QED
    BY <1>1, <2>1, <2>2, <2>3, ReaderKeepsLock
<1>9. CASE ReturnBase(t)
  <2>1. /\ inflight' = inflight /\ readers' = readers /\ call' = call
    BY <1>9 DEF ReturnBase, mu
  <2>2. /\ pc[t] = "return" /\ pc'[t] \in {"scan", "done"} /\ Level(t)' = Level(t) - 1
        /\ OthersKept(t)
    BY <1>1, <1>9, <2>1, ReturnBaseEffect DEF OthersKept
  <2>3. ReadsRegistered(t)'
    BY <1>1, <1>2, <2>1, <2>2 DEF ReadsRegistered, Registered
  <2>4. QED
    BY <1>1, <2>1, <2>2, <2>3, ReaderKeepsLock
<1>10. QED
  BY <1>3, <1>4, <1>5, <1>6, <1>7, <1>8, <1>9 DEF Read

\* The goroutines that close preserve LockInv.
LEMMA ClosersLockInv ==
  ASSUME TypeInv, LockInv, NEW c \in ClosingThread, CallClose(c) \/ Close(c)
  PROVE  LockInv'
<1>1. /\ UNCHANGED << readers, inflight, pc, stack, result, call >>
      /\ cpc \in [ClosingThread -> Closing] /\ writer \in ClosingThread \cup {NoOne}
  BY DEF TypeInv, CallClose, Close, AwaitLock, TakeSources, AwaitReads, ReleasePack,
         ReturnClose, mu
<1>2. \A t \in Thread : ReadsRegistered(t)'
  BY <1>1, RegisteredKept DEF LockInv
<1>3. readers' = { t \in Thread : pc'[t] \in {"check", "add", "runlock"} }
  BY <1>1 DEF LockInv
<1>4. CASE CallClose(c)
  <2>1. UNCHANGED << writer, closed, fields, open >> /\ cpc' = [cpc EXCEPT ![c] = "called"]
        /\ cpc[c] = "idle"
    BY <1>4 DEF CallClose, CGoto, mu
  <2>2. QED
    BY <1>1, <1>2, <1>3, <2>1 DEF LockInv
<1>5. CASE AwaitLock(c)
  <2>1. /\ UNCHANGED << closed, fields, open >> /\ cpc' = [cpc EXCEPT ![c] = "lock"]
        /\ cpc[c] = "called" /\ writer = NoOne /\ writer' = c
    BY <1>5 DEF AwaitLock, CGoto
  <2>2. \A d \in ClosingThread : cpc'[d] = "lock" <=> writer' = d
    BY <1>1, <2>1, NoOneAssumption DEF LockInv
  <2>3. QED
    BY <1>1, <1>2, <1>3, <2>1, <2>2 DEF LockInv
<1>6. CASE TakeSources(c)
  <2>1. /\ cpc[c] = "lock" /\ readers = {} /\ writer' = NoOne /\ open' = open
        /\ \/ closed /\ UNCHANGED << closed, fields >> /\ cpc' = [cpc EXCEPT ![c] = "returned"]
           \/ closed' = TRUE /\ fields' = "nil" /\ cpc' = [cpc EXCEPT ![c] = "wait"]
    BY <1>6 DEF TakeSources, CGoto
  <2>2. \A d \in ClosingThread : cpc'[d] = "lock" <=> writer' = d
    BY <1>1, <2>1, NoOneAssumption DEF LockInv
  <2>3. \A t \in Thread : pc'[t] # "add"
    BY <1>1, <2>1 DEF LockInv
  <2>4. closed' <=> fields' = "nil"
    BY <2>1 DEF LockInv
  <2>5. /\ \A d \in ClosingThread : cpc'[d] \in {"wait", "release"} => closed'
        /\ \A d \in ClosingThread : cpc'[d] = "release" => cpc[d] = "release"
    BY <1>1, <2>1 DEF LockInv
  <2>6. QED
    BY <1>1, <1>2, <1>3, <2>1, <2>2, <2>3, <2>4, <2>5 DEF LockInv
<1>7. CASE AwaitReads(c)
  <2>1. /\ UNCHANGED << writer, closed, fields, open >> /\ inflight = {}
        /\ cpc' = [cpc EXCEPT ![c] = "release"] /\ cpc[c] = "wait"
    BY <1>7 DEF AwaitReads, CGoto, mu
  <2>2. QED
    BY <1>1, <1>2, <1>3, <2>1 DEF LockInv
<1>8. CASE ReleasePack(c)
  <2>1. UNCHANGED << writer, closed, fields, cpc >> /\ cpc[c] = "release"
    BY <1>8 DEF ReleasePack, mu
  <2>2. closed /\ inflight = {}
    BY <2>1 DEF LockInv
  <2>3. QED
    BY <1>1, <1>2, <1>3, <2>1, <2>2 DEF LockInv
<1>9. CASE ReturnClose(c)
  <2>1. /\ UNCHANGED << writer, closed, fields, open >>
        /\ cpc' = [cpc EXCEPT ![c] = "returned"] /\ cpc[c] = "release"
    BY <1>9 DEF ReturnClose, CGoto, mu
  <2>2. closed /\ inflight = {}
    BY <2>1 DEF LockInv
  <2>3. QED
    BY <1>1, <1>2, <1>3, <2>1, <2>2 DEF LockInv
<1>10. QED
  BY <1>4, <1>5, <1>6, <1>7, <1>8, <1>9 DEF Close

\* LockInv holds at first.
LEMMA InitLockInv == Init => LockInv
<1> SUFFICES ASSUME Init PROVE LockInv
  OBVIOUS
<1>1. \A t \in Thread : stack[t] = << >> /\ pc[t] = "idle" /\ Level(t) = 0
  BY EmptySeq DEF Init, Level
<1>2. \A t \in Thread : ReadsRegistered(t)
  BY <1>1 DEF Init, ReadsRegistered, Registered
<1>3. \A c \in ClosingThread : writer # c /\ cpc[c] = "idle"
  BY NoOneAssumption DEF Init
<1>4. QED
  BY <1>1, <1>2, <1>3 DEF Init, LockInv

\* Every step preserves LockInv.
LEMMA NextLockInv == ASSUME TypeInv, LockInv, TypeInv', [Next]_vars PROVE LockInv'
<1>1. CASE UNCHANGED vars
  <2>1. \A t \in Thread : ReadsRegistered(t)'
    BY <1>1, RegisteredKept DEF LockInv, vars
  <2>2. QED
    BY <1>1, <2>1 DEF vars, LockInv
<1>2. CASE Next
  BY <1>2, ReadersLockInv, ClosersLockInv DEF Next
<1>3. QED
  BY <1>1, <1>2

\* Every state of every behaviour satisfies both invariants.
LEMMA AlwaysLockInv == Spec => [](TypeInv /\ LockInv)
<1>1. Init => TypeInv /\ LockInv
  BY InitTypeInv, InitLockInv
<1>2. TypeInv /\ LockInv /\ [Next]_vars => (TypeInv /\ LockInv)'
  BY NextTypeInv, NextLockInv
<1>3. QED
  BY <1>1, <1>2, PTL DEF Spec

(***************************************************************************)
(* "Close cannot pull a packfile out from under a read that is still       *)
(* running", with any number of goroutines reading and closing: a read     *)
(* that is about to touch a pack is in inflight, so no Close has come past *)
(* its wait, and none has released a pack.                                 *)
(***************************************************************************)
THEOREM NoReadOnReleasedPack == Spec => []NoReadOnClosedPack
<1>1. ASSUME TypeInv, LockInv, NEW t \in Thread, pc[t] = "io", Current(t).src # Loose
      PROVE  Current(t).src \in open
  <2>1. Current(t).src \in Pack
    BY <1>1, CurrentCopy DEF Copy
  <2>2. Level(t) \in Nat \ {0}
    BY <1>1, TopFrame
  <2>3. << t, Level(t) >> \in inflight
    BY <1>1, <2>2 DEF LockInv, ReadsRegistered, Registered
  <2>4. open = Pack
    BY <1>1, <2>3 DEF LockInv
  <2>5. QED
    BY <2>1, <2>4
<1>2. TypeInv /\ LockInv => NoReadOnClosedPack
  BY <1>1 DEF NoReadOnClosedPack
<1>3. QED
  BY <1>2, AlwaysLockInv, PTL

(***************************************************************************)
(* The wait group is used as its documentation demands: while a Close      *)
(* waits, the count never rises from zero, because a goroutine registers   *)
(* under the lock and only while the reader is open.                       *)
(***************************************************************************)
THEOREM WaitGroupNeverReused == Spec => NoAddDuringWait
<1> DEFINE Kept == (\E c \in ClosingThread : cpc[c] = "wait") /\ inflight = {} => inflight' = {}
<1>1. ASSUME TypeInv, LockInv, [Next]_vars, NEW c \in ClosingThread, cpc[c] = "wait",
             inflight = {}
      PROVE  inflight' = {}
  <2>1. closed
    BY <1>1 DEF LockInv
  <2>2. ASSUME NEW t \in Thread, Register(t) PROVE FALSE
    BY <1>1, <2>1, <2>2 DEF LockInv, Register
  <2>3. ASSUME NEW t \in Thread, Invoke(t) \/ Read(t) PROVE inflight' = {}
    BY <1>1, <2>2, <2>3 DEF Invoke, Read, RLock, CheckClosed, RUnlock, Claimed, Scan,
       ReadLoose, ReadPacked, Unregister, ReturnCall, ReturnBase
  <2>4. ASSUME NEW d \in ClosingThread, CallClose(d) \/ Close(d) PROVE inflight' = {}
    BY <1>1, <2>4 DEF CallClose, Close, AwaitLock, TakeSources, AwaitReads, ReleasePack,
       ReturnClose
  <2>5. QED
    BY <1>1, <2>3, <2>4 DEF Next, vars
<1>2. TypeInv /\ LockInv /\ [Next]_vars => [Kept]_vars
  BY <1>1
<1>3. QED
  BY <1>2, AlwaysLockInv, PTL DEF Spec, NoAddDuringWait

-----------------------------------------------------------------------------
(* What a read of an object yields.                                        *)

Decisive == {"found", "panic"}
Answer   == Decisive \cup {"absent", "corrupt"}

\* Decide takes the first decisive outcome, else the first one.
LEMMA DecideEffect ==
  ASSUME NEW n \in Nat, NEW S, NEW out \in [1 .. n -> S]
  PROVE  /\ n = 0 => Decide(out) = "absent"
         /\ n > 0 /\ (\A i \in 1 .. n : out[i] \notin Decisive) => Decide(out) = out[1]
         /\ \A k \in 1 .. n :
              out[k] \in Decisive /\ (\A i \in 1 .. k - 1 : out[i] \notin Decisive)
                => Decide(out) = out[k]
         /\ n > 0 => \E i \in 1 .. n : Decide(out) = out[i]
<1> DEFINE D == { i \in 1 .. n : out[i] \in Decisive }
           First(k) == k \in D /\ \A i \in D : k <= i
<1>1. out = << >> <=> n = 0
  <2>1. out \in Seq(S) /\ Len(out) = n
    BY IsASeq, LenProperties
  <2>2. QED
    BY <2>1, EmptySeq
<1>2. n = 0 => Decide(out) = "absent"
  BY <1>1 DEF Decide
<1>3. n > 0 /\ D = {} => Decide(out) = out[1]
  BY <1>1 DEF Decide, Decisive
<1>4. ASSUME NEW k, First(k) PROVE Decide(out) = out[k]
  <2>1. Decide(out) = out[CHOOSE i \in D : \A j \in D : i <= j]
    BY <1>1, <1>4 DEF Decide, Decisive
  <2>2. \A i \in D : (\A j \in D : i <= j) => i = k
    BY <1>4
  <2>3. (CHOOSE i \in D : \A j \in D : i <= j) = k
    BY <1>4, <2>2
  <2>4. QED
    BY <2>1, <2>3
<1>5. ASSUME NEW k \in 1 .. n, out[k] \in Decisive, \A i \in 1 .. k - 1 : out[i] \notin Decisive
      PROVE  Decide(out) = out[k]
  BY <1>4, <1>5
<1>6. D # {} => \E i \in 1 .. n : Decide(out) = out[i]
  <2>1. D \in SUBSET Nat
    OBVIOUS
  <2> HIDE DEF D
  <2>2. D # {} => \E k \in D : \A i \in D : k <= i
    BY <2>1, LeastElement
  <2>3. QED
    BY <1>4, <2>2 DEF D
<1>7. QED
  BY <1>2, <1>3, <1>5, <1>6

\* An outcome is an answer if the outcomes that lie deeper are.
LEMMA OutcomeAnswers ==
  ASSUME NEW o \in Object, NEW i \in DOMAIN Copies[o], NEW n \in 0 .. MaxDeltaDepth + 1,
         NEW g \in [0 .. MaxDeltaDepth + 1 -> [Object -> Answer]]
  PROVE  Outcome(Copies[o][i], n, g) \in Answer
<1> DEFINE c == Copies[o][i]
<1>1. /\ c.src = Loose => c.kind \in {"whole", "corrupt"}
      /\ c.hops \in Nat /\ c.base \in Object /\ c.kind \in {"whole", "corrupt", "panic", "ref"}
  <2>1. c.src = Loose => c.kind \in {"whole", "corrupt"}
    BY CopiesAssumption
  <2>2. c \in Copy
    BY CopiesOf
  <2>3. QED
    BY <2>1, <2>2 DEF Copy
<1> HIDE DEF c
<1>2. CASE c.src # Loose /\ n + c.hops > MaxDeltaDepth
  BY <1>2 DEF Outcome, Answer, c
<1>3. CASE ~(c.src # Loose /\ n + c.hops > MaxDeltaDepth) /\ c.kind = "ref"
  <2>1. n + c.hops + 1 \in 0 .. MaxDeltaDepth + 1
    BY <1>1, <1>3, DepthAssumption
  <2>2. Outcome(c, n, g) = g[n + c.hops + 1][c.base]
    BY <1>3 DEF Outcome
  <2>3. QED
    BY <1>1, <2>1, <2>2 DEF c
<1>4. CASE ~(c.src # Loose /\ n + c.hops > MaxDeltaDepth) /\ c.kind # "ref"
  BY <1>1, <1>4 DEF Outcome, Answer, Decisive, c
<1>5. QED
  BY <1>2, <1>3, <1>4

\* An outcome depends only on the outcomes that lie deeper.
LEMMA OutcomeLooksDeeper ==
  ASSUME NEW o \in Object, NEW i \in DOMAIN Copies[o], NEW n \in 0 .. MaxDeltaDepth + 1,
         NEW f, NEW g, \A k \in n + 1 .. MaxDeltaDepth + 1 : f[k] = g[k]
  PROVE  Outcome(Copies[o][i], n, f) = Outcome(Copies[o][i], n, g)
<1> DEFINE c == Copies[o][i]
<1>1. c.src = Loose => c.kind \in {"whole", "corrupt"}
  BY CopiesAssumption
<1>2. c.hops \in Nat
  BY CopiesOf DEF Copy
<1> HIDE DEF c
<1>3. CASE ~(c.src # Loose /\ n + c.hops > MaxDeltaDepth) /\ c.kind = "ref"
  <2>1. n + c.hops + 1 \in n + 1 .. MaxDeltaDepth + 1
    BY <1>1, <1>2, <1>3, DepthAssumption
  <2>2. QED
    BY <1>3, <2>1 DEF Outcome, c
<1>4. QED
  BY <1>3 DEF Outcome, c

\* What a read of o at depth n yields, in terms of what deeper reads yield.
Outcomes(g, n, o) == [i \in DOMAIN Copies[o] |-> Outcome(Copies[o][i], n, g)]
Resolved(g, n)    == [o \in Object |-> Decide(Outcomes(g, n, o))]

\* What a read yields is an answer if what deeper reads yield is.
LEMMA ResolvedAnswers ==
  ASSUME NEW n \in 0 .. MaxDeltaDepth + 1,
         NEW g \in [0 .. MaxDeltaDepth + 1 -> [Object -> Answer]]
  PROVE  Resolved(g, n) \in [Object -> Answer]
<1>1. ASSUME NEW o \in Object PROVE Decide(Outcomes(g, n, o)) \in Answer
  <2>1. DOMAIN Copies[o] = 1 .. Len(Copies[o]) /\ Len(Copies[o]) \in Nat
    BY CopiesOf
  <2>2. Outcomes(g, n, o) \in [1 .. Len(Copies[o]) -> Answer]
    BY <2>1, OutcomeAnswers DEF Outcomes
  <2>3. CASE Len(Copies[o]) = 0
    BY <2>1, <2>2, <2>3, DecideEffect DEF Answer
  <2>4. CASE Len(Copies[o]) > 0
    <3>1. \E i \in 1 .. Len(Copies[o]) : Decide(Outcomes(g, n, o)) = Outcomes(g, n, o)[i]
      BY <2>1, <2>2, <2>4, DecideEffect
    <3>2. QED
      BY <2>2, <3>1
  <2>5. QED
    BY <2>1, <2>3, <2>4
<1>2. QED
  BY <1>1 DEF Resolved

\* What a read yields depends only on what deeper reads yield.
LEMMA ResolvedLooksDeeper ==
  ASSUME NEW n \in 0 .. MaxDeltaDepth + 1, NEW f, NEW g,
         \A k \in n + 1 .. MaxDeltaDepth + 1 : f[k] = g[k]
  PROVE  Resolved(f, n) = Resolved(g, n)
<1>1. ASSUME NEW o \in Object PROVE Outcomes(f, n, o) = Outcomes(g, n, o)
  BY OutcomeLooksDeeper DEF Outcomes
<1>2. QED
  BY <1>1 DEF Resolved

\* Resolve satisfies the equation that defines it.
LEMMA ResolveDef ==
  /\ Resolve \in [0 .. MaxDeltaDepth + 1 -> [Object -> Answer]]
  /\ \A n \in 0 .. MaxDeltaDepth + 1, o \in Object :
       Resolve[n][o] = Decide(Outcomes(Resolve, n, o))
<1> DEFINE N == MaxDeltaDepth + 1
           V == [Object -> Answer]
           F == [g \in [0 .. N -> V] |-> [n \in 0 .. N |-> Resolved(g, n)]]
<1>1. N \in Nat
  BY DepthAssumption
<1>2. PICK v \in V : TRUE
  <2>1. [o \in Object |-> "absent"] \in V
    BY DEF Answer
  <2>2. QED
    BY <2>1
<1>3. /\ \A g \in [0 .. N -> V], n \in 0 .. N : Resolved(g, n) \in V
      /\ \A f, g, n : n \in 0 .. N /\ (\A k \in n + 1 .. N : f[k] = g[k]) =>
           Resolved(f, n) = Resolved(g, n)
  BY ResolvedAnswers, ResolvedLooksDeeper
<1> HIDE DEF V
<1>4. \A g \in [0 .. N -> V], n \in 0 .. N : F[g][n] = Resolved(g, n)
  OBVIOUS
<1> HIDE DEF F, N
<1>5. LooksAbove(F, N, V)
  BY <1>3, <1>4 DEF LooksAbove
<1>6. PICK f : Solves(f, F, N, V)
  BY <1>1, <1>2, <1>5, RecursionFromAbove
<1>7. f = [n \in 0 .. N |-> Resolved(f, n)]
  BY <1>4, <1>6 DEF Solves
<1>8. f = [depth \in 0 .. MaxDeltaDepth + 1 |->
             [o \in Object |->
                Decide([i \in DOMAIN Copies[o] |-> Outcome(Copies[o][i], depth, f)])]]
  BY <1>7 DEF N, Resolved, Outcomes
<1>9. Resolve = [n \in 0 .. N |-> Resolved(Resolve, n)]
  BY <1>8 DEF Resolve, N, Resolved, Outcomes
<1>10. \A n \in 0 .. N : Resolve[n] = Resolved(Resolve, n)
  BY <1>9
<1>11. \A n \in 0 .. N : Resolve[n] \in V
  <2> DEFINE G == {n \in 0 .. N : Resolve[n] \in V}
  <2>1. ASSUME NEW n \in 0 .. N, \A k \in n + 1 .. N : k \in G PROVE n \in G
    <3> DEFINE g == [k \in 0 .. N |-> IF k > n THEN Resolve[k] ELSE v]
    <3>1. g \in [0 .. N -> V]
      BY <1>1, <1>2, <2>1
    <3>2. \A k \in n + 1 .. N : Resolve[k] = g[k]
      BY <1>1
    <3> HIDE DEF g
    <3>3. Resolve[n] = Resolved(g, n)
      BY <1>3, <1>10, <3>2
    <3>4. QED
      BY <1>3, <3>1, <3>3
  <2> HIDE DEF G
  <2>2. \A n \in 0 .. N : n \in G
    BY <1>1, <2>1, InductionFromAbove
  <2>3. QED
    BY <2>2 DEF G
<1>12. Resolve \in [0 .. N -> V]
  BY <1>9, <1>11
<1>13. \A n \in 0 .. N, o \in Object : Resolve[n][o] = Decide(Outcomes(Resolve, n, o))
  BY <1>10 DEF Resolved
<1>14. QED
  BY <1>12, <1>13 DEF N, V

\* What a read of o at depth n may yield, in terms of what deeper reads may.
YieldsOf(g, n, o) ==
  {"closed"} \cup
  IF Copies[o] = << >> THEN {"absent"}
  ELSE UNION { MayYield(Copies[o][i], n, g) : i \in DOMAIN Copies[o] }

\* What a copy may yield is in range if what deeper reads may yield is.
LEMMA MayYieldAnswers ==
  ASSUME NEW o \in Object, NEW i \in DOMAIN Copies[o], NEW n \in 0 .. MaxDeltaDepth + 1,
         NEW g \in [0 .. MaxDeltaDepth + 1 -> [Object -> SUBSET (Answer \cup {"closed"})]]
  PROVE  MayYield(Copies[o][i], n, g) \subseteq Answer \cup {"closed"}
<1> DEFINE c == Copies[o][i]
<1>1. /\ c.src = Loose => c.kind \in {"whole", "corrupt"}
      /\ c.hops \in Nat /\ c.base \in Object /\ c.kind \in {"whole", "corrupt", "panic", "ref"}
  <2>1. c.src = Loose => c.kind \in {"whole", "corrupt"}
    BY CopiesAssumption
  <2>2. c \in Copy
    BY CopiesOf
  <2>3. QED
    BY <2>1, <2>2 DEF Copy
<1> HIDE DEF c
<1>2. CASE c.src # Loose /\ n + c.hops > MaxDeltaDepth
  BY <1>2 DEF MayYield, Answer, c
<1>3. CASE ~(c.src # Loose /\ n + c.hops > MaxDeltaDepth) /\ c.kind = "ref"
  <2>1. n + c.hops + 1 \in 0 .. MaxDeltaDepth + 1
    BY <1>1, <1>3, DepthAssumption
  <2>2. MayYield(c, n, g) = g[n + c.hops + 1][c.base]
    BY <1>3 DEF MayYield
  <2>3. QED
    BY <1>1, <2>1, <2>2 DEF c
<1>4. CASE ~(c.src # Loose /\ n + c.hops > MaxDeltaDepth) /\ c.kind # "ref"
  BY <1>1, <1>4 DEF MayYield, Answer, Decisive, c
<1>5. QED
  BY <1>2, <1>3, <1>4

\* What a copy may yield depends only on what deeper reads may yield.
LEMMA MayYieldLooksDeeper ==
  ASSUME NEW o \in Object, NEW i \in DOMAIN Copies[o], NEW n \in 0 .. MaxDeltaDepth + 1,
         NEW f, NEW g, \A k \in n + 1 .. MaxDeltaDepth + 1 : f[k] = g[k]
  PROVE  MayYield(Copies[o][i], n, f) = MayYield(Copies[o][i], n, g)
<1> DEFINE c == Copies[o][i]
<1>1. c.src = Loose => c.kind \in {"whole", "corrupt"}
  BY CopiesAssumption
<1>2. c.hops \in Nat
  BY CopiesOf DEF Copy
<1> HIDE DEF c
<1>3. CASE ~(c.src # Loose /\ n + c.hops > MaxDeltaDepth) /\ c.kind = "ref"
  <2>1. n + c.hops + 1 \in n + 1 .. MaxDeltaDepth + 1
    BY <1>1, <1>2, <1>3, DepthAssumption
  <2>2. QED
    BY <1>3, <2>1 DEF MayYield, c
<1>4. QED
  BY <1>3 DEF MayYield, c

\* Yields satisfies the equation that defines it.
LEMMA YieldsDef ==
  \A n \in 0 .. MaxDeltaDepth + 1, o \in Object : Yields[n][o] = YieldsOf(Yields, n, o)
<1> DEFINE N == MaxDeltaDepth + 1
           V == [Object -> SUBSET (Answer \cup {"closed"})]
           Row(g, n) == [o \in Object |-> YieldsOf(g, n, o)]
           F == [g \in [0 .. N -> V] |-> [n \in 0 .. N |-> Row(g, n)]]
<1>1. N \in Nat
  BY DepthAssumption
<1>2. V # {}
  <2>1. [o \in Object |-> {}] \in V
    OBVIOUS
  <2>2. QED
    BY <2>1
<1>3. ASSUME NEW g \in [0 .. N -> V], NEW n \in 0 .. N PROVE Row(g, n) \in V
  <2>1. ASSUME NEW o \in Object PROVE YieldsOf(g, n, o) \in SUBSET (Answer \cup {"closed"})
    <3>1. \A i \in DOMAIN Copies[o] :
            MayYield(Copies[o][i], n, g) \subseteq Answer \cup {"closed"}
      BY MayYieldAnswers
    <3>2. QED
      BY <3>1 DEF YieldsOf, Answer
  <2>2. QED
    BY <2>1
<1>4. ASSUME NEW g, NEW h, NEW n \in 0 .. N, \A k \in n + 1 .. N : g[k] = h[k]
      PROVE  Row(g, n) = Row(h, n)
  <2>1. ASSUME NEW o \in Object PROVE YieldsOf(g, n, o) = YieldsOf(h, n, o)
    <3>1. \A i \in DOMAIN Copies[o] :
            MayYield(Copies[o][i], n, g) = MayYield(Copies[o][i], n, h)
      BY <1>4, MayYieldLooksDeeper
    <3>2. { MayYield(Copies[o][i], n, g) : i \in DOMAIN Copies[o] }
            = { MayYield(Copies[o][i], n, h) : i \in DOMAIN Copies[o] }
      BY <3>1
    <3>3. QED
      BY <3>2 DEF YieldsOf
  <2>2. QED
    BY <2>1
<1> HIDE DEF V, Row
<1>5. \A g \in [0 .. N -> V], n \in 0 .. N : F[g][n] = Row(g, n)
  OBVIOUS
<1> HIDE DEF F, N
<1>6. LooksAbove(F, N, V)
  BY <1>3, <1>4, <1>5 DEF LooksAbove
<1>7. PICK f : Solves(f, F, N, V)
  BY <1>1, <1>2, <1>6, RecursionFromAbove
<1>8. f = [n \in 0 .. N |-> Row(f, n)]
  BY <1>5, <1>7 DEF Solves
<1> DEFINE Def(g) == [depth \in 0 .. MaxDeltaDepth + 1 |->
                        [o \in Object |->
                           {"closed"} \cup
                           IF Copies[o] = << >> THEN {"absent"}
                           ELSE UNION { MayYield(Copies[o][i], depth, g)
                                          : i \in DOMAIN Copies[o] }]]
<1>9. f = Def(f)
  BY <1>8 DEF N, Row, YieldsOf
<1>9a. Yields = CHOOSE g : g = Def(g)
  BY Zenon DEF Yields
<1> HIDE DEF Def
<1>9b. Yields = Def(Yields)
  BY <1>9, <1>9a, Zenon
<1>10. Yields = [n \in 0 .. N |-> Row(Yields, n)]
  BY <1>9b, Zenon DEF Def, N, Row, YieldsOf
<1>11. \A n \in 0 .. N : Yields[n] = Row(Yields, n)
  BY <1>10
<1>12. QED
  BY <1>11 DEF N, Row

-----------------------------------------------------------------------------
(* Calls return the truth.                                                 *)

\* What copy i of the object that frame f reads yields while nobody closes.
Out(f, i) == Outcome(Copies[f.obj][i], f.depth, Resolve)

(***************************************************************************)
(* The copies before the next one have all failed, and the error kept is   *)
(* that of the first: unless the reader is closed (cl), the errors are     *)
(* those of the copies.                                                    *)
(***************************************************************************)
FrameInv(f, cl) ==
  /\ f.next <= Len(Copies[f.obj]) + 1
  /\ f.err = "none" <=> f.next = 1
  /\ f.err # "none" => f.err \in Yields[f.depth][f.obj]
  /\ f.err = "closed" => cl
  /\ cl \/ \A i \in 1 .. f.next - 1 : Out(f, i) \notin Decisive
  /\ cl \/ f.next = 1 \/ f.err = Out(f, 1)

\* Frame g reads the base of the delta that frame f is at.
CallsFor(f, g) ==
  LET c == Copies[f.obj][f.next]
  IN  /\ f.sources = "live" /\ f.next <= Len(Copies[f.obj])
      /\ c.kind = "ref" /\ c.src # Loose /\ f.depth + c.hops <= MaxDeltaDepth
      /\ g.obj = c.base /\ g.depth = f.depth + c.hops + 1

\* r is a true answer to op on object o at depth d.
AnswerFor(op, r, o, d, cl) ==
  IF op = "has"
  THEN IF r = "found" THEN Copies[o] # << >> ELSE cl \/ Copies[o] = << >>
  ELSE r \in Yields[d][o] /\ (cl \/ r = Resolve[d][o])

(***************************************************************************)
(* Every read on the stack of t is at a copy that the copies before it     *)
(* lead to, asks for the base of the delta below it, and has the sources   *)
(* once it is registered; what the innermost one has decided is true.      *)
(***************************************************************************)
CallOf(t) ==
  /\ \A l \in 1 .. Level(t) : FrameInv(stack[t][l], closed)
  /\ \A l \in 1 .. Level(t) - 1 : CallsFor(stack[t][l], stack[t][l + 1])
  /\ pc[t] # "idle" => stack[t][1].obj = call[t].obj /\ stack[t][1].depth = 0
  /\ pc[t] # "idle" /\ call[t].op = "has" => Level(t) = 1 /\ pc[t] # "io"
  /\ Registered(t) => Top(t).sources = "live"
  /\ result[t] = "closed" => closed
  /\ pc[t] \in {"done", "return"} =>
       AnswerFor(call[t].op, result[t], Top(t).obj, Top(t).depth, closed)
  /\ Returned(t) => AnswerFor(call[t].op, result[t], call[t].obj, 0, closed)

CallInv == \A t \in Thread : CallOf(t)

\* What a read at frame f yields, by what its copies do.
LEMMA FrameAnswers ==
  ASSUME NEW f \in FrameType
  PROVE  LET n == Len(Copies[f.obj])
             r == Resolve[f.depth][f.obj]
         IN  /\ n = 0 => r = "absent"
             /\ n > 0 /\ (\A i \in 1 .. n : Out(f, i) \notin Decisive) => r = Out(f, 1)
             /\ \A k \in 1 .. n :
                  Out(f, k) \in Decisive /\ (\A i \in 1 .. k - 1 : Out(f, i) \notin Decisive)
                    => r = Out(f, k)
<1> DEFINE n == Len(Copies[f.obj])
           out == Outcomes(Resolve, f.depth, f.obj)
<1>1. f.obj \in Object /\ f.depth \in 0 .. MaxDeltaDepth + 1
  BY DEF FrameType
<1>2. n \in Nat /\ DOMAIN Copies[f.obj] = 1 .. n
  BY <1>1, CopiesOf
<1> HIDE DEF n
<1>3. out \in [1 .. n -> Answer] /\ \A i \in 1 .. n : out[i] = Out(f, i)
  BY <1>1, <1>2, OutcomeAnswers, ResolveDef DEF Outcomes, Out
<1>4. Resolve[f.depth][f.obj] = Decide(out)
  BY <1>1, ResolveDef
<1> HIDE DEF out
<1>5. /\ n = 0 => Decide(out) = "absent"
      /\ n > 0 /\ (\A i \in 1 .. n : out[i] \notin Decisive) => Decide(out) = out[1]
      /\ \A k \in 1 .. n :
           out[k] \in Decisive /\ (\A i \in 1 .. k - 1 : out[i] \notin Decisive)
             => Decide(out) = out[k]
  BY <1>2, <1>3, DecideEffect
<1>6. QED
  BY <1>2, <1>3, <1>4, <1>5 DEF n

\* What a read at frame f may yield.
LEMMA FrameYields ==
  ASSUME NEW f \in FrameType
  PROVE  /\ "closed" \in Yields[f.depth][f.obj]
         /\ Copies[f.obj] = << >> => "absent" \in Yields[f.depth][f.obj]
         /\ \A i \in 1 .. Len(Copies[f.obj]) :
              MayYield(Copies[f.obj][i], f.depth, Yields) \subseteq Yields[f.depth][f.obj]
<1>1. f.obj \in Object /\ f.depth \in 0 .. MaxDeltaDepth + 1
  BY DEF FrameType
<1>2. Yields[f.depth][f.obj] = YieldsOf(Yields, f.depth, f.obj)
  BY <1>1, YieldsDef
<1>3. DOMAIN Copies[f.obj] = 1 .. Len(Copies[f.obj])
  BY <1>1, CopiesOf
<1>4. (\E i \in 1 .. Len(Copies[f.obj]) : TRUE) => Copies[f.obj] # << >>
  BY <1>1, CopiesOf, EmptySeq
<1>5. QED
  BY <1>2, <1>3, <1>4 DEF YieldsOf

\* A frame that starts satisfies its invariant.
LEMMA FreshFrame ==
  ASSUME NEW o \in Object, NEW d \in 0 .. MaxDeltaDepth + 1, NEW cl \in BOOLEAN
  PROVE  FrameInv(Frame(o, d), cl)
BY NewFrame, CopiesOf DEF FrameInv

\* A copy that fails, with an error it may yield, leaves a frame in order.
LEMMA FailedFrame ==
  ASSUME NEW f \in FrameType, NEW e \in {"corrupt", "closed", "absent"}, NEW cl \in BOOLEAN,
         FrameInv(f, cl), f.next <= Len(Copies[f.obj]),
         e \in MayYield(Copies[f.obj][f.next], f.depth, Yields),
         cl \/ e = Out(f, f.next), e = "closed" => cl
  PROVE  FrameInv(CopyFails(f, e), cl)
<1> DEFINE g == CopyFails(f, e)
<1>1. /\ g.next = f.next + 1 /\ g.obj = f.obj /\ g.depth = f.depth
      /\ g.err = IF f.err = "none" THEN e ELSE f.err
  BY CopyFailsEffect
<1>2. f.next \in Nat \ {0} /\ Len(Copies[f.obj]) \in Nat
  BY CopiesOf DEF FrameType
<1>3. e \in Yields[f.depth][f.obj]
  <2>1. f.next \in 1 .. Len(Copies[f.obj])
    BY <1>2
  <2>2. QED
    BY <2>1, FrameYields
<1>4. \A i : Out(g, i) = Out(f, i)
  BY <1>1 DEF Out
<1> HIDE DEF g
<1>5. cl \/ \A i \in 1 .. g.next - 1 : Out(g, i) \notin Decisive
  <2> SUFFICES ASSUME ~cl, NEW i \in 1 .. g.next - 1 PROVE Out(f, i) \notin Decisive
    BY <1>4
  <2>1. i = f.next \/ i \in 1 .. f.next - 1
    BY <1>1, <1>2
  <2>2. CASE i = f.next
    BY <2>2 DEF Decisive
  <2>3. CASE i \in 1 .. f.next - 1
    BY <2>3 DEF FrameInv
  <2>4. QED
    BY <2>1, <2>2, <2>3
<1>6. cl \/ g.err = Out(g, 1)
  BY <1>1, <1>2, <1>4 DEF FrameInv
<1>7. FrameInv(g, cl)
  BY <1>1, <1>2, <1>3, <1>5, <1>6 DEF FrameInv
<1>8. QED
  BY <1>7 DEF g

\* A read that has run out of copies yields what the object yields.
LEMMA ExhaustedFrame ==
  ASSUME NEW f \in FrameType, NEW cl \in BOOLEAN, FrameInv(f, cl),
         f.next > Len(Copies[f.obj])
  PROVE  LET r == IF f.err = "none" THEN "absent" ELSE f.err
         IN  AnswerFor("read", r, f.obj, f.depth, cl) /\ (r = "closed" => cl)
<1>1. f.next \in Nat \ {0} /\ Len(Copies[f.obj]) \in Nat /\ f.obj \in Object
  BY CopiesOf DEF FrameType
<1>2. f.next = Len(Copies[f.obj]) + 1
  BY <1>1 DEF FrameInv
<1>3. CASE f.err = "none"
  <2>1. Len(Copies[f.obj]) = 0 /\ Copies[f.obj] = << >>
    BY <1>1, <1>2, <1>3, CopiesOf, EmptySeq DEF FrameInv
  <2>2. QED
    BY <1>3, <2>1, FrameAnswers, FrameYields DEF AnswerFor
<1>4. CASE f.err # "none"
  <2>1. Len(Copies[f.obj]) > 0
    BY <1>1, <1>2, <1>4 DEF FrameInv
  <2>2. cl \/ f.err = Resolve[f.depth][f.obj]
    BY <1>1, <1>2, <2>1, FrameAnswers DEF FrameInv
  <2>3. QED
    BY <1>4, <2>2 DEF AnswerFor, FrameInv
<1>5. QED
  BY <1>3, <1>4

\* A copy that decides a read decides it as the object does.
LEMMA DecidedFrame ==
  ASSUME NEW f \in FrameType, NEW cl \in BOOLEAN, FrameInv(f, cl),
         f.next <= Len(Copies[f.obj]), NEW r \in Decisive,
         r \in MayYield(Copies[f.obj][f.next], f.depth, Yields),
         cl \/ r = Out(f, f.next)
  PROVE  AnswerFor("read", r, f.obj, f.depth, cl)
<1>1. f.next \in 1 .. Len(Copies[f.obj])
  BY CopiesOf DEF FrameType
<1>2. r \in Yields[f.depth][f.obj]
  BY <1>1, FrameYields
<1>3. cl \/ r = Resolve[f.depth][f.obj]
  BY <1>1, FrameAnswers DEF FrameInv
<1>4. QED
  BY <1>2, <1>3 DEF AnswerFor

\* What the base of a delta yields is what the delta yields.
LEMMA BaseOutcome ==
  ASSUME NEW f \in FrameType, NEW g, CallsFor(f, g)
  PROVE  /\ Out(f, f.next) = Resolve[g.depth][g.obj]
         /\ MayYield(Copies[f.obj][f.next], f.depth, Yields) = Yields[g.depth][g.obj]
<1> DEFINE c == Copies[f.obj][f.next]
<1>1. f.next <= Len(Copies[f.obj]) /\ c.kind = "ref" /\ f.depth + c.hops <= MaxDeltaDepth
      /\ g.obj = c.base /\ g.depth = f.depth + c.hops + 1
  BY DEF CallsFor
<1>2. f.next \in 1 .. Len(Copies[f.obj]) /\ f.depth \in Nat /\ f.obj \in Object
  BY <1>1, CopiesOf DEF FrameType
<1>3. c \in Copy
  BY <1>2, CopiesOf
<1>4. c.hops \in Nat
  BY <1>3 DEF Copy
<1>5. ~(f.depth + c.hops > MaxDeltaDepth)
  BY <1>1, <1>2, <1>4, DepthAssumption
<1> HIDE DEF c
<1>6. Outcome(c, f.depth, Resolve) = Resolve[g.depth][g.obj]
  BY <1>1, <1>5 DEF Outcome
<1>7. MayYield(c, f.depth, Yields) = Yields[g.depth][g.obj]
  BY <1>1, <1>5 DEF MayYield
<1>8. QED
  BY <1>6, <1>7 DEF Out, c

\* A call of a closed reader is answered truly.
LEMMA ClosedAnswer ==
  ASSUME NEW f \in FrameType, NEW op
  PROVE  AnswerFor(op, "closed", f.obj, f.depth, TRUE)
BY FrameYields DEF AnswerFor

\* A read that starts preserves CallOf.
LEMMA InvokeCallOf ==
  ASSUME TypeInv, NEW t \in Thread, CallOf(t), Invoke(t)
  PROVE  CallOf(t)'
<1>1. PICK op \in {"read", "has"}, o \in Object :
        /\ call'  = [call  EXCEPT ![t] = [op |-> op, obj |-> o]]
        /\ stack' = [stack EXCEPT ![t] = << Frame(o, 0) >>]
  BY DEF Invoke
<1>2. /\ pc'[t] = "rlock" /\ result'[t] = "none" /\ stack'[t] = << Frame(o, 0) >>
      /\ call'[t].obj = o
  BY <1>1 DEF Invoke, Goto, Yield, TypeInv
<1>3. Level(t)' = 1 /\ stack'[t][1] = Frame(o, 0)
  BY <1>2 DEF Level
<1>4. Frame(o, 0).obj = o /\ Frame(o, 0).depth = 0
  BY NewFrame, DepthAssumption
<1>5. FrameInv(Frame(o, 0), closed')
  BY FreshFrame, DepthAssumption DEF Invoke, TypeInv
<1>6. QED
  BY <1>2, <1>3, <1>4, <1>5 DEF CallOf, Registered, Returned

\* The steps that leave the stack of t alone preserve CallOf.
LEMMA PlainCallOf ==
  ASSUME TypeInv, NEW t \in Thread, CallOf(t),
         RLock(t) \/ CheckClosed(t) \/ RUnlock(t) \/ Claimed(t) \/ Scan(t) \/ Unregister(t)
  PROVE  CallOf(t)'
<1>1. /\ stack' = stack /\ call' = call /\ closed' = closed /\ pc[t] # "idle"
      /\ pc[t] \in Label /\ pc \in [Thread -> Label] /\ result \in [Thread -> Result]
      /\ Level(t)' = Level(t) /\ Top(t)' = Top(t)
  BY DEF RLock, CheckClosed, RUnlock, Claimed, Scan, Unregister, TypeInv, Level, Top
<1>2. /\ Top(t) \in FrameType /\ Level(t) \in Nat \ {0} /\ call[t] \in Call
      /\ closed \in BOOLEAN /\ ThreadType(t) /\ Top(t).obj \in Object
  BY <1>1, TopFrame DEF TypeInv, ThreadType, FrameType
<1>3. FrameInv(Top(t), closed)
  BY <1>2 DEF CallOf, Top
<1>4. ASSUME pc'[t] # "idle",
             call[t].op = "has" => pc'[t] # "io",
             Registered(t)' => Registered(t),
             result'[t] = "closed" => closed,
             pc'[t] \in {"done", "return"} =>
               AnswerFor(call[t].op, result'[t], Top(t).obj, Top(t).depth, closed)
      PROVE  CallOf(t)'
  BY <1>1, <1>4 DEF CallOf, Returned
<1>5. CASE RLock(t)
  <2>1. pc'[t] = "check" /\ result' = result
    BY <1>1, <1>5 DEF RLock, Goto
  <2>2. QED
    BY <1>4, <2>1 DEF Registered, CallOf
<1>6. CASE CheckClosed(t)
  <2>1. \/ closed /\ result'[t] = "closed" /\ pc'[t] = "runlock"
        \/ result' = result /\ pc'[t] = "add"
    BY <1>1, <1>6 DEF CheckClosed, Goto, Yield
  <2>2. QED
    BY <1>4, <2>1 DEF Registered, CallOf
<1>7. CASE RUnlock(t)
  <2>1. /\ pc[t] = "runlock" /\ result' = result
        /\ pc'[t] = IF result[t] = "closed" THEN "return" ELSE "scan"
    BY <1>1, <1>7 DEF RUnlock, Goto
  <2>2. CASE result[t] = "closed"
    <3>1. closed = TRUE
      BY <1>2, <2>2 DEF CallOf
    <3>2. AnswerFor(call[t].op, "closed", Top(t).obj, Top(t).depth, closed)
      BY <1>2, <3>1, ClosedAnswer
    <3>3. QED
      BY <1>4, <2>1, <2>2, <3>1, <3>2 DEF Registered
  <2>3. CASE result[t] # "closed"
    BY <1>2, <1>4, <2>1, <2>3 DEF Registered, ThreadType
  <2>4. QED
    BY <2>2, <2>3
<1>8. CASE Claimed(t)
  <2>1. /\ pc[t] = "scan" /\ call[t].op = "has" /\ pc'[t] = "done"
        /\ result'[t] = IF Visible(t) # << >> THEN "found" ELSE "absent"
    BY <1>1, <1>8 DEF Claimed, Goto, Yield
  <2>2. Visible(t) = Copies[Top(t).obj]
    BY <2>1 DEF CallOf, Registered, Visible
  <2>3. AnswerFor(call[t].op, result'[t], Top(t).obj, Top(t).depth, closed)
    BY <2>1, <2>2 DEF AnswerFor
  <2>4. QED
    BY <1>4, <2>1, <2>3 DEF Registered
<1>9. CASE Scan(t)
  <2>1. /\ pc[t] = "scan" /\ call[t].op = "read"
        /\ \/ /\ Top(t).next > Len(Visible(t)) /\ pc'[t] = "done"
              /\ result'[t] = IF Top(t).err = "none" THEN "absent" ELSE Top(t).err
           \/ result' = result /\ pc'[t] = "io"
    BY <1>1, <1>9 DEF Scan, Goto, Yield
  <2>2. Visible(t) = Copies[Top(t).obj]
    BY <2>1 DEF CallOf, Registered, Visible
  <2>3. CASE /\ Top(t).next > Len(Visible(t)) /\ pc'[t] = "done"
             /\ result'[t] = IF Top(t).err = "none" THEN "absent" ELSE Top(t).err
    <3>1. AnswerFor("read", result'[t], Top(t).obj, Top(t).depth, closed)
          /\ (result'[t] = "closed" => closed)
      BY <1>2, <1>3, <2>2, <2>3, ExhaustedFrame
    <3>2. QED
      BY <1>4, <2>1, <2>3, <3>1 DEF Registered
  <2>4. CASE result' = result /\ pc'[t] = "io"
    BY <1>4, <2>1, <2>4 DEF Registered, CallOf
  <2>5. QED
    BY <2>1, <2>3, <2>4
<1>10. CASE Unregister(t)
  <2>1. pc[t] = "done" /\ pc'[t] = "return" /\ result' = result
    BY <1>1, <1>10 DEF Unregister, Goto
  <2>2. QED
    BY <1>4, <2>1 DEF Registered, CallOf
<1>11. QED
  BY <1>5, <1>6, <1>7, <1>8, <1>9, <1>10

\* A step that puts a frame as good on top, at level n, preserves CallOf.
LEMMA TopReplaced ==
  ASSUME TypeInv, NEW t \in Thread, CallOf(t), pc[t] # "idle", closed' = closed, call' = call,
         NEW n \in 1 .. Level(t), NEW f \in FrameType, Level(t)' = n, Top(t)' = f,
         \A l \in 1 .. n - 1 : stack'[t][l] = stack[t][l],
         FrameInv(f, closed), f.obj = stack[t][n].obj, f.depth = stack[t][n].depth,
         f.sources = "live", result'[t] # "closed", pc'[t] \in {"runlock", "scan", "done"},
         pc'[t] = "done" => AnswerFor(call[t].op, result'[t], f.obj, f.depth, closed)
  PROVE  CallOf(t)'
<1>1. Level(t) \in Nat \ {0} /\ n \in Nat \ {0}
  BY TopFrame
<1>2. stack'[t][n] = f
  BY DEF Top, Level
<1>3. \A l \in 1 .. n : FrameInv(stack'[t][l], closed)
  <2> SUFFICES ASSUME NEW l \in 1 .. n PROVE FrameInv(stack'[t][l], closed)
    OBVIOUS
  <2>1. CASE l = n
    BY <1>2, <2>1
  <2>2. CASE l # n
    BY <1>1, <2>2 DEF CallOf
  <2>3. QED
    BY <2>1, <2>2
<1>4. \A l \in 1 .. n - 1 : CallsFor(stack'[t][l], stack'[t][l + 1])
  <2> SUFFICES ASSUME NEW l \in 1 .. n - 1 PROVE CallsFor(stack'[t][l], stack'[t][l + 1])
    OBVIOUS
  <2>1. CallsFor(stack[t][l], stack[t][l + 1]) /\ stack'[t][l] = stack[t][l]
    BY <1>1 DEF CallOf
  <2>2. CASE l + 1 = n
    BY <1>2, <2>1, <2>2 DEF CallsFor
  <2>3. CASE l + 1 # n
    BY <1>1, <2>1, <2>3
  <2>4. QED
    BY <2>2, <2>3
<1>5. stack'[t][1].obj = stack[t][1].obj /\ stack'[t][1].depth = stack[t][1].depth
  <2>1. CASE n = 1
    BY <1>2, <2>1
  <2>2. CASE n # 1
    BY <1>1, <2>2
  <2>3. QED
    BY <2>1, <2>2
<1>6. call[t].op = "has" => n = 1
  BY <1>1 DEF CallOf
<1>7. QED
  BY <1>3, <1>4, <1>5, <1>6 DEF CallOf, Returned

\* Registering preserves CallOf: the reader is open, so the sources are there.
LEMMA RegisterCallOf ==
  ASSUME TypeInv, LockInv, NEW t \in Thread, CallOf(t), Register(t)
  PROVE  CallOf(t)'
<1> DEFINE f == [Top(t) EXCEPT !.sources = fields]
<1>1. /\ pc[t] = "add" /\ pc'[t] = "runlock" /\ result' = result /\ closed' = closed
      /\ call' = call
  BY DEF Register, Goto, TypeInv
<1>2. result[t] = "none" /\ fields = "live" /\ Level(t) \in 1 .. Level(t)
  BY <1>1, TopFrame DEF TypeInv, ThreadType, LockInv
<1>3. /\ f \in FrameType /\ f.sources = fields /\ f.obj = Top(t).obj
      /\ f.depth = Top(t).depth /\ f.next = Top(t).next /\ f.err = Top(t).err
      /\ Level(t)' = Level(t) /\ Top(t)' = f
      /\ \A l \in 1 .. Level(t) - 1 : stack'[t][l] = stack[t][l]
  BY RegisterEffect
<1> HIDE DEF f
<1>4. FrameInv(Top(t), closed) /\ Top(t) = stack[t][Level(t)]
  BY <1>2 DEF CallOf, Top
<1>5. FrameInv(f, closed)
  BY <1>3, <1>4 DEF FrameInv, Out
<1>6. QED
  BY <1>1, <1>2, <1>3, <1>4, <1>5, TopReplaced

\* Trying a copy preserves CallOf.
LEMMA CopyCallOf ==
  ASSUME TypeInv, NEW t \in Thread, CallOf(t), ReadLoose(t) \/ ReadPacked(t)
  PROVE  CallOf(t)'
<1> DEFINE f == Top(t)
           c == Current(t)
<1>1. /\ pc[t] = "io" /\ closed' = closed /\ call' = call
      /\ pc \in [Thread -> Label] /\ result \in [Thread -> Result]
  BY DEF ReadLoose, ReadPacked, TypeInv
<1>2. /\ c \in Copy /\ f \in FrameType /\ f.obj \in Object /\ f.sources = "live"
      /\ f.next \in DOMAIN Copies[f.obj] /\ f.next <= Len(Copies[f.obj])
      /\ Level(t) \in Nat \ {0} /\ Level(t) \in 1 .. Level(t)
  BY <1>1, CurrentCopy, TopFrame DEF TypeInv, ThreadType
<1>3. /\ FrameInv(f, closed) /\ f = stack[t][Level(t)] /\ closed \in BOOLEAN
      /\ call[t].op = "read" /\ result[t] = "none"
  BY <1>1, <1>2 DEF CallOf, Top, TypeInv, ThreadType, Call
<1>4. c = Copies[f.obj][f.next] /\ Out(f, f.next) = Outcome(c, f.depth, Resolve)
  BY DEF Current, Out
<1>5. c.src = Loose => c.kind \in {"whole", "corrupt"}
  BY <1>2, <1>4, CopiesAssumption
<1>6. f.depth \in Nat /\ c.hops \in Nat /\ c.base \in Object
  BY <1>2 DEF FrameType, Copy
<1> HIDE DEF f, c
<1>7. ASSUME Fail(t, "corrupt"), Outcome(c, f.depth, Resolve) = "corrupt",
             MayYield(c, f.depth, Yields) = {"corrupt"}
      PROVE  CallOf(t)'
  <2>1. FrameInv(CopyFails(f, "corrupt"), closed)
    BY <1>2, <1>3, <1>4, <1>7, FailedFrame
  <2>2. /\ CopyFails(f, "corrupt") \in FrameType /\ CopyFails(f, "corrupt").obj = f.obj
        /\ CopyFails(f, "corrupt").depth = f.depth
        /\ CopyFails(f, "corrupt").sources = f.sources
    BY <1>2, CopyFailsEffect
  <2>3. /\ Level(t)' = Level(t) /\ Top(t)' = CopyFails(f, "corrupt")
        /\ \A l \in 1 .. Level(t) - 1 : stack'[t][l] = stack[t][l]
        /\ result' = result /\ pc' = [pc EXCEPT ![t] = "scan"]
    BY <1>1, <1>7, FailEffect DEF f
  <2>4. pc'[t] = "scan"
    BY <1>1, <2>3
  <2>5. QED
    BY <1>1, <1>2, <1>3, <2>1, <2>2, <2>3, <2>4, TopReplaced
<1>8. ASSUME NEW r \in Decisive, stack' = stack, Goto(t, "done"), Yield(t, r),
             Outcome(c, f.depth, Resolve) = r, MayYield(c, f.depth, Yields) = {r}
      PROVE  CallOf(t)'
  <2>1. AnswerFor("read", r, f.obj, f.depth, closed)
    BY <1>2, <1>3, <1>4, <1>8, DecidedFrame
  <2>2. pc'[t] = "done" /\ result'[t] = r /\ r # "closed"
    BY <1>1, <1>8 DEF Goto, Yield, Decisive
  <2>3. Level(t)' = Level(t) /\ Top(t)' = f
    BY <1>8 DEF Level, Top, f
  <2>4. QED
    BY <1>1, <1>2, <1>3, <1>8, <2>1, <2>2, <2>3, TopReplaced
<1>9. ASSUME c.src # Loose, ~TooDeep(t), c.kind = "ref", result' = result, Goto(t, "rlock"),
             stack' = [stack EXCEPT ![t] = Append(@, Frame(c.base, f.depth + c.hops + 1))]
      PROVE  CallOf(t)'
  <2> DEFINE g == Frame(c.base, f.depth + c.hops + 1)
  <2>1. /\ Level(t)' = Level(t) + 1 /\ Top(t)' = g
        /\ \A l \in 1 .. Level(t) : stack'[t][l] = stack[t][l]
    BY <1>1, <1>9, NestEffect DEF f, c
  <2>2. f.depth + c.hops <= MaxDeltaDepth
    BY <1>6, <1>9, DepthAssumption DEF TooDeep, f, c
  <2>3. f.depth + c.hops + 1 \in 0 .. MaxDeltaDepth + 1
    BY <1>6, <2>2, DepthAssumption
  <2>4. g.obj = c.base /\ g.depth = f.depth + c.hops + 1 /\ FrameInv(g, closed)
    BY <1>3, <1>6, <2>3, NewFrame, FreshFrame
  <2> HIDE DEF g
  <2>5. CallsFor(f, g)
    BY <1>2, <1>4, <1>9, <2>2, <2>4 DEF CallsFor
  <2>6. stack'[t][Level(t) + 1] = g
    BY <2>1 DEF Top, Level
  <2>7. \A l \in 1 .. Level(t) + 1 : FrameInv(stack'[t][l], closed)
    <3> SUFFICES ASSUME NEW l \in 1 .. Level(t) + 1 PROVE FrameInv(stack'[t][l], closed)
      OBVIOUS
    <3>1. CASE l = Level(t) + 1
      BY <2>4, <2>6, <3>1
    <3>2. CASE l # Level(t) + 1
      BY <1>2, <2>1, <3>2 DEF CallOf
    <3>3. QED
      BY <3>1, <3>2
  <2>8. \A l \in 1 .. Level(t) : CallsFor(stack'[t][l], stack'[t][l + 1])
    <3> SUFFICES ASSUME NEW l \in 1 .. Level(t)
                 PROVE  CallsFor(stack'[t][l], stack'[t][l + 1])
      OBVIOUS
    <3>1. CASE l = Level(t)
      BY <1>3, <2>1, <2>5, <2>6, <3>1
    <3>2. CASE l # Level(t)
      BY <1>2, <2>1, <3>2 DEF CallOf
    <3>3. QED
      BY <3>1, <3>2
  <2>9. pc'[t] = "rlock" /\ stack'[t][1] = stack[t][1]
    BY <1>1, <1>2, <1>9, <2>1 DEF Goto
  <2>10. /\ pc'[t] # "idle" => stack'[t][1].obj = call'[t].obj /\ stack'[t][1].depth = 0
         /\ ~(pc'[t] # "idle" /\ call'[t].op = "has")
         /\ result'[t] # "closed"
    BY <1>1, <1>3, <1>9, <2>9 DEF CallOf
  <2>11. ~Registered(t)' /\ pc'[t] \notin {"done", "return"} /\ ~Returned(t)'
    BY <2>9 DEF Registered, Returned
  <2>12. /\ (\A l \in 1 .. Level(t) : FrameInv(stack[t][l], closed))'
         /\ (\A l \in 1 .. Level(t) - 1 : CallsFor(stack[t][l], stack[t][l + 1]))'
    BY <1>1, <1>2, <2>1, <2>7, <2>8
  <2>13. QED
    BY <2>10, <2>11, <2>12 DEF CallOf
<1>10. CASE ReadLoose(t)
  <2>1. /\ c.src = Loose
        /\ \/ c.kind = "whole"   /\ Succeed(t)
           \/ c.kind = "corrupt" /\ Fail(t, "corrupt")
    BY <1>10 DEF ReadLoose, c
  <2>2. /\ c.kind = "whole"   => Outcome(c, f.depth, Resolve) = "found"
        /\ c.kind = "whole"   => MayYield(c, f.depth, Yields) = {"found"}
        /\ c.kind = "corrupt" => Outcome(c, f.depth, Resolve) = "corrupt"
        /\ c.kind = "corrupt" => MayYield(c, f.depth, Yields) = {"corrupt"}
    BY <2>1 DEF Outcome, MayYield
  <2>3. QED
    BY <1>7, <1>8, <2>1, <2>2 DEF Succeed, Decisive
<1>11. CASE ReadPacked(t)
  <2>1. /\ c.src # Loose
        /\ \/ (TooDeep(t) \/ c.kind = "corrupt")  /\ Fail(t, "corrupt")
           \/ ~TooDeep(t) /\ c.kind = "whole"     /\ Succeed(t)
           \/ /\ ~TooDeep(t) /\ c.kind = "panic"
              /\ Yield(t, "panic") /\ UNCHANGED stack /\ Goto(t, "done")
           \/ /\ ~TooDeep(t) /\ c.kind = "ref"
              /\ stack' = [stack EXCEPT ![t] = Append(@, Frame(c.base, f.depth + c.hops + 1))]
              /\ UNCHANGED result /\ Goto(t, "rlock")
    BY <1>11 DEF ReadPacked, c, f
  <2>2. TooDeep(t) <=> f.depth + c.hops > MaxDeltaDepth
    BY DEF TooDeep, c, f
  <2>3. /\ TooDeep(t) \/ c.kind = "corrupt" => Outcome(c, f.depth, Resolve) = "corrupt"
        /\ TooDeep(t) \/ c.kind = "corrupt" => MayYield(c, f.depth, Yields) = {"corrupt"}
        /\ ~TooDeep(t) /\ c.kind = "whole"  => Outcome(c, f.depth, Resolve) = "found"
        /\ ~TooDeep(t) /\ c.kind = "whole"  => MayYield(c, f.depth, Yields) = {"found"}
        /\ ~TooDeep(t) /\ c.kind = "panic"  => Outcome(c, f.depth, Resolve) = "panic"
        /\ ~TooDeep(t) /\ c.kind = "panic"  => MayYield(c, f.depth, Yields) = {"panic"}
    BY <2>1, <2>2 DEF Outcome, MayYield
  <2>4. QED
    BY <1>7, <1>8, <1>9, <2>1, <2>3 DEF Succeed, Decisive
<1>12. QED
  BY <1>10, <1>11

\* The end of a call hands over what its outermost read decided.
LEMMA ReturnCallOf ==
  ASSUME TypeInv, NEW t \in Thread, CallOf(t), ReturnCall(t)
  PROVE  CallOf(t)'
<1>1. /\ pc[t] = "return" /\ Level(t) = 1 /\ pc'[t] = "idle" /\ result' = result
      /\ closed' = closed /\ call' = call /\ stack'[t] = << >>
  BY DEF ReturnCall, Goto, TypeInv
<1>2. Level(t)' = 0
  BY <1>1, EmptySeq DEF Level
<1>3. Top(t).obj = call[t].obj /\ Top(t).depth = 0
  BY <1>1 DEF CallOf, Top
<1>4. AnswerFor(call[t].op, result[t], call[t].obj, 0, closed)
  BY <1>1, <1>3 DEF CallOf
<1>5. result'[t] = "closed" => closed'
  BY <1>1 DEF CallOf
<1>6. QED
  BY <1>1, <1>2, <1>4, <1>5 DEF CallOf, Registered

\* The end of a nested read decides the delta that asked for it, or fails it.
LEMMA ReturnBaseOf ==
  ASSUME TypeInv, NEW t \in Thread, CallOf(t), ReturnBase(t)
  PROVE  CallOf(t)'
<1> DEFINE n == Level(t) - 1
           f == stack[t][n]
           g == Top(t)
           r == result[t]
<1>1. pc[t] = "return" /\ closed' = closed /\ call' = call /\ Level(t) > 1
  BY DEF ReturnBase
<1>2. /\ Level(t) \in Nat /\ n \in 1 .. Level(t) /\ f \in FrameType
      /\ call[t] \in Call /\ closed \in BOOLEAN /\ r # "none"
      /\ pc \in [Thread -> Label] /\ result \in [Thread -> Result]
  BY <1>1, TopFrame DEF TypeInv, ThreadType
<1>3. CallsFor(f, g) /\ FrameInv(f, closed)
  <2>1. n \in 1 .. Level(t) - 1 /\ n + 1 = Level(t)
    BY <1>1, <1>2
  <2>2. g = stack[t][n + 1]
    BY <2>1 DEF Top
  <2>3. QED
    BY <1>2, <2>1, <2>2 DEF CallOf
<1>4. call[t].op = "read"
  BY <1>1, <1>2 DEF CallOf, Call
<1>5. /\ r \in Yields[g.depth][g.obj]
      /\ closed \/ r = Resolve[g.depth][g.obj]
      /\ r = "closed" => closed
  BY <1>1, <1>4 DEF CallOf, AnswerFor
<1>6. /\ f.next <= Len(Copies[f.obj]) /\ f.sources = "live"
      /\ r \in MayYield(Copies[f.obj][f.next], f.depth, Yields)
      /\ closed \/ r = Out(f, f.next)
  BY <1>2, <1>3, <1>5, BaseOutcome DEF CallsFor
<1>7. /\ Level(t)' = n
      /\ \A l \in 1 .. n - 1 : stack'[t][l] = stack[t][l]
      /\ \/ /\ r \in {"found", "panic"} /\ result' = result
            /\ pc' = [pc EXCEPT ![t] = "done"] /\ Top(t)' = f
         \/ /\ r \in {"corrupt", "closed", "absent"}
            /\ result' = [result EXCEPT ![t] = "none"]
            /\ pc' = [pc EXCEPT ![t] = "scan"] /\ Top(t)' = CopyFails(f, r)
  <2>1. n - 1 = Level(t) - 2
    BY <1>2
  <2>2. QED
    BY <2>1, ReturnBaseEffect
<1> HIDE DEF n, f, g
<1>8. CASE /\ r \in {"found", "panic"} /\ result' = result
           /\ pc' = [pc EXCEPT ![t] = "done"] /\ Top(t)' = f
  <2>1. AnswerFor("read", r, f.obj, f.depth, closed)
    BY <1>2, <1>3, <1>6, <1>8, DecidedFrame DEF Decisive
  <2>2. pc'[t] = "done" /\ result'[t] # "closed"
    BY <1>2, <1>8
  <2>3. QED
    BY <1>1, <1>2, <1>3, <1>4, <1>6, <1>7, <1>8, <2>1, <2>2, TopReplaced DEF f
<1>9. CASE /\ r \in {"corrupt", "closed", "absent"}
           /\ result' = [result EXCEPT ![t] = "none"]
           /\ pc' = [pc EXCEPT ![t] = "scan"] /\ Top(t)' = CopyFails(f, r)
  <2> DEFINE h == CopyFails(f, r)
  <2>1. FrameInv(h, closed)
    BY <1>2, <1>3, <1>5, <1>6, <1>9, FailedFrame
  <2>2. h \in FrameType /\ h.obj = f.obj /\ h.depth = f.depth /\ h.sources = f.sources
    BY <1>2, <1>9, CopyFailsEffect
  <2>3. pc'[t] = "scan" /\ result'[t] = "none"
    BY <1>2, <1>9
  <2> HIDE DEF h
  <2>4. Top(t)' = h
    BY <1>9 DEF h
  <2>5. QED
    BY <1>1, <1>2, <1>6, <1>7, <2>1, <2>2, <2>3, <2>4, TopReplaced DEF f
<1>10. QED
  BY <1>7, <1>8, <1>9

\* A step of one goroutine leaves the calls of the others alone.
LEMMA OthersCallOf ==
  ASSUME TypeInv, NEW t \in Thread, Invoke(t) \/ Read(t), NEW u \in Thread, u # t, CallOf(u)
  PROVE  CallOf(u)'
<1>1. closed' = closed
  BY DEF Invoke, Read, RLock, CheckClosed, Register, RUnlock, Claimed, Scan, ReadLoose,
         ReadPacked, Unregister, ReturnCall, ReturnBase
<1>2. pc'[u] = pc[u] /\ call'[u] = call[u] /\ result'[u] = result[u]
  BY DEF TypeInv, Invoke, Read, RLock, CheckClosed, Register, RUnlock, Claimed, Scan, ReadLoose,
         ReadPacked, Unregister, ReturnCall, ReturnBase, Goto, Yield, Fail, Succeed
<1>3. stack'[u] = stack[u]
  BY DEF TypeInv, Invoke, Read, RLock, CheckClosed, Register, RUnlock, Claimed, Scan, ReadLoose,
         ReadPacked, Unregister, ReturnCall, ReturnBase, Fail, Succeed, SetTop
<1>4. QED
  BY <1>1, <1>2, <1>3 DEF CallOf, Registered, Returned, Level, Top

\* Closing the reader only adds excuses.
LEMMA CloseCallOf ==
  ASSUME NEW u \in Thread, CallOf(u), closed => closed',
         UNCHANGED << pc, call, result, stack >>
  PROVE  CallOf(u)'
<1>1. \A f : FrameInv(f, closed) => FrameInv(f, closed')
  BY DEF FrameInv
<1>2. \A op, r, o, d : AnswerFor(op, r, o, d, closed) => AnswerFor(op, r, o, d, closed')
  BY DEF AnswerFor
<1>3. QED
  BY <1>1, <1>2 DEF CallOf, Registered, Returned, Level, Top

\* CallInv holds at first.
LEMMA InitCallInv == Init => CallInv
<1> SUFFICES ASSUME Init, NEW t \in Thread PROVE CallOf(t)
  BY DEF CallInv
<1>1. Level(t) = 0
  BY EmptySeq DEF Init, Level
<1>2. pc[t] = "idle" /\ call[t] = << >> /\ result[t] = "none"
  BY DEF Init
<1>3. QED
  BY <1>1, <1>2 DEF CallOf, Registered, Returned

\* Every step preserves CallInv.
LEMMA NextCallInv == ASSUME TypeInv, LockInv, CallInv, [Next]_vars PROVE CallInv'
<1> SUFFICES ASSUME NEW u \in Thread PROVE CallOf(u)'
  BY DEF CallInv
<1>1. CallOf(u)
  BY DEF CallInv
<1>2. ASSUME NEW t \in Thread, Invoke(t) \/ Read(t) PROVE CallOf(u)'
  <2>1. CASE u = t
    BY <1>1, <1>2, <2>1, InvokeCallOf, PlainCallOf, RegisterCallOf, CopyCallOf, ReturnCallOf,
       ReturnBaseOf DEF Read
  <2>2. CASE u # t
    BY <1>1, <1>2, <2>2, OthersCallOf
  <2>3. QED
    BY <2>1, <2>2
<1>3. ASSUME NEW c \in ClosingThread, CallClose(c) \/ Close(c) PROVE CallOf(u)'
  <2>1. UNCHANGED << pc, call, result, stack >> /\ (closed => closed')
    BY <1>3 DEF CallClose, Close, AwaitLock, TakeSources, AwaitReads, ReleasePack, ReturnClose
  <2>2. QED
    BY <1>1, <2>1, CloseCallOf
<1>4. CASE UNCHANGED vars
  BY <1>1, <1>4, CloseCallOf DEF vars
<1>5. QED
  BY <1>2, <1>3, <1>4 DEF Next

\* Every state of every behaviour satisfies the three invariants.
LEMMA AlwaysCallInv == Spec => []CallInv
<1>1. TypeInv /\ LockInv /\ CallInv /\ [Next]_vars => CallInv'
  BY NextCallInv
<1>2. QED
  BY <1>1, InitCallInv, AlwaysLockInv, PTL DEF Spec

(***************************************************************************)
(* While the reader is open, ReadObject yields exactly what the copies of  *)
(* the object yield, through any chain of deltas over any number of packs; *)
(* a read that Close overtakes yields ErrReaderClosed or what some copy or *)
(* a base below it yields.  Frames and recursion meet in CallInv.          *)
(***************************************************************************)
THEOREM ReadObjectIsTrue == Spec => []ReadsAreTrue
<1>1. CallInv => ReadsAreTrue
  BY DEF CallInv, CallOf, ReadsAreTrue, Answers, AnswerFor
<1>2. QED
  BY <1>1, AlwaysCallInv, PTL

(***************************************************************************)
(* HasObject never claims an object that no source has, and denies one     *)
(* that some source has only of a reader that is being closed.             *)
(***************************************************************************)
THEOREM HasObjectTellsTheTruth == Spec => []HasObjectIsTrue
<1>1. CallInv => HasObjectIsTrue
  BY DEF CallInv, CallOf, HasObjectIsTrue, Answers, AnswerFor
<1>2. QED
  BY <1>1, AlwaysCallInv, PTL
=============================================================================
