-------------------------- MODULE RepositoryReader --------------------------
(***************************************************************************)
(* The shared object reader of internal/gitengine/object.go.  Any number   *)
(* of goroutines call ReadObject and HasObject while others call Close.    *)
(*                                                                         *)
(*   mu        guards closed and the loose/packs fields; a goroutine that  *)
(*             waits in Lock keeps new readers out (Go's RWMutex)          *)
(*   inflight  counts the reads that still use the pack descriptors        *)
(*                                                                         *)
(* A read looks an object up in loose storage and then in each pack; a     *)
(* REF_DELTA copy re-enters the reader for its base, so a goroutine holds  *)
(* a stack of reads, each registered in inflight by itself.                *)
(*                                                                         *)
(* An operator named ...Fault is a wrong variant of the one it precedes,   *)
(* kept to show that the properties would notice.                          *)
(***************************************************************************)
EXTENDS Naturals, Sequences

CONSTANTS Thread,         \* goroutines that read
          ClosingThread,  \* goroutines that call Close, once each
          Object,         \* object ids
          Pack,           \* the packs opened by NewRepositoryReader
          Copies,         \* for each object its copies, in lookup order
          MaxDeltaDepth,  \* longest chain of deltas a read follows
          NoOne           \* no goroutine

(***************************************************************************)
(* A copy of an object is stored in full or corrupt.  A packed one may     *)
(* also make the decoder panic or be a delta: hops OFS_DELTA steps inside  *)
(* its own pack end in data or in a REF_DELTA, whose base is looked up     *)
(* through the reader.                                                     *)
(***************************************************************************)
Loose == "loose"
Copy  == [src : Pack \cup {Loose}, kind : {"whole", "corrupt", "panic", "ref"},
          hops : Nat, base : Object]

ASSUME CopiesAssumption ==
  /\ \A o \in Object : Copies[o] \in Seq(Copy)
  /\ \A o \in Object : \A i \in DOMAIN Copies[o] :
       Copies[o][i].src = Loose => Copies[o][i].kind \in {"whole", "corrupt"}
ASSUME DepthAssumption  == MaxDeltaDepth \in Nat
ASSUME LooseAssumption  == Loose \notin Pack
ASSUME NoOneAssumption  == NoOne \notin ClosingThread

VARIABLES
  readers,   \* goroutines that hold mu for reading
  writer,    \* the goroutine that holds or waits for mu for writing, or NoOne
  closed,    \* the flag Close sets
  fields,    \* r.loose and r.packs: "live" until Close takes them
  inflight,  \* the reads registered: pairs of a goroutine and a stack level
  open,      \* packs whose descriptor is open
  call,      \* the call each goroutine makes or made last
  pc,        \* program counter of each reading goroutine
  stack,     \* its nested reads, outermost first
  result,    \* what its innermost read yields, "none" while undecided
  cpc        \* program counter of each closing goroutine

mu   == << readers, writer >>
vars == << readers, writer, closed, fields, inflight, open, call, pc, stack,
           result, cpc >>

Level(t) == Len(stack[t])
Top(t)   == stack[t][Level(t)]
Frame(o, depth) == [obj |-> o, depth |-> depth, next |-> 1, err |-> "none",
                    sources |-> "nil"]

Init ==
  /\ readers = {} /\ writer = NoOne
  /\ closed = FALSE /\ fields = "live"
  /\ inflight = {} /\ open = Pack
  /\ call   = [t \in Thread |-> << >>]
  /\ pc     = [t \in Thread |-> "idle"]
  /\ stack  = [t \in Thread |-> << >>]
  /\ result = [t \in Thread |-> "none"]
  /\ cpc    = [c \in ClosingThread |-> "idle"]

Goto(t, label) == pc' = [pc EXCEPT ![t] = label]
Yield(t, r)    == result' = [result EXCEPT ![t] = r]
SetTop(t, f)   == stack' = [stack EXCEPT ![t][Level(t)] = f]

-----------------------------------------------------------------------------
(* acquire                                                                 *)

\* A call of ReadObject or HasObject.
Invoke(t) ==
  /\ pc[t] = "idle"
  /\ \E op \in {"read", "has"}, o \in Object :
       /\ call'  = [call  EXCEPT ![t] = [op |-> op, obj |-> o]]
       /\ stack' = [stack EXCEPT ![t] = << Frame(o, 0) >>]
  /\ Yield(t, "none") /\ Goto(t, "rlock")
  /\ UNCHANGED << mu, closed, fields, inflight, open, cpc >>

\* A writer that waits keeps new readers out, nested reads included.
RLock(t) ==
  /\ pc[t] = "rlock" /\ writer = NoOne
  /\ readers' = readers \cup {t}
  /\ Goto(t, "check")
  /\ UNCHANGED << writer, closed, fields, inflight, open, call, stack, result,
                  cpc >>

CheckClosed(t) ==
  /\ pc[t] = "check"
  /\ \/ closed  /\ Yield(t, "closed") /\ Goto(t, "runlock")
     \/ ~closed /\ UNCHANGED result   /\ Goto(t, "add")
  /\ UNCHANGED << mu, closed, fields, inflight, open, call, stack, cpc >>

\* inflight.Add(1), then the snapshot of the object sources.
Register(t) ==
  /\ pc[t] = "add"
  /\ inflight' = inflight \cup {<< t, Level(t) >>}
  /\ SetTop(t, [Top(t) EXCEPT !.sources = fields])
  /\ Goto(t, "runlock")
  /\ UNCHANGED << mu, closed, fields, open, call, result, cpc >>

\* The lock is kept across the read that follows.
RUnlockFault(t) ==
  /\ pc[t] = "runlock"
  /\ Goto(t, IF result[t] = "closed" THEN "return" ELSE "scan")
  /\ UNCHANGED << mu, closed, fields, inflight, open, call, stack, result, cpc >>

RUnlock(t) ==
  /\ pc[t] = "runlock"
  /\ readers' = readers \ {t}
  /\ Goto(t, IF result[t] = "closed" THEN "return" ELSE "scan")
  /\ UNCHANGED << writer, closed, fields, inflight, open, call, stack, result,
                  cpc >>

-----------------------------------------------------------------------------
(* readObjectDepth and HasObject after acquire                             *)

\* The copies this read can see: none once Close has taken the sources.
Visible(t) == IF Top(t).sources = "live" THEN Copies[Top(t).obj] ELSE << >>

\* HasObject: some source claims the object.
Claimed(t) ==
  /\ pc[t] = "scan" /\ call[t].op = "has"
  /\ Yield(t, IF Visible(t) # << >> THEN "found" ELSE "absent")
  /\ Goto(t, "done")
  /\ UNCHANGED << mu, closed, fields, inflight, open, call, stack, cpc >>

\* ReadObject: on to the next source that claims the object, or give up.
Scan(t) ==
  /\ pc[t] = "scan" /\ call[t].op = "read"
  /\ \/ /\ Top(t).next > Len(Visible(t))
        /\ Yield(t, IF Top(t).err = "none" THEN "absent" ELSE Top(t).err)
        /\ Goto(t, "done")
     \/ /\ Top(t).next <= Len(Visible(t))
        /\ UNCHANGED result
        /\ Goto(t, "io")
  /\ UNCHANGED << mu, closed, fields, inflight, open, call, stack, cpc >>

\* An error is forgotten when the search goes on.
CopyFailsFault(f, e) == [f EXCEPT !.next = f.next + 1]

\* The first error is remembered, and the search goes on with the next source.
CopyFails(f, e) ==
  [f EXCEPT !.err = IF f.err = "none" THEN e ELSE f.err, !.next = f.next + 1]

Current(t) == Copies[Top(t).obj][Top(t).next]

\* A copy that cannot be produced, and one that can.
Fail(t, e) == SetTop(t, CopyFails(Top(t), e)) /\ UNCHANGED result /\ Goto(t, "scan")
Succeed(t) == Yield(t, "found") /\ UNCHANGED stack /\ Goto(t, "done")

\* Decode a loose copy, which has no part in Close.
ReadLoose(t) ==
  /\ pc[t] = "io" /\ Current(t).src = Loose
  /\ \/ Current(t).kind = "whole"   /\ Succeed(t)
     \/ Current(t).kind = "corrupt" /\ Fail(t, "corrupt")
  /\ UNCHANGED << mu, closed, fields, inflight, open, call, cpc >>

\* One hop too many.
TooDeepFault(t) == Top(t).depth + Current(t).hops > MaxDeltaDepth + 1
TooDeep(t)      == Top(t).depth + Current(t).hops > MaxDeltaDepth

(***************************************************************************)
(* Decode a packed copy: positional reads on the pack's descriptor, down   *)
(* its OFS_DELTA steps to data or to a REF_DELTA, whose base is a read of  *)
(* its own, one hop deeper.                                                *)
(***************************************************************************)
ReadPacked(t) ==
  /\ pc[t] = "io" /\ Current(t).src # Loose
  /\ \/ (TooDeep(t) \/ Current(t).kind = "corrupt")  /\ Fail(t, "corrupt")
     \/ ~TooDeep(t) /\ Current(t).kind = "whole"     /\ Succeed(t)
     \/ /\ ~TooDeep(t) /\ Current(t).kind = "panic"
        /\ Yield(t, "panic") /\ UNCHANGED stack /\ Goto(t, "done")
     \/ /\ ~TooDeep(t) /\ Current(t).kind = "ref"
        /\ stack' = [stack EXCEPT ![t] = Append(@,
             Frame(Current(t).base, Top(t).depth + Current(t).hops + 1))]
        /\ UNCHANGED result /\ Goto(t, "rlock")
  /\ UNCHANGED << mu, closed, fields, inflight, open, call, cpc >>

\* Only the outermost read is taken off the count.
UnregisterFault(t) ==
  /\ pc[t] = "done"
  /\ inflight' = IF Level(t) = 1 THEN inflight \ {<< t, 1 >>} ELSE inflight
  /\ Goto(t, "return")
  /\ UNCHANGED << mu, closed, fields, open, call, stack, result, cpc >>

\* The deferred inflight.Done(), which a panic runs as well.
Unregister(t) ==
  /\ pc[t] = "done"
  /\ inflight' = inflight \ {<< t, Level(t) >>}
  /\ Goto(t, "return")
  /\ UNCHANGED << mu, closed, fields, open, call, stack, result, cpc >>

\* An outermost read ends the call.
ReturnCall(t) ==
  /\ pc[t] = "return" /\ Level(t) = 1
  /\ stack' = [stack EXCEPT ![t] = << >>]
  /\ Goto(t, "idle")
  /\ UNCHANGED << mu, closed, fields, inflight, open, call, result, cpc >>

(***************************************************************************)
(* A nested read hands its base to the delta that asked for it; any error, *)
(* ErrReaderClosed included, makes that copy fail; a panic goes on up.     *)
(***************************************************************************)
ReturnBase(t) ==
  /\ pc[t] = "return" /\ Level(t) > 1
  /\ LET below == SubSeq(stack[t], 1, Level(t) - 1)
         outer == below[Len(below)]
     IN \/ /\ result[t] \in {"found", "panic"}
           /\ stack' = [stack EXCEPT ![t] = below]
           /\ UNCHANGED result /\ Goto(t, "done")
        \/ /\ result[t] \notin {"found", "panic"}
           /\ stack' = [stack EXCEPT ![t] =
                [below EXCEPT ![Len(below)] = CopyFails(outer, result[t])]]
           /\ Yield(t, "none") /\ Goto(t, "scan")
  /\ UNCHANGED << mu, closed, fields, inflight, open, call, cpc >>

Read(t) ==
  \/ RLock(t) \/ CheckClosed(t) \/ Register(t) \/ RUnlock(t)
  \/ Claimed(t) \/ Scan(t) \/ ReadLoose(t) \/ ReadPacked(t)
  \/ Unregister(t) \/ ReturnCall(t) \/ ReturnBase(t)

-----------------------------------------------------------------------------
(* Close                                                                   *)

CGoto(c, label) == cpc' = [cpc EXCEPT ![c] = label]

CallClose(c) ==
  /\ cpc[c] = "idle"
  /\ CGoto(c, "called")
  /\ UNCHANGED << mu, closed, fields, inflight, open, call, pc, stack, result >>

\* mu.Lock(): from here on no new reader gets in.
AwaitLock(c) ==
  /\ cpc[c] = "called" /\ writer = NoOne
  /\ writer' = c
  /\ CGoto(c, "lock")
  /\ UNCHANGED << readers, closed, fields, inflight, open, call, pc, stack,
                  result >>

\* The sources are taken without excluding the goroutines inside acquire.
TakeSourcesFault(c) ==
  /\ cpc[c] = "lock"
  /\ \/ closed  /\ UNCHANGED << closed, fields >> /\ CGoto(c, "returned")
     \/ ~closed /\ closed' = TRUE /\ fields' = "nil" /\ CGoto(c, "wait")
  /\ writer' = NoOne
  /\ UNCHANGED << readers, inflight, open, call, pc, stack, result >>

\* The sources are taken, the flag is not set.
TakeSourcesFault2(c) ==
  /\ cpc[c] = "lock" /\ readers = {}
  /\ fields' = "nil" /\ CGoto(c, "wait")
  /\ writer' = NoOne
  /\ UNCHANGED << readers, closed, inflight, open, call, pc, stack, result >>

\* The critical section, up to mu.Unlock(); a second Close returns at once.
TakeSources(c) ==
  /\ cpc[c] = "lock" /\ readers = {}
  /\ \/ closed  /\ UNCHANGED << closed, fields >> /\ CGoto(c, "returned")
     \/ ~closed /\ closed' = TRUE /\ fields' = "nil" /\ CGoto(c, "wait")
  /\ writer' = NoOne
  /\ UNCHANGED << readers, inflight, open, call, pc, stack, result >>

\* The descriptors are closed at once.
AwaitReadsFault(c) ==
  /\ cpc[c] = "wait"
  /\ CGoto(c, "release")
  /\ UNCHANGED << mu, closed, fields, inflight, open, call, pc, stack, result >>

\* inflight.Wait()
AwaitReads(c) ==
  /\ cpc[c] = "wait" /\ inflight = {}
  /\ CGoto(c, "release")
  /\ UNCHANGED << mu, closed, fields, inflight, open, call, pc, stack, result >>

ReleasePack(c) ==
  /\ cpc[c] = "release"
  /\ \E p \in open : open' = open \ {p}
  /\ UNCHANGED << mu, closed, fields, inflight, call, pc, stack, result, cpc >>

ReturnClose(c) ==
  /\ cpc[c] = "release" /\ open = {}
  /\ CGoto(c, "returned")
  /\ UNCHANGED << mu, closed, fields, inflight, open, call, pc, stack, result >>

Close(c) ==
  \/ AwaitLock(c) \/ TakeSources(c) \/ AwaitReads(c) \/ ReleasePack(c)
  \/ ReturnClose(c)

-----------------------------------------------------------------------------
Next ==
  \/ \E t \in Thread : Invoke(t) \/ Read(t)
  \/ \E c \in ClosingThread : CallClose(c) \/ Close(c)

(***************************************************************************)
(* A goroutine that is in a call and can run does run; nobody has to call. *)
(***************************************************************************)
Fairness ==
  /\ \A t \in Thread : WF_vars(Read(t))
  /\ \A c \in ClosingThread : WF_vars(Close(c))

Spec     == Init /\ [][Next]_vars
FairSpec == Spec /\ Fairness

-----------------------------------------------------------------------------
(* Properties.                                                             *)

\* What a copy yields, given what the bases of deltas yield at each depth.
Outcome(c, depth, below) ==
  IF c.src # Loose /\ depth + c.hops > MaxDeltaDepth THEN "corrupt"
  ELSE IF c.kind = "ref" THEN below[depth + c.hops + 1][c.base]
  ELSE IF c.kind = "whole" THEN "found" ELSE c.kind

\* The first copy that succeeds or panics decides, or else the first error.
Decide(out) ==
  LET decisive == { i \in DOMAIN out : out[i] \in {"found", "panic"} }
  IN  IF out = << >> THEN "absent"
      ELSE IF decisive = {} THEN out[1]
      ELSE out[CHOOSE i \in decisive : \A k \in decisive : i <= k]

(***************************************************************************)
(* What a read of an object yields when nobody closes the reader, by the   *)
(* number of delta hops made so far.                                       *)
(***************************************************************************)
Resolve[depth \in 0 .. MaxDeltaDepth + 1] ==
  [o \in Object |->
     Decide([i \in DOMAIN Copies[o] |-> Outcome(Copies[o][i], depth, Resolve)])]

(***************************************************************************)
(* What a read may yield when the reader is closed under it: any base may  *)
(* turn out to be out of reach, so that any copy may come to decide.       *)
(***************************************************************************)
MayYield(c, depth, below) ==
  IF c.src # Loose /\ depth + c.hops > MaxDeltaDepth THEN {"corrupt"}
  ELSE IF c.kind = "ref" THEN below[depth + c.hops + 1][c.base]
  ELSE IF c.kind = "whole" THEN {"found"} ELSE {c.kind}

Yields[depth \in 0 .. MaxDeltaDepth + 1] ==
  [o \in Object |->
     {"closed"} \cup
     IF Copies[o] = << >> THEN {"absent"}
     ELSE UNION { MayYield(Copies[o][i], depth, Yields) : i \in DOMAIN Copies[o] }]

Returned(t) == pc[t] = "idle" /\ call[t] # << >>
Answers(t, op) == Returned(t) /\ call[t].op = op

FrameType == [obj : Object, depth : 0 .. MaxDeltaDepth + 1, next : Nat \ {0},
              err : {"none", "corrupt", "closed", "absent"},
              sources : {"live", "nil"}]

\* Values stay in range.
TypeOK ==
  /\ readers \subseteq Thread /\ writer \in ClosingThread \cup {NoOne}
  /\ closed \in BOOLEAN /\ fields \in {"live", "nil"}
  /\ inflight \subseteq Thread \X (Nat \ {0}) /\ open \subseteq Pack
  /\ \A t \in Thread :
       /\ call[t] # << >> =>
            call[t] \in [op : {"read", "has"}, obj : Object]
       /\ pc[t] \in {"idle", "rlock", "check", "add", "runlock", "scan", "io",
                    "done", "return"}
       /\ stack[t] \in Seq(FrameType)
       /\ (stack[t] = << >>) = (pc[t] = "idle")
       /\ result[t] \in {"none", "found", "absent", "corrupt", "closed", "panic"}
  /\ \A c \in ClosingThread :
       cpc[c] \in {"idle", "called", "lock", "wait", "release", "returned"}

(***************************************************************************)
(* "Close cannot pull a packfile out from under a read that is still       *)
(* running": whatever pack a read is about to use has an open descriptor.  *)
(***************************************************************************)
NoReadOnClosedPack ==
  \A t \in Thread :
    pc[t] = "io" /\ Current(t).src # Loose => Current(t).src \in open

(***************************************************************************)
(* sync.WaitGroup forbids an Add that starts from zero while a Wait is     *)
(* under way; a nested read is covered by the registration of the outer.   *)
(***************************************************************************)
NoAddDuringWait ==
  [][(\E c \in ClosingThread : cpc[c] = "wait") /\ inflight = {}
       => inflight' = {}]_vars

(***************************************************************************)
(* While the reader is open a read yields exactly what the copies of the   *)
(* object yield.  A read that Close overtakes yields ErrReaderClosed or    *)
(* what some copy, or a base below it, does yield: it never makes up data, *)
(* damage or absence.                                                      *)
(***************************************************************************)
ReadsAreTrue ==
  \A t \in Thread : Answers(t, "read") =>
    /\ result[t] \in Yields[0][call[t].obj]
    /\ closed \/ result[t] = Resolve[0][call[t].obj]

\* HasObject says yes of claimed objects only, and of all of them until Close.
HasObjectIsTrue ==
  \A t \in Thread : Answers(t, "has") =>
    IF result[t] = "found" THEN Copies[call[t].obj] # << >>
                           ELSE closed \/ Copies[call[t].obj] = << >>

\* Neither lock nor wait group can block a call for ever, nested or not.
ReadsReturn  == \A t \in Thread : pc[t] # "idle" ~> pc[t] = "idle"
ClosesReturn == \A c \in ClosingThread : cpc[c] = "called" ~> cpc[c] = "returned"

(***************************************************************************)
(* The doc comment of Close: "a concurrent read either completes against a *)
(* live packfile or fails with ErrReaderClosed".                           *)
(***************************************************************************)
CompletesOrClosed ==
  \A t \in Thread : Answers(t, "read") =>
    result[t] \in {Resolve[0][call[t].obj], "closed"}
=============================================================================
