------------------------------ MODULE PackFile ------------------------------
(***************************************************************************)
(* Reading objects from one pack: the index of pack_index.go, the entries  *)
(* of pack.go and the deltas of delta.go.  The workers of a search share   *)
(* the pack, which never changes, and one pool of buffers, into which      *)
(* deltas are decoded: the buffer with the base of a delta is handed up to *)
(* the frame above, which puts it back once the delta is applied.          *)
(*                                                                         *)
(* A name is a pair of its first byte, which selects a bucket of the       *)
(* fanout table, and the rest.  Offsets are those at which entries begin,  *)
(* numbered from 1.                                                        *)
(*                                                                         *)
(* An operator named ...Fault is a wrong variant of the one it precedes,   *)
(* kept to show that the properties would notice.                          *)
(***************************************************************************)
EXTENDS Naturals, Sequences, FiniteSets

CONSTANTS Worker,         \* goroutines that read
          Buffer,         \* arrays that the pool may ever hand out
          NoBuffer,       \* no array
          Byte, Blank,    \* contents of an array; Blank: never written
          LastByte,       \* the last bucket of the fanout table
          Input,          \* the packs
          MaxDeltaDepth,  \* longest chain of deltas
          NewCap,         \* capacity of a new buffer
          MaxPooledCap,   \* larger buffers are not pooled
          MaxCap,         \* the largest object in the packs
          ZeroCopySize,   \* what a copy of size zero stands for
          MaxOffset       \* largest offset that fits the file API

(***************************************************************************)
(* An entry holds data, or a delta whose base is at a distance (ofs) or    *)
(* has a name (ref), or is damaged.  A delta states the sizes of base and  *)
(* target and what to copy from the base or insert.                        *)
(***************************************************************************)
Name  == (0 .. LastByte) \X Nat
Op    == [kind : {"copy"}, at : Nat, size : Nat]
         \cup [kind : {"insert"}, data : Seq(Byte)] \cup [kind : {"zero"}]
Delta == [header : BOOLEAN, base : Nat, target : 0 .. MaxCap, ops : Seq(Op)]
Entry == [kind : {"damaged"}] \cup [kind : {"whole"}, data : Seq(Byte)]
         \cup [kind : {"ofs"}, back : Nat, delta : Delta]
         \cup [kind : {"ref"}, base : Name, delta : Delta]

\* An offset of the index, of 31 bits: itself, or a position in the table of wide ones.
RawOffset == [wide : BOOLEAN, at : 0 .. MaxOffset]

PackType == [fanout : [0 .. LastByte -> Nat], names : Seq(Name),
             offsets : Seq(RawOffset), wide : Seq(Nat), entries : Seq(Entry),
             wanted : SUBSET Name]

ASSUME BufferAssumption == NoBuffer \notin Buffer /\ Blank \notin Byte
ASSUME SizeAssumption   ==
  /\ {MaxDeltaDepth, NewCap, MaxPooledCap, MaxCap, MaxOffset} \subseteq Nat
  /\ ZeroCopySize \in Nat \ {0} /\ NewCap <= MaxCap /\ LastByte \in Nat
ASSUME InputAssumption  ==
  \A f \in Input : f \in PackType /\ Len(f.offsets) = Len(f.names)

VARIABLES
  in,      \* the pack and its index
  pool,    \* how often each buffer is in the pool
  mem,     \* the array of each buffer
  cap,     \* its capacity
  pc,      \* program counter of each worker
  stack,   \* its frames of readObjectAt, outermost first
  result   \* how its last read ended

vars == << in, pool, mem, cap, pc, stack, result >>

(***************************************************************************)
(* An object is private or a slice of a pooled buffer.                     *)
(***************************************************************************)
NoObject     == [buf |-> NoBuffer, len |-> 0, data |-> << >>]
Private(d)   == [buf |-> NoBuffer, len |-> Len(d), data |-> d]
Slice(b, n)  == [buf |-> b, len |-> n, data |-> << >>]
BytesOf(o)   == IF o.buf = NoBuffer THEN o.data ELSE SubSeq(mem[o.buf], 1, o.len)

NoResult == [name |-> << 0, 0 >>, err |-> "none", obj |-> NoObject]
NoArray  == [i \in 1 .. MaxCap |-> Blank]

Top(w)        == stack[w][Len(stack[w])]
SetTop(w, f)  == stack' = [stack EXCEPT ![w][Len(stack[w])] = f]
Push(w, f)    == stack' = [stack EXCEPT ![w] = Append(@, f)]
Goto(w, l)    == pc' = [pc EXCEPT ![w] = l]
buffers       == << pool, mem, cap >>

\* Count: the number of objects that the fanout table states.
Count == in.fanout[LastByte]

\* ParsePackIndex accepts the index; otherwise OpenPackfiles leaves the pack out.
Opens ==
  /\ \A b \in 1 .. LastByte : in.fanout[b - 1] <= in.fanout[b]
  /\ Count <= Len(in.names)

Init ==
  /\ in \in Input
  /\ pool = [b \in Buffer |-> 0]
  /\ mem  = [b \in Buffer |-> NoArray]
  /\ cap  = [b \in Buffer |-> NewCap]
  /\ pc   = [w \in Worker |-> "idle"]
  /\ stack  = [w \in Worker |-> << >>]
  /\ result = [w \in Worker |-> NoResult]

-----------------------------------------------------------------------------
(* FindOffset                                                              *)

\* A frame that knows where its entry begins.
FrameAt(off, depth) ==
  [name |-> << 0, 0 >>, low |-> 0, high |-> 0, off |-> off, depth |-> depth,
   base |-> NoObject, buf |-> NoBuffer, len |-> 0, op |-> 1, ok |-> TRUE]

\* A frame that has a name to look up, in the bucket of its first byte.
FrameFor(n, depth) ==
  [FrameAt(0, depth) EXCEPT
     !.name = n, !.low  = IF n[1] = 0 THEN 0 ELSE in.fanout[n[1] - 1],
                 !.high = in.fanout[n[1]]]

\* Every error ends the whole read; no frame below the top owns a buffer yet.
Fail(w, e) ==
  /\ result' = [result EXCEPT ![w] =
       [name |-> stack[w][1].name, err |-> e, obj |-> NoObject]]
  /\ stack' = [stack EXCEPT ![w] = << >>]
  /\ Goto(w, "idle")

Call(w) ==
  /\ pc[w] = "idle" /\ Opens
  /\ \E n \in in.wanted : stack' = [stack EXCEPT ![w] = << FrameFor(n, 0) >>]
  /\ result' = [result EXCEPT ![w] = NoResult]
  /\ Goto(w, "search")
  /\ UNCHANGED << in, buffers >>

\* Nothing is found in a pack that was left out.
CallWithoutPack(w) ==
  /\ pc[w] = "idle" /\ ~Opens
  /\ \E n \in in.wanted :
       result' = [result EXCEPT ![w] =
                    [name |-> n, err |-> "absent", obj |-> NoObject]]
  /\ UNCHANGED << in, buffers, pc, stack >>

Mid(w)     == (Top(w).low + Top(w).high) \div 2
MidName(w) == in.names[Mid(w) + 1]
Before(m, n) == m[1] < n[1] \/ (m[1] = n[1] /\ m[2] < n[2])

\* The upper half is cut one name short.
SearchStepFault(w) ==
  /\ pc[w] = "search" /\ Top(w).low < Top(w).high /\ MidName(w) # Top(w).name
  /\ IF Before(MidName(w), Top(w).name)
     THEN SetTop(w, [Top(w) EXCEPT !.low = Mid(w) + 1])
     ELSE SetTop(w, [Top(w) EXCEPT !.high = IF Mid(w) = 0 THEN 0 ELSE Mid(w) - 1])
  /\ UNCHANGED << in, buffers, pc, result >>

\* One step of the binary search.
SearchStep(w) ==
  /\ pc[w] = "search" /\ Top(w).low < Top(w).high /\ MidName(w) # Top(w).name
  /\ IF Before(MidName(w), Top(w).name)
     THEN SetTop(w, [Top(w) EXCEPT !.low = Mid(w) + 1])
     ELSE SetTop(w, [Top(w) EXCEPT !.high = Mid(w)])
  /\ UNCHANGED << in, buffers, pc, result >>

\* The name is found: its offset may be in the table of wide offsets.
SearchHit(w) ==
  /\ pc[w] = "search" /\ Top(w).low < Top(w).high /\ MidName(w) = Top(w).name
  /\ LET raw    == in.offsets[Mid(w) + 1]
         inside == raw.at < Len(in.wide) /\ in.wide[raw.at + 1] <= MaxOffset
         off    == IF raw.wide THEN in.wide[raw.at + 1] ELSE raw.at
     IN  \/ raw.wide /\ ~inside /\ Fail(w, "invalid")
         \/ /\ raw.wide => inside
            /\ SetTop(w, [Top(w) EXCEPT !.off = off, !.low = 0, !.high = 0])
            /\ Goto(w, "entry") /\ UNCHANGED result
  /\ UNCHANGED << in, buffers >>

SearchMiss(w) ==
  /\ pc[w] = "search" /\ Top(w).low >= Top(w).high
  /\ Fail(w, "absent")
  /\ UNCHANGED << in, buffers >>

-----------------------------------------------------------------------------
(* readObjectAt down to the base                                           *)

\* The frame below gets its base, or the outermost read returns.
Return(w, o) ==
  LET below == SubSeq(stack[w], 1, Len(stack[w]) - 1)
  IN  IF below = << >>
      THEN /\ result' = [result EXCEPT ![w] =
                           [name |-> Top(w).name, err |-> "none", obj |-> o]]
           /\ stack' = [stack EXCEPT ![w] = << >>]
           /\ Goto(w, "idle")
      ELSE /\ stack' = [stack EXCEPT ![w] =
                          [below EXCEPT ![Len(below)].base = o]]
           /\ Goto(w, "apply") /\ UNCHANGED result

EntryOf(f) == in.entries[f.off]

\* An entry that can be decoded, and not one hop too many.
Usable(f) ==
  /\ f.depth <= MaxDeltaDepth
  /\ f.off \in DOMAIN in.entries
  /\ EntryOf(f).kind # "damaged"
  /\ EntryOf(f).kind = "ofs" => EntryOf(f).back \in 1 .. f.off

ReadEntry(w) ==
  /\ pc[w] = "entry"
  /\ \/ ~Usable(Top(w)) /\ Fail(w, "corrupt")
     \/ /\ Usable(Top(w)) /\ EntryOf(Top(w)).kind = "whole"
        /\ Return(w, Private(EntryOf(Top(w)).data))
     \/ /\ Usable(Top(w)) /\ EntryOf(Top(w)).kind = "ofs"
        /\ Push(w, FrameAt(Top(w).off - EntryOf(Top(w)).back, Top(w).depth + 1))
        /\ UNCHANGED << pc, result >>
     \/ /\ Usable(Top(w)) /\ EntryOf(Top(w)).kind = "ref"
        /\ Push(w, FrameFor(EntryOf(Top(w)).base, Top(w).depth + 1))
        /\ Goto(w, "search") /\ UNCHANGED result
  /\ UNCHANGED << in, buffers >>

-----------------------------------------------------------------------------
(* The pool and ApplyDeltaWithBuffer                                       *)

Frames(w)  == { stack[w][i] : i \in DOMAIN stack[w] }
Objects(w) == { f.base : f \in Frames(w) } \cup {result[w].obj}

\* Arrays that nobody can reach, the pool included.
Fresh == { b \in Buffer :
             /\ pool[b] = 0
             /\ \A w \in Worker : /\ \A f \in Frames(w)  : f.buf # b
                                  /\ \A o \in Objects(w) : o.buf # b }

\* PutDeltaBuffer: large buffers are left to the garbage collector.
Put(b) == pool' = IF cap[b] > MaxPooledCap THEN pool
                                           ELSE [pool EXCEPT ![b] = @ + 1]

DeltaOf(w) == EntryOf(Top(w)).delta

\* The header is good and the base is the one the delta was made for.
Applies(w) == DeltaOf(w).header /\ DeltaOf(w).base = Top(w).base.len

\* The array: grown, so new, if the target does not fit.
Prepare(w, b, m, c) ==
  LET grown == Applies(w) /\ c < DeltaOf(w).target
  IN  /\ mem' = [mem EXCEPT ![b] = IF grown THEN NoArray ELSE m]
      /\ cap' = [cap EXCEPT ![b] = IF grown THEN DeltaOf(w).target ELSE c]
      /\ SetTop(w, [Top(w) EXCEPT !.buf = b, !.ok = Applies(w)])
      /\ Goto(w, IF Applies(w) THEN "ops" ELSE "putbase")

\* The base's buffer is put back before the delta reads it.
GetBufferFault(w) ==
  /\ pc[w] = "apply"
  /\ \/ \E b \in Buffer :
          /\ pool[b] > 0
          /\ pool' = IF Top(w).base.buf = NoBuffer THEN [pool EXCEPT ![b] = @ - 1]
                     ELSE [pool EXCEPT ![b] = @ - 1, ![Top(w).base.buf] = @ + 1]
          /\ Prepare(w, b, mem[b], cap[b])
     \/ /\ Fresh # {}
        /\ LET b == CHOOSE x \in Fresh : TRUE IN Prepare(w, b, NoArray, NewCap)
        /\ IF Top(w).base.buf = NoBuffer THEN UNCHANGED pool
                                         ELSE Put(Top(w).base.buf)
  /\ UNCHANGED << in, result >>

\* GetDeltaBuffer from the pool, or from its New function.
GetBuffer(w) ==
  /\ pc[w] = "apply"
  /\ \/ \E b \in Buffer :
          /\ pool[b] > 0
          /\ pool' = [pool EXCEPT ![b] = @ - 1]
          /\ Prepare(w, b, mem[b], cap[b])
     \/ /\ Fresh # {}
        /\ LET b == CHOOSE x \in Fresh : TRUE IN Prepare(w, b, NoArray, NewCap)
        /\ UNCHANGED pool
  /\ UNCHANGED << in, result >>

CopySize(op) == IF op.size = 0 THEN ZeroCopySize ELSE op.size

\* What an instruction appends, if it may.
Legal(w, op) == CASE op.kind = "copy"   -> op.at + CopySize(op) <= Top(w).base.len
                  [] op.kind = "insert" -> TRUE
                  [] op.kind = "zero"   -> FALSE
Piece(w, op) == IF op.kind = "insert" THEN op.data
                ELSE SubSeq(BytesOf(Top(w).base), op.at + 1, op.at + CopySize(op))

\* append within the capacity writes to the array; beyond it, to a new one.
Write(b, from, d) ==
  mem' = [mem EXCEPT ![b] =
    IF from + Len(d) > cap[b] THEN @
    ELSE [i \in DOMAIN @ |-> IF i \in from + 1 .. from + Len(d) THEN d[i - from]
                                                              ELSE @[i]]]

\* One instruction of applyDeltaInstructions.
RunOp(w) ==
  /\ pc[w] = "ops" /\ Top(w).op <= Len(DeltaOf(w).ops)
  /\ LET op == DeltaOf(w).ops[Top(w).op]
     IN  \/ /\ Legal(w, op)
            /\ Write(Top(w).buf, Top(w).len, Piece(w, op))
            /\ SetTop(w, [Top(w) EXCEPT !.op = @ + 1,
                                        !.len = @ + Len(Piece(w, op))])
            /\ UNCHANGED pc
         \/ /\ ~Legal(w, op)
            /\ SetTop(w, [Top(w) EXCEPT !.ok = FALSE])
            /\ Goto(w, "putbase") /\ UNCHANGED mem
  /\ UNCHANGED << in, pool, cap, result >>

\* The target must have the size that the delta states.
EndOps(w) ==
  /\ pc[w] = "ops" /\ Top(w).op > Len(DeltaOf(w).ops)
  /\ SetTop(w, [Top(w) EXCEPT !.ok = (Top(w).len = DeltaOf(w).target)])
  /\ Goto(w, "putbase")
  /\ UNCHANGED << in, buffers, result >>

-----------------------------------------------------------------------------
(* readObjectAt after the delta                                            *)

\* The base is not needed any more, whether the delta could be applied or not.
PutBase(w) ==
  /\ pc[w] = "putbase"
  /\ IF Top(w).base.buf = NoBuffer THEN UNCHANGED pool ELSE Put(Top(w).base.buf)
  /\ SetTop(w, [Top(w) EXCEPT !.base = NoObject])
  /\ Goto(w, IF Top(w).ok THEN "hand" ELSE "discard")
  /\ UNCHANGED << in, mem, cap, result >>

Discard(w) ==
  /\ pc[w] = "discard"
  /\ Put(Top(w).buf)
  /\ Fail(w, "corrupt")
  /\ UNCHANGED << in, mem, cap >>

\* The buffer goes back to the pool as well.
HandUpFault(w) ==
  /\ pc[w] = "hand" /\ Top(w).depth > 0
  /\ Put(Top(w).buf)
  /\ Return(w, Slice(Top(w).buf, Top(w).len))
  /\ UNCHANGED << in, mem, cap >>

\* A base is handed up in its buffer.
HandUp(w) ==
  /\ pc[w] = "hand" /\ Top(w).depth > 0
  /\ Return(w, Slice(Top(w).buf, Top(w).len))
  /\ UNCHANGED << in, buffers >>

\* The object that was asked for is copied out of it.
CopyOut(w) ==
  /\ pc[w] = "hand" /\ Top(w).depth = 0
  /\ SetTop(w, [Top(w) EXCEPT !.base = Private(BytesOf(Slice(Top(w).buf, Top(w).len)))])
  /\ Goto(w, "putown")
  /\ UNCHANGED << in, buffers, result >>

PutOwn(w) ==
  /\ pc[w] = "putown"
  /\ Put(Top(w).buf)
  /\ Return(w, Top(w).base)
  /\ UNCHANGED << in, mem, cap >>

\* The garbage collector may empty a sync.Pool.
Collect ==
  /\ \E b \in Buffer : pool[b] > 0 /\ pool' = [pool EXCEPT ![b] = @ - 1]
  /\ UNCHANGED << in, mem, cap, pc, stack, result >>

-----------------------------------------------------------------------------
Next ==
  \/ \E w \in Worker :
       \/ Call(w) \/ CallWithoutPack(w)
       \/ SearchStep(w) \/ SearchHit(w) \/ SearchMiss(w)
       \/ ReadEntry(w) \/ GetBuffer(w) \/ RunOp(w) \/ EndOps(w)
       \/ PutBase(w) \/ Discard(w) \/ HandUp(w) \/ CopyOut(w) \/ PutOwn(w)
  \/ Collect

Spec == Init /\ [][Next]_vars

-----------------------------------------------------------------------------
(* Properties.                                                             *)

(***************************************************************************)
(* A buffer is in the pool once, or in the hands of one frame, or holds    *)
(* the base of one frame; no object that was returned lies in it.          *)
(***************************************************************************)
Holders(b) ==
  UNION { {<< w, i, "own" >>  : i \in {k \in DOMAIN stack[w] : stack[w][k].buf = b}}
     \cup {<< w, i, "base" >> : i \in {k \in DOMAIN stack[w] : stack[w][k].base.buf = b}}
     \cup {<< w, 0, "result" >> : i \in {k \in {1} : result[w].obj.buf = b}}
          : w \in Worker }
OneOwner == \A b \in Buffer : pool[b] + Cardinality(Holders(b)) <= 1

\* The names are sorted and the fanout table counts them, as git writes them.
WellFormed ==
  /\ \A i, k \in DOMAIN in.names : i < k => Before(in.names[i], in.names[k])
  /\ \A b \in 0 .. LastByte :
       in.fanout[b] = Cardinality({ i \in DOMAIN in.names : in.names[i][1] <= b })

(***************************************************************************)
(* However the files are damaged, the search stays inside the table of an  *)
(* accepted index; in a sound one it never loses the name it looks for.    *)
(***************************************************************************)
SearchKeepsTheName ==
  \A w \in Worker : pc[w] = "search" =>
    /\ Top(w).high <= Len(in.names)
    /\ WellFormed => \A i \in DOMAIN in.names :
         in.names[i] = Top(w).name => i \in Top(w).low + 1 .. Top(w).high

(***************************************************************************)
(* What the bytes of a sound pack say, without search, pool or aliasing:   *)
(* an object is its data or an error.                                      *)
(***************************************************************************)
Bad(e)  == [err |-> e, data |-> << >>]
Good(d) == [err |-> "none", data |-> d]

\* What an instruction adds, and what the first i of them make of a base.
Copies(op, base) == op.kind = "copy" /\ op.at + CopySize(op) <= Len(base)
Added(op, base)  == IF op.kind = "insert" THEN op.data
                    ELSE IF Copies(op, base)
                         THEN SubSeq(base, op.at + 1, op.at + CopySize(op)) ELSE << >>
Built(delta, base) ==
  LET B[i \in 0 .. Len(delta.ops)] ==
        IF i = 0 THEN << >> ELSE B[i - 1] \o Added(delta.ops[i], base)
  IN  B

IsSound(delta, base) ==
  /\ delta.header /\ delta.base = Len(base)
  /\ \A i \in DOMAIN delta.ops :
       delta.ops[i].kind = "insert" \/ Copies(delta.ops[i], base)
  /\ Len(Built(delta, base)[Len(delta.ops)]) = delta.target
Target(delta, base) == IF IsSound(delta, base)
                       THEN Good(Built(delta, base)[Len(delta.ops)]) ELSE Bad("corrupt")

\* A delta on a base that may itself be an error.
On(delta, base) == IF base.err # "none" THEN base ELSE Target(delta, base.data)

\* The offsets that the index of pack p has for name n.
OffsetsOf(p, n) ==
  { IF r.wide THEN p.wide[r.at + 1] ELSE r.at
      : r \in { p.offsets[i] : i \in { k \in DOMAIN p.names : p.names[k] = n
                  /\ LET r == p.offsets[k] IN r.wide =>
                       r.at < Len(p.wide) /\ p.wide[r.at + 1] <= MaxOffset } } }

\* The object of a name, if at[o] is the object at offset o.
Found(p, n, at) ==
  IF n \notin { p.names[i] : i \in DOMAIN p.names } THEN Bad("absent")
  ELSE IF OffsetsOf(p, n) = {} THEN Bad("invalid")
                               ELSE at[CHOOSE o \in OffsetsOf(p, n) : TRUE]

\* The object at an offset for a reader that has come down depth deltas, if M
\* has those that it may rest on.
Decode(p, M, depth, off) ==
  IF depth > MaxDeltaDepth \/ off \notin DOMAIN p.entries THEN Bad("corrupt")
  ELSE LET e == p.entries[off]
       IN  CASE e.kind = "damaged" -> Bad("corrupt")
             [] e.kind = "whole"   -> Good(e.data)
             [] e.kind = "ofs"     ->
                  IF e.back \in 1 .. off THEN On(e.delta, M[depth + 1][off - e.back])
                                         ELSE Bad("corrupt")
             [] e.kind = "ref"     -> On(e.delta, Found(p, e.base, M[depth + 1]))

Decoded(p) ==
  LET M[depth \in 0 .. MaxDeltaDepth + 1] ==
        [off \in 0 .. MaxOffset |-> Decode(p, M, depth, off)]
  IN  M

Meaning(p) == [n \in p.wanted |-> Found(p, n, Decoded(p)[0])]

(***************************************************************************)
(* A read of a sound pack yields the object or the error that its bytes    *)
(* say, and an object that was returned stays what it is, whatever the     *)
(* other workers decode afterwards.                                        *)
(***************************************************************************)
ReadsTheObject ==
  WellFormed => \A w \in Worker :
    pc[w] = "idle" /\ result[w] # NoResult =>
      Meaning(in)[result[w].name] =
        [err |-> result[w].err, data |-> BytesOf(result[w].obj)]
=============================================================================
