--------------------------- MODULE PackFile_proofs ---------------------------
(***************************************************************************)
(* Proofs about PackFile, for any number of workers and buffers, any pack, *)
(* sound or damaged, and any limits.                                       *)
(***************************************************************************)
EXTENDS PackFile, RecursionLemmas, SequenceTheorems, FiniteSetTheorems

Label    == {"idle", "search", "entry", "apply", "ops", "putbase", "hand", "discard", "putown"}
Applying == {"apply", "ops", "putbase", "hand", "discard", "putown"}
Error    == {"none", "absent", "invalid", "corrupt"}

\* What an array holds, and what a read hands over.
Item   == Byte \cup {Blank}
Object ==
  { o \in [buf : Buffer \cup {NoBuffer}, len : Nat, data : Seq(Item)] :
      IF o.buf = NoBuffer THEN o.len = Len(o.data) ELSE o.len <= MaxCap }

FrameType ==
  [name : Name, low : Nat, high : Nat, off : Nat, depth : Nat, base : Object,
   buf : Buffer \cup {NoBuffer}, len : Nat, op : Nat \ {0}, ok : BOOLEAN]

Level(w) == Len(stack[w])

\* The entry of a frame is a delta.
IsDelta(f) == f.off \in DOMAIN in.entries /\ EntryOf(f).kind \in {"ofs", "ref"}

\* What the innermost frame of a worker is at each label.
Fits(l, f) ==
  /\ l \in Applying => IsDelta(f)
  /\ l \in Applying \ {"apply"} => f.buf \in Buffer
  /\ l = "putbase" /\ f.ok => f.len <= MaxCap
  /\ l = "hand" => f.len <= MaxCap
  /\ l = "putown" => f.base.buf = NoBuffer /\ f.depth = 0
  /\ l = "search" => f.high <= Len(in.names)

(***************************************************************************)
(* A worker in a read has frames, one for each hop; those below the top    *)
(* are deltas that wait for their base.  From the start of the delta to    *)
(* the end of its frame the frame owns a buffer, and a target that passed  *)
(* its check fits an array.                                                *)
(***************************************************************************)
WorkerType(w) ==
  /\ stack[w] = << >> <=> pc[w] = "idle"
  /\ pc[w] # "idle" => Opens /\ Fits(pc[w], Top(w))
  /\ \A i \in 1 .. Level(w) : stack[w][i].depth = i - 1
  /\ \A i \in 1 .. Level(w) - 1 : IsDelta(stack[w][i])
  /\ result[w].obj.buf = NoBuffer

TypeInv ==
  /\ in \in Input
  /\ pool \in [Buffer -> Nat]
  /\ mem \in [Buffer -> [1 .. MaxCap -> Item]]
  /\ cap \in [Buffer -> 0 .. MaxCap]
  /\ pc \in [Worker -> Label]
  /\ stack \in [Worker -> Seq(FrameType)]
  /\ result \in [Worker -> [name : Name, err : Error, obj : Object]]
  /\ \A w \in Worker : WorkerType(w)

(***************************************************************************)
(* The places where a frame may hold a buffer, and what each holds.        *)
(***************************************************************************)
Slots(s) == UNION { {w} \X (DOMAIN s[w]) \X {"own", "base"} : w \in Worker }
At(s, g) == IF g[3] = "own" THEN s[g[1]][g[2]].buf ELSE s[g[1]][g[2]].base.buf

(***************************************************************************)
(* OneOwner without cardinalities: a buffer is in the pool at most once,   *)
(* then no frame holds it, and otherwise it is held in one place at most.  *)
(***************************************************************************)
Unheld(s, b) == \A g \in Slots(s) : At(s, g) # b
Apart(s)     == \A g, h \in Slots(s) : At(s, g) = At(s, h) /\ At(s, g) \in Buffer => g = h
OwnInv ==
  /\ pool \in [Buffer -> 0 .. 1]
  /\ \A b \in Buffer : pool[b] = 1 => Unheld(stack, b)
  /\ Apart(stack)

\* The bounds of a search enclose the name that it looks for.
Encloses(f) ==
  \A i \in DOMAIN in.names : in.names[i] = f.name => i \in f.low + 1 .. f.high

\* No search loses its name, if the index is sound.
SearchInv == WellFormed => \A w \in Worker : pc[w] = "search" => Encloses(Top(w))

-----------------------------------------------------------------------------
(* Packs, objects and frames.                                              *)

\* A pack is what its type says.
LEMMA PackFacts ==
  ASSUME TypeInv
  PROVE  /\ in.fanout \in [0 .. LastByte -> Nat] /\ in.names \in Seq(Name)
         /\ in.offsets \in Seq(RawOffset) /\ Len(in.offsets) = Len(in.names)
         /\ in.wide \in Seq(Nat) /\ in.entries \in Seq(Entry)
         /\ in.wanted \in SUBSET Name
         /\ DOMAIN in.names = 1 .. Len(in.names) /\ Len(in.names) \in Nat
         /\ DOMAIN in.entries = 1 .. Len(in.entries) /\ Len(in.entries) \in Nat
<1>1. in \in PackType /\ Len(in.offsets) = Len(in.names)
  BY InputAssumption DEF TypeInv
<1>2. /\ in.fanout \in [0 .. LastByte -> Nat] /\ in.names \in Seq(Name)
      /\ in.offsets \in Seq(RawOffset) /\ in.wide \in Seq(Nat)
      /\ in.entries \in Seq(Entry) /\ in.wanted \in SUBSET Name
  BY <1>1 DEF PackType
<1>3. QED
  BY <1>1, <1>2, LenProperties

\* An entry is of one of the four kinds.
LEMMA EntryFacts ==
  ASSUME TypeInv, NEW f \in FrameType, f.off \in DOMAIN in.entries
  PROVE  /\ EntryOf(f) \in Entry
         /\ EntryOf(f).kind \in {"damaged", "whole", "ofs", "ref"}
         /\ EntryOf(f).kind = "whole" => EntryOf(f).data \in Seq(Byte)
         /\ EntryOf(f).kind = "ofs" => EntryOf(f).back \in Nat
         /\ EntryOf(f).kind = "ref" => EntryOf(f).base \in Name
         /\ EntryOf(f).kind \in {"ofs", "ref"} => EntryOf(f).delta \in Delta
<1>1. EntryOf(f) \in Entry
  BY PackFacts, ElementOfSeq DEF EntryOf
<1>2. QED
  BY <1>1 DEF Entry

\* A delta is what its type says.
LEMMA DeltaFacts ==
  ASSUME NEW d \in Delta
  PROVE  /\ d.header \in BOOLEAN /\ d.base \in Nat /\ d.target \in 0 .. MaxCap
         /\ d.ops \in Seq(Op) /\ Len(d.ops) \in Nat
         /\ \A i \in 1 .. Len(d.ops) : d.ops[i] \in Op
<1>1. /\ d.header \in BOOLEAN /\ d.base \in Nat /\ d.target \in 0 .. MaxCap
      /\ d.ops \in Seq(Op)
  BY DEF Delta
<1>2. QED
  BY <1>1, LenProperties, ElementOfSeq

\* Data without a buffer is an object, and so is what fits a buffer.
LEMMA ObjectFacts ==
  /\ NoObject \in Object /\ NoObject.buf = NoBuffer
  /\ \A d \in Seq(Item) : Private(d) \in Object /\ Private(d).buf = NoBuffer
  /\ \A b \in Buffer : \A n \in 0 .. MaxCap :
       /\ Slice(b, n) \in Object /\ Slice(b, n).buf = b /\ Slice(b, n).len = n
  /\ \A o \in Object : o.buf \in Buffer \cup {NoBuffer} /\ o.len \in Nat
<1>1. << >> \in Seq(Item) /\ Len(<< >>) = 0
  BY EmptySeq
<1>2. NoObject \in Object /\ NoObject.buf = NoBuffer
  BY <1>1 DEF NoObject, Object
<1>3. ASSUME NEW d \in Seq(Item) PROVE Private(d) \in Object /\ Private(d).buf = NoBuffer
  BY LenProperties DEF Private, Object
<1>4. ASSUME NEW b \in Buffer, NEW n \in 0 .. MaxCap
      PROVE  Slice(b, n) \in Object /\ Slice(b, n).buf = b /\ Slice(b, n).len = n
  BY <1>1, BufferAssumption, SizeAssumption DEF Slice, Object
<1>5. ASSUME NEW o \in Object PROVE o.buf \in Buffer \cup {NoBuffer} /\ o.len \in Nat
  BY DEF Object
<1>6. QED
  BY <1>2, <1>3, <1>4, <1>5

\* The bytes of an object are as many as it says.
LEMMA BytesOfTyped ==
  ASSUME TypeInv, NEW o \in Object
  PROVE  BytesOf(o) \in Seq(Item) /\ Len(BytesOf(o)) = o.len
<1>1. CASE o.buf = NoBuffer
  BY <1>1 DEF BytesOf, Object
<1>2. CASE o.buf # NoBuffer
  <2>1. o.buf \in Buffer /\ o.len \in 0 .. MaxCap
    BY <1>2 DEF Object
  <2>2. \A i \in 1 .. o.len : mem[o.buf][i] \in Item
    <3>1. mem[o.buf] \in [1 .. MaxCap -> Item]
      BY <2>1 DEF TypeInv
    <3>2. MaxCap \in Nat
      BY SizeAssumption
    <3>3. \A i \in 1 .. o.len : i \in 1 .. MaxCap
      BY <2>1, <3>2
    <3>4. QED
      BY <3>1, <3>3
  <2>3. /\ SubSeq(mem[o.buf], 1, o.len) \in Seq(Item)
        /\ Len(SubSeq(mem[o.buf], 1, o.len)) = IF 1 <= o.len THEN o.len - 1 + 1 ELSE 0
    BY <2>1, <2>2, SizeAssumption, SubSeqProperties
  <2>4. QED
    BY <1>2, <2>1, <2>3, SizeAssumption DEF BytesOf
<1>3. QED
  BY <1>1, <1>2

\* A worker in a read has an innermost frame.
LEMMA TopFrame ==
  ASSUME TypeInv, NEW w \in Worker, pc[w] # "idle"
  PROVE  /\ Level(w) \in Nat \ {0} /\ Top(w) \in FrameType /\ Top(w) = stack[w][Level(w)]
         /\ stack[w] \in Seq(FrameType) /\ stack[w] # << >>
         /\ DOMAIN stack[w] = 1 .. Level(w)
         /\ \A l \in 1 .. Level(w) : stack[w][l] \in FrameType
<1>1. stack[w] \in Seq(FrameType) /\ stack[w] # << >>
  BY DEF TypeInv, WorkerType
<1>2. Level(w) \in Nat \ {0} /\ DOMAIN stack[w] = 1 .. Level(w)
  BY <1>1, EmptySeq, LenProperties DEF Level
<1>3. \A l \in 1 .. Level(w) : stack[w][l] \in FrameType
  BY <1>1, ElementOfSeq DEF Level
<1>4. Top(w) = stack[w][Level(w)]
  BY DEF Top, Level
<1>5. QED
  BY <1>1, <1>2, <1>3, <1>4

\* Replacing the innermost frame leaves the outer ones alone.
LEMMA SetTopEffect ==
  ASSUME TypeInv, NEW w \in Worker, pc[w] # "idle", NEW f \in FrameType, SetTop(w, f)
  PROVE  /\ stack' \in [Worker -> Seq(FrameType)] /\ stack'[w] # << >>
         /\ \A u \in Worker : u # w => stack'[u] = stack[u]
         /\ Level(w)' = Level(w) /\ Top(w)' = f /\ stack'[w][Level(w)] = f
         /\ DOMAIN stack'[w] = 1 .. Level(w)
         /\ \A l \in 1 .. Level(w) - 1 : stack'[w][l] = stack[w][l]
<1> DEFINE s == [stack[w] EXCEPT ![Level(w)] = f]
<1>1. stack' = [stack EXCEPT ![w] = s] /\ stack \in [Worker -> Seq(FrameType)]
  BY DEF SetTop, TypeInv, Level
<1>2. Level(w) \in 1 .. Len(stack[w]) /\ stack[w] \in Seq(FrameType)
  BY TopFrame DEF Level
<1>3. /\ s \in Seq(FrameType) /\ Len(s) = Len(stack[w])
      /\ \A l \in 1 .. Len(stack[w]) : s[l] = IF l = Level(w) THEN f ELSE stack[w][l]
  BY <1>2, ExceptSeq
<1> HIDE DEF s
<1>4. stack'[w] = s
  BY <1>1
<1>5. s # << >> /\ DOMAIN s = 1 .. Level(w)
  BY <1>2, <1>3, EmptySeq, LenProperties DEF Level
<1>6. stack' \in [Worker -> Seq(FrameType)] /\ \A u \in Worker : u # w => stack'[u] = stack[u]
  BY <1>1, <1>3
<1>7. s[Level(w)] = f /\ \A l \in 1 .. Level(w) - 1 : s[l] = stack[w][l]
  BY <1>2, <1>3
<1>8. Level(w)' = Level(w) /\ Top(w)' = f
  BY <1>3, <1>4, <1>7 DEF Level, Top
<1>9. QED
  BY <1>4, <1>5, <1>6, <1>7, <1>8

\* A hop puts a frame on top.
LEMMA PushEffect ==
  ASSUME TypeInv, NEW w \in Worker, pc[w] # "idle", NEW f \in FrameType, Push(w, f)
  PROVE  /\ stack' \in [Worker -> Seq(FrameType)] /\ stack'[w] # << >>
         /\ \A u \in Worker : u # w => stack'[u] = stack[u]
         /\ Level(w)' = Level(w) + 1 /\ Top(w)' = f /\ stack'[w][Level(w) + 1] = f
         /\ DOMAIN stack'[w] = 1 .. Level(w) + 1
         /\ \A l \in 1 .. Level(w) : stack'[w][l] = stack[w][l]
<1> DEFINE s == Append(stack[w], f)
<1>1. stack' = [stack EXCEPT ![w] = s] /\ stack \in [Worker -> Seq(FrameType)]
  BY DEF TypeInv, Push
<1>2. /\ s \in Seq(FrameType) /\ s # << >> /\ Len(s) = Len(stack[w]) + 1
      /\ \A l \in 1 .. Len(stack[w]) : s[l] = stack[w][l]
      /\ s[Len(stack[w]) + 1] = f
  BY <1>1, AppendProperties
<1>3. DOMAIN s = 1 .. Len(stack[w]) + 1
  BY <1>2, LenProperties
<1> HIDE DEF s
<1>4. QED
  BY <1>1, <1>2, <1>3, TopFrame DEF Level, Top

\* The end of a frame uncovers the one below, or ends the read.
LEMMA ReturnEffect ==
  ASSUME TypeInv, NEW w \in Worker, pc[w] # "idle", NEW o \in Object, Return(w, o)
  PROVE  /\ stack' \in [Worker -> Seq(FrameType)]
         /\ \A u \in Worker : u # w => stack'[u] = stack[u]
         /\ Level(w) = 1 =>
               /\ stack'[w] = << >>
               /\ result' = [result EXCEPT ![w] = [name |-> Top(w).name, err |-> "none", obj |-> o]]
               /\ pc' = [pc EXCEPT ![w] = "idle"]
         /\ Level(w) # 1 =>
               /\ Level(w) > 1 /\ stack'[w] # << >>
               /\ Level(w)' = Level(w) - 1 /\ DOMAIN stack'[w] = 1 .. Level(w) - 1
               /\ Top(w)' = [stack[w][Level(w) - 1] EXCEPT !.base = o]
               /\ stack'[w][Level(w) - 1] = [stack[w][Level(w) - 1] EXCEPT !.base = o]
               /\ \A l \in 1 .. Level(w) - 2 : stack'[w][l] = stack[w][l]
               /\ result' = result
               /\ pc' = [pc EXCEPT ![w] = "apply"]
<1> DEFINE below == SubSeq(stack[w], 1, Level(w) - 1)
           g == [stack[w][Level(w) - 1] EXCEPT !.base = o]
           s == [below EXCEPT ![Len(below)] = g]
<1>1. /\ stack \in [Worker -> Seq(FrameType)] /\ Level(w) \in Nat \ {0}
      /\ \A l \in 1 .. Level(w) : stack[w][l] \in FrameType
  BY TopFrame DEF TypeInv
<1>2. /\ below \in Seq(FrameType) /\ Len(below) = Level(w) - 1
      /\ \A l \in 1 .. Level(w) - 1 : below[l] = stack[w][l]
  <2>1. 1 \in Int /\ Level(w) - 1 \in Int /\ \A l \in 1 .. Level(w) - 1 : stack[w][l] \in FrameType
    BY <1>1
  <2>2. /\ below \in Seq(FrameType)
        /\ Len(below) = IF 1 <= Level(w) - 1 THEN (Level(w) - 1) - 1 + 1 ELSE 0
        /\ \A l \in 1 .. (Level(w) - 1) - 1 + 1 : below[l] = stack[w][1 + l - 1]
    BY <2>1, SubSeqProperties
  <2> HIDE DEF below
  <2>3. QED
    BY <1>1, <2>2
<1>3. below = << >> <=> Level(w) = 1
  <2> HIDE DEF below
  <2>1. QED
    BY <1>1, <1>2, EmptySeq
<1>4. CASE Level(w) = 1
  <2>1. /\ result' = [result EXCEPT ![w] = [name |-> Top(w).name, err |-> "none", obj |-> o]]
        /\ stack' = [stack EXCEPT ![w] = << >>] /\ pc' = [pc EXCEPT ![w] = "idle"]
    BY <1>3, <1>4 DEF Return, Goto, Level
  <2>2. QED
    BY <1>1, <1>4, <2>1, EmptySeq
<1>5. CASE Level(w) # 1
  <2>1. Level(w) > 1 /\ Len(below) \in 1 .. Len(below) /\ Level(w) - 1 \in 1 .. Level(w)
    BY <1>1, <1>2, <1>5
  <2>2. below[Len(below)] = stack[w][Level(w) - 1]
    BY <1>1, <1>2, <2>1
  <2>3. /\ stack' = [stack EXCEPT ![w] = [below EXCEPT ![Len(below)].base = o]]
        /\ pc' = [pc EXCEPT ![w] = "apply"] /\ result' = result
    BY <1>3, <1>5 DEF Return, Goto, Level
  <2>4. stack' = [stack EXCEPT ![w] = s]
    <3> HIDE DEF below
    <3>1. [below EXCEPT ![Len(below)].base = o]
            = [below EXCEPT ![Len(below)] = [below[Len(below)] EXCEPT !.base = o]]
      OBVIOUS
    <3>2. QED
      BY <2>2, <2>3, <3>1
  <2>5. g \in FrameType
    BY <1>1, <2>1 DEF FrameType
  <2> HIDE DEF g, below
  <2>6. /\ s \in Seq(FrameType) /\ Len(s) = Level(w) - 1
        /\ \A l \in 1 .. Level(w) - 1 : s[l] = IF l = Level(w) - 1 THEN g ELSE below[l]
    BY <1>2, <2>1, <2>5, ExceptSeq
  <2> HIDE DEF s
  <2>7. stack'[w] = s /\ \A u \in Worker : u # w => stack'[u] = stack[u]
    BY <1>1, <2>4
  <2>8. s # << >> /\ DOMAIN s = 1 .. Level(w) - 1 /\ s[Level(w) - 1] = g
    BY <1>1, <2>1, <2>6, EmptySeq, LenProperties
  <2>9. Level(w)' = Level(w) - 1 /\ Top(w)' = g
    BY <1>1, <2>1, <2>6, <2>7, <2>8 DEF Level, Top
  <2>10. stack' \in [Worker -> Seq(FrameType)]
    BY <1>1, <2>4, <2>6
  <2>11. \A l \in 1 .. Level(w) - 2 : s[l] = stack[w][l]
    BY <1>1, <1>2, <2>1, <2>6
  <2>12. /\ Top(w)' = [stack[w][Level(w) - 1] EXCEPT !.base = o]
         /\ stack'[w][Level(w) - 1] = [stack[w][Level(w) - 1] EXCEPT !.base = o]
    BY <2>7, <2>8, <2>9, Zenon DEF g
  <2>13. \A l \in 1 .. Level(w) - 2 : stack'[w][l] = stack[w][l]
    BY <2>7, <2>11
  <2>14. DOMAIN stack'[w] = 1 .. Level(w) - 1 /\ stack'[w] # << >>
    BY <2>7, <2>8
  <2>15. QED
    BY <1>5, <2>1, <2>3, <2>7, <2>9, <2>10, <2>12, <2>13, <2>14
<1>6. QED
  BY <1>4, <1>5

\* An error ends the read.
LEMMA FailEffect ==
  ASSUME TypeInv, NEW w \in Worker, pc[w] # "idle", NEW e \in Error, Fail(w, e)
  PROVE  /\ stack' \in [Worker -> Seq(FrameType)] /\ stack'[w] = << >>
         /\ \A u \in Worker : u # w => stack'[u] = stack[u]
         /\ pc' = [pc EXCEPT ![w] = "idle"]
         /\ stack[w][1].name \in Name
         /\ result' = [result EXCEPT ![w] = [name |-> stack[w][1].name, err |-> e, obj |-> NoObject]]
<1>1. stack' = [stack EXCEPT ![w] = << >>] /\ stack \in [Worker -> Seq(FrameType)]
  BY DEF Fail, TypeInv
<1>2. << >> \in Seq(FrameType)
  BY EmptySeq
<1>3. stack[w][1] \in FrameType
  BY TopFrame
<1>4. QED
  BY <1>1, <1>2, <1>3 DEF Fail, Goto, FrameType

-----------------------------------------------------------------------------
(* Types.                                                                  *)

\* The initial state has its types.
LEMMA InitTypeInv == Init => TypeInv
<1> SUFFICES ASSUME Init PROVE TypeInv
  OBVIOUS
<1>1. pool \in [Buffer -> Nat] /\ mem \in [Buffer -> [1 .. MaxCap -> Item]]
  BY DEF Init, NoArray, Item
<1>2. NewCap \in 0 .. MaxCap /\ cap \in [Buffer -> 0 .. MaxCap]
  BY SizeAssumption DEF Init
<1>3. << >> \in Seq(FrameType) /\ Len(<< >>) = 0
  BY EmptySeq
<1>4. stack \in [Worker -> Seq(FrameType)] /\ \A w \in Worker : stack[w] = << >>
  BY <1>3 DEF Init
<1>5. NoResult \in [name : Name, err : Error, obj : Object] /\ NoResult.obj.buf = NoBuffer
  <2>1. << 0, 0 >> \in Name
    BY SizeAssumption DEF Name
  <2>2. QED
    BY <2>1, ObjectFacts DEF NoResult, Error
<1>6. result \in [Worker -> [name : Name, err : Error, obj : Object]]
  BY <1>5 DEF Init
<1>7. \A w \in Worker : WorkerType(w)
  BY <1>3, <1>4, <1>5 DEF Init, WorkerType, Level
<1>8. QED
  BY <1>1, <1>2, <1>4, <1>6, <1>7 DEF Init, TypeInv, Label

\* The buckets of an accepted index end within the table of names.
LEMMA FanoutInTable ==
  ASSUME TypeInv, Opens, NEW b \in 0 .. LastByte
  PROVE  in.fanout[b] <= Len(in.names)
<1> DEFINE T == { k \in 0 .. LastByte : ~(in.fanout[LastByte - k] <= Count) }
<1>1. LastByte \in Nat /\ in.fanout \in [0 .. LastByte -> Nat] /\ Len(in.names) \in Nat
  BY PackFacts, SizeAssumption
<1>2. /\ \A k \in 1 .. LastByte : in.fanout[k - 1] <= in.fanout[k]
      /\ Count = in.fanout[LastByte] /\ Count <= Len(in.names) /\ Count \in Nat
  BY <1>1 DEF Opens, Count
<1> HIDE DEF Count
<1>3. T = {}
  <2> SUFFICES ASSUME T # {} PROVE FALSE
    OBVIOUS
  <2>1. T \in SUBSET Nat
    OBVIOUS
  <2> HIDE DEF T
  <2>2. PICK m \in T : \A k \in T : m <= k
    BY <2>1, LeastElement
  <2>3. m \in 0 .. LastByte /\ ~(in.fanout[LastByte - m] <= Count)
    BY <2>2 DEF T
  <2>4. m # 0
    BY <1>1, <1>2, <2>3
  <2>5. m - 1 \in 0 .. LastByte /\ m - 1 \notin T
    BY <1>1, <2>2, <2>3, <2>4
  <2>6. in.fanout[LastByte - (m - 1)] <= Count
    BY <2>5 DEF T
  <2>7. LastByte - (m - 1) \in 1 .. LastByte /\ (LastByte - (m - 1)) - 1 = LastByte - m
    BY <1>1, <2>3, <2>4
  <2>8. in.fanout[LastByte - m] <= in.fanout[LastByte - (m - 1)]
    BY <1>2, <2>7
  <2>9. in.fanout[LastByte - m] \in Nat /\ in.fanout[LastByte - (m - 1)] \in Nat
    BY <1>1, <2>3, <2>7
  <2>10. QED
    BY <1>2, <2>3, <2>6, <2>8, <2>9
<1>4. LastByte - b \in 0 .. LastByte /\ LastByte - (LastByte - b) = b
  BY <1>1
<1>5. in.fanout[b] <= Count /\ in.fanout[b] \in Nat
  BY <1>1, <1>3, <1>4
<1>6. QED
  BY <1>1, <1>2, <1>5

\* New frames.
LEMMA NewFrameAt ==
  ASSUME NEW off \in Nat, NEW d \in Nat
  PROVE  /\ FrameAt(off, d) \in FrameType
         /\ FrameAt(off, d).depth = d /\ FrameAt(off, d).off = off
         /\ FrameAt(off, d).buf = NoBuffer /\ FrameAt(off, d).base = NoObject
         /\ FrameAt(off, d).high = 0 /\ FrameAt(off, d).low = 0
<1>1. << 0, 0 >> \in Name
  BY SizeAssumption DEF Name
<1>2. QED
  BY <1>1, ObjectFacts DEF FrameAt, FrameType

(* A frame that is opened for an entry of the pack is well typed, whatever the entry is. *)
LEMMA NewFrameFor ==
  ASSUME TypeInv, Opens, NEW n \in Name, NEW d \in Nat
  PROVE  /\ FrameFor(n, d) \in FrameType
         /\ FrameFor(n, d).depth = d /\ FrameFor(n, d).name = n
         /\ FrameFor(n, d).buf = NoBuffer /\ FrameFor(n, d).base = NoObject
         /\ FrameFor(n, d).high = in.fanout[n[1]] /\ FrameFor(n, d).high <= Len(in.names)
         /\ FrameFor(n, d).low = IF n[1] = 0 THEN 0 ELSE in.fanout[n[1] - 1]
<1> DEFINE low  == IF n[1] = 0 THEN 0 ELSE in.fanout[n[1] - 1]
           high == in.fanout[n[1]]
           f    == FrameAt(0, d)
<1>1. n[1] \in 0 .. LastByte
  BY DEF Name
<1>2. low \in Nat /\ high \in Nat /\ high <= Len(in.names)
  <2>1. in.fanout \in [0 .. LastByte -> Nat] /\ LastByte \in Nat
    BY PackFacts, SizeAssumption
  <2>2. n[1] # 0 => n[1] - 1 \in 0 .. LastByte
    BY <1>1, <2>1
  <2>3. high <= Len(in.names)
    BY <1>1, FanoutInTable
  <2>4. QED
    BY <1>1, <2>1, <2>2, <2>3
<1>3. f \in FrameType /\ f.depth = d /\ f.buf = NoBuffer /\ f.base = NoObject
  BY NewFrameAt
<1>4. FrameFor(n, d) = [f EXCEPT !.name = n, !.low = low, !.high = high]
  BY DEF FrameFor
<1> HIDE DEF f, low, high
<1>5. /\ FrameFor(n, d) \in FrameType
      /\ FrameFor(n, d).name = n /\ FrameFor(n, d).low = low /\ FrameFor(n, d).high = high
      /\ FrameFor(n, d).depth = f.depth /\ FrameFor(n, d).buf = f.buf
      /\ FrameFor(n, d).base = f.base
  BY <1>2, <1>3, <1>4 DEF FrameType
<1>6. QED
  BY <1>2, <1>3, <1>5 DEF low, high

\* A step of one worker that keeps its own values typed keeps all typed.
LEMMA WorkerStep ==
  ASSUME TypeInv, NEW w \in Worker, NEW label \in Label,
         pc' = [pc EXCEPT ![w] = label], in' = in,
         stack' \in [Worker -> Seq(FrameType)],
         \A u \in Worker : u # w => stack'[u] = stack[u] /\ result'[u] = result[u],
         result' \in [Worker -> [name : Name, err : Error, obj : Object]],
         pool' \in [Buffer -> Nat], mem' \in [Buffer -> [1 .. MaxCap -> Item]],
         cap' \in [Buffer -> 0 .. MaxCap],
         WorkerType(w)'
  PROVE  TypeInv'
<1>1. ASSUME NEW u \in Worker, u # w PROVE WorkerType(u)'
  <2>1. /\ WorkerType(u) /\ pc'[u] = pc[u] /\ stack'[u] = stack[u]
        /\ result'[u] = result[u]
    BY <1>1 DEF TypeInv
  <2>2. QED
    BY <2>1 DEF WorkerType, Top, Level, Fits, Opens, Count, IsDelta, EntryOf
<1>2. \A u \in Worker : WorkerType(u)'
  BY <1>1
<1>3. pc' \in [Worker -> Label]
  BY DEF TypeInv
<1>4. QED
  BY <1>2, <1>3 DEF TypeInv

\* A step on the innermost frame.
LEMMA SetTopTyped ==
  ASSUME TypeInv, NEW w \in Worker, pc[w] # "idle", NEW label \in Label \ {"idle"},
         NEW f \in FrameType, SetTop(w, f), f.depth = Top(w).depth, Fits(label, f),
         pc' = [pc EXCEPT ![w] = label], in' = in, result' = result,
         pool' \in [Buffer -> Nat], mem' \in [Buffer -> [1 .. MaxCap -> Item]],
         cap' \in [Buffer -> 0 .. MaxCap]
  PROVE  TypeInv'
<1>1. /\ stack' \in [Worker -> Seq(FrameType)] /\ stack'[w] # << >>
      /\ \A u \in Worker : u # w => stack'[u] = stack[u]
      /\ Level(w)' = Level(w) /\ Top(w)' = f /\ stack'[w][Level(w)] = f
      /\ \A l \in 1 .. Level(w) - 1 : stack'[w][l] = stack[w][l]
  BY SetTopEffect
<1>2. pc'[w] = label
  BY DEF TypeInv
<1>3. WorkerType(w) /\ Level(w) \in Nat \ {0} /\ Top(w) = stack[w][Level(w)]
  BY TopFrame DEF TypeInv
<1>4. Opens' /\ Fits(pc[w], Top(w))'
  BY <1>1, <1>2, <1>3 DEF WorkerType, Opens, Count, Fits, IsDelta, EntryOf
<1>5. \A i \in 1 .. Level(w) : stack'[w][i].depth = i - 1
  <2>1. \A i \in 1 .. Level(w) : stack[w][i].depth = i - 1
    BY <1>3 DEF WorkerType
  <2>2. f.depth = Level(w) - 1
    BY <1>3, <2>1
  <2>3. ASSUME NEW i \in 1 .. Level(w) PROVE i = Level(w) \/ i \in 1 .. Level(w) - 1
    BY <1>3
  <2>4. QED
    BY <1>1, <2>1, <2>2, <2>3
<1>6. \A i \in 1 .. Level(w) - 1 : IsDelta(stack[w][i])'
  BY <1>1, <1>3 DEF WorkerType, IsDelta, EntryOf
<1>7. WorkerType(w)'
  BY <1>1, <1>2, <1>3, <1>4, <1>5, <1>6 DEF WorkerType
<1>8. result' \in [Worker -> [name : Name, err : Error, obj : Object]]
  BY DEF TypeInv
<1>9. QED
  BY <1>1, <1>7, <1>8, WorkerStep

\* A hop from a delta to its base.
LEMMA PushTyped ==
  ASSUME TypeInv, NEW w \in Worker, pc[w] # "idle", NEW label \in {"search", "entry"},
         NEW f \in FrameType, Push(w, f), f.depth = Top(w).depth + 1, Fits(label, f),
         IsDelta(Top(w)), pc' = [pc EXCEPT ![w] = label], UNCHANGED << in, result, buffers >>
  PROVE  TypeInv'
<1>1. /\ stack' \in [Worker -> Seq(FrameType)] /\ stack'[w] # << >>
      /\ \A u \in Worker : u # w => stack'[u] = stack[u]
      /\ Level(w)' = Level(w) + 1 /\ Top(w)' = f /\ stack'[w][Level(w) + 1] = f
      /\ \A l \in 1 .. Level(w) : stack'[w][l] = stack[w][l]
  BY PushEffect
<1>2. pc'[w] = label /\ label \in Label \ {"idle"}
  BY DEF TypeInv, Label
<1>3. WorkerType(w) /\ Level(w) \in Nat \ {0} /\ Top(w) = stack[w][Level(w)]
  BY TopFrame DEF TypeInv
<1>4. Opens' /\ Fits(pc[w], Top(w))'
  BY <1>1, <1>2, <1>3 DEF WorkerType, Opens, Count, Fits, IsDelta, EntryOf
<1>5. \A i \in 1 .. Level(w) + 1 : stack'[w][i].depth = i - 1
  <2>1. \A i \in 1 .. Level(w) : stack[w][i].depth = i - 1
    BY <1>3 DEF WorkerType
  <2>2. f.depth = (Level(w) + 1) - 1
    BY <1>3, <2>1
  <2>3. ASSUME NEW i \in 1 .. Level(w) + 1 PROVE i = Level(w) + 1 \/ i \in 1 .. Level(w)
    BY <1>3
  <2>4. QED
    BY <1>1, <2>1, <2>2, <2>3
<1>6. \A i \in 1 .. (Level(w) + 1) - 1 : IsDelta(stack[w][i])'
  <2>1. ASSUME NEW i \in 1 .. Level(w) PROVE IsDelta(stack[w][i])'
    <3>1. i = Level(w) \/ i \in 1 .. Level(w) - 1
      BY <1>3
    <3>2. IsDelta(stack[w][i])
      BY <1>3, <3>1 DEF WorkerType
    <3>3. stack'[w][i] = stack[w][i]
      BY <1>1
    <3>4. QED
      BY <3>2, <3>3 DEF IsDelta, EntryOf
  <2>2. QED
    BY <1>3, <2>1
<1>7. WorkerType(w)'
  BY <1>1, <1>2, <1>3, <1>4, <1>5, <1>6 DEF WorkerType
<1>8. /\ result' \in [Worker -> [name : Name, err : Error, obj : Object]]
      /\ pool' \in [Buffer -> Nat] /\ mem' \in [Buffer -> [1 .. MaxCap -> Item]]
      /\ cap' \in [Buffer -> 0 .. MaxCap]
  BY DEF TypeInv, buffers
<1>9. QED
  BY <1>1, <1>2, <1>7, <1>8, WorkerStep

\* The end of a frame.
LEMMA ReturnTyped ==
  ASSUME TypeInv, NEW w \in Worker, pc[w] # "idle", NEW o \in Object, Return(w, o),
         Level(w) = 1 => o.buf = NoBuffer, in' = in,
         pool' \in [Buffer -> Nat], mem' \in [Buffer -> [1 .. MaxCap -> Item]],
         cap' \in [Buffer -> 0 .. MaxCap]
  PROVE  TypeInv'
<1>1. /\ stack' \in [Worker -> Seq(FrameType)]
      /\ \A u \in Worker : u # w => stack'[u] = stack[u]
  BY ReturnEffect
<1>2. /\ WorkerType(w) /\ Level(w) \in Nat \ {0}
      /\ \A l \in 1 .. Level(w) : stack[w][l] \in FrameType
      /\ result \in [Worker -> [name : Name, err : Error, obj : Object]]
      /\ pc \in [Worker -> Label]
  BY TopFrame DEF TypeInv
<1>3. CASE Level(w) = 1
  <2>1. /\ stack'[w] = << >> /\ pc' = [pc EXCEPT ![w] = "idle"]
        /\ result' = [result EXCEPT ![w] = [name |-> Top(w).name, err |-> "none", obj |-> o]]
    BY <1>3, ReturnEffect
  <2>2. [name |-> Top(w).name, err |-> "none", obj |-> o] \in [name : Name, err : Error, obj : Object]
    BY TopFrame DEF FrameType, Error
  <2>3. /\ result' \in [Worker -> [name : Name, err : Error, obj : Object]]
        /\ \A u \in Worker : u # w => result'[u] = result[u]
        /\ result'[w].obj = o /\ pc'[w] = "idle"
    BY <1>2, <2>1, <2>2
  <2>4. Level(w)' = 0
    BY <2>1, EmptySeq DEF Level
  <2>5. WorkerType(w)'
    BY <1>3, <2>1, <2>3, <2>4 DEF WorkerType
  <2>6. QED
    BY <1>1, <2>1, <2>3, <2>5, WorkerStep DEF Label
<1>4. CASE Level(w) # 1
  <2> DEFINE k == Level(w) - 1
  <2>1. /\ stack'[w] # << >> /\ Level(w)' = k
        /\ Top(w)' = [stack[w][k] EXCEPT !.base = o]
        /\ stack'[w][k] = [stack[w][k] EXCEPT !.base = o]
        /\ \A l \in 1 .. k - 1 : stack'[w][l] = stack[w][l]
        /\ result' = result /\ pc' = [pc EXCEPT ![w] = "apply"]
    BY <1>2, <1>4, ReturnEffect
  <2>2. k \in Nat \ {0} /\ k < Level(w) /\ stack[w][k] \in FrameType
    BY <1>2, <1>4
  <2>3. /\ \A i \in 1 .. Level(w) : stack[w][i].depth = i - 1
        /\ \A i \in 1 .. k : IsDelta(stack[w][i])
        /\ Opens
    BY <1>2 DEF WorkerType
  <2>4. Top(w)'.depth = stack[w][k].depth /\ Top(w)'.off = stack[w][k].off
    BY <2>1, <2>2 DEF FrameType
  <2> HIDE DEF k
  <2>5. IsDelta(stack[w][k])
    <3>1. k \in 1 .. k
      BY <2>2
    <3>2. QED
      BY <2>3, <3>1
  <2>6. IsDelta(Top(w))'
    BY <2>4, <2>5 DEF IsDelta, EntryOf
  <2>7. pc'[w] = "apply"
    BY <1>2, <2>1
  <2>8. Fits(pc[w], Top(w))' /\ Opens'
    BY <2>3, <2>6, <2>7 DEF Fits, Opens, Count
  <2>9. \A i \in 1 .. k : stack'[w][i].depth = i - 1
    <3>1. ASSUME NEW i \in 1 .. k PROVE i = k \/ i \in 1 .. k - 1
      BY <2>2
    <3>2. \A i \in 1 .. k : i \in 1 .. Level(w)
      BY <1>2, <2>2
    <3>3. QED
      BY <2>1, <2>2, <2>3, <2>4, <3>1, <3>2
  <2>10. \A i \in 1 .. k - 1 : IsDelta(stack[w][i])'
    BY <2>1, <2>2, <2>3 DEF IsDelta, EntryOf
  <2>11. WorkerType(w)'
    BY <1>2, <2>1, <2>7, <2>8, <2>9, <2>10 DEF WorkerType
  <2>12. QED
    BY <1>1, <1>2, <2>1, <2>11, WorkerStep DEF Label
<1>5. QED
  BY <1>3, <1>4

\* An error.
LEMMA FailTyped ==
  ASSUME TypeInv, NEW w \in Worker, pc[w] # "idle", NEW e \in Error, Fail(w, e), in' = in,
         pool' \in [Buffer -> Nat], mem' \in [Buffer -> [1 .. MaxCap -> Item]],
         cap' \in [Buffer -> 0 .. MaxCap]
  PROVE  TypeInv'
<1>1. /\ stack' \in [Worker -> Seq(FrameType)] /\ stack'[w] = << >>
      /\ \A u \in Worker : u # w => stack'[u] = stack[u]
      /\ pc' = [pc EXCEPT ![w] = "idle"] /\ stack[w][1].name \in Name
      /\ result' = [result EXCEPT ![w] = [name |-> stack[w][1].name, err |-> e, obj |-> NoObject]]
  BY FailEffect
<1>2. /\ result \in [Worker -> [name : Name, err : Error, obj : Object]]
      /\ pc \in [Worker -> Label]
  BY DEF TypeInv
<1>3. /\ [name |-> stack[w][1].name, err |-> e, obj |-> NoObject]
           \in [name : Name, err : Error, obj : Object]
      /\ NoObject.buf = NoBuffer
  BY <1>1, ObjectFacts
<1>4. /\ result' \in [Worker -> [name : Name, err : Error, obj : Object]]
      /\ \A u \in Worker : u # w => result'[u] = result[u]
      /\ result'[w].obj = NoObject /\ pc'[w] = "idle"
  BY <1>1, <1>2, <1>3
<1>5. Level(w)' = 0
  BY <1>1, EmptySeq DEF Level
<1>6. WorkerType(w)'
  BY <1>1, <1>3, <1>4, <1>5 DEF WorkerType
<1>7. QED
  BY <1>1, <1>4, <1>6, WorkerStep DEF Label

\* What a worker's innermost frame is.
LEMMA TopFits ==
  ASSUME TypeInv, NEW w \in Worker, pc[w] # "idle"
  PROVE  /\ Top(w) \in FrameType /\ Opens /\ Fits(pc[w], Top(w))
         /\ Top(w).depth = Level(w) - 1 /\ Level(w) \in Nat \ {0}
<1>1. Opens /\ Fits(pc[w], Top(w)) /\ \A i \in 1 .. Level(w) : stack[w][i].depth = i - 1
  BY DEF TypeInv, WorkerType
<1>2. QED
  BY <1>1, TopFrame

\* Buffers keep their types.
LEMMA BuffersTyped ==
  ASSUME TypeInv
  PROVE  /\ pool \in [Buffer -> Nat] /\ mem \in [Buffer -> [1 .. MaxCap -> Item]]
         /\ cap \in [Buffer -> 0 .. MaxCap]
         /\ UNCHANGED pool \/ (\E b \in Buffer : Put(b)) => pool' \in [Buffer -> Nat]
         /\ UNCHANGED mem => mem' \in [Buffer -> [1 .. MaxCap -> Item]]
         /\ UNCHANGED cap => cap' \in [Buffer -> 0 .. MaxCap]
<1>1. /\ pool \in [Buffer -> Nat] /\ mem \in [Buffer -> [1 .. MaxCap -> Item]]
      /\ cap \in [Buffer -> 0 .. MaxCap]
  BY DEF TypeInv
<1>2. ASSUME NEW b \in Buffer, Put(b) PROVE pool' \in [Buffer -> Nat]
  BY <1>1, <1>2 DEF Put
<1>3. QED
  BY <1>1, <1>2

\* A new read.
LEMMA CallTyped == ASSUME TypeInv, NEW w \in Worker, Call(w) PROVE TypeInv'
<1>1. PICK n \in in.wanted : stack' = [stack EXCEPT ![w] = << FrameFor(n, 0) >>]
  BY DEF Call
<1>2. /\ Opens /\ pc' = [pc EXCEPT ![w] = "search"] /\ UNCHANGED << in, buffers >>
      /\ result' = [result EXCEPT ![w] = NoResult] /\ n \in Name
  BY PackFacts DEF Call, Goto
<1> DEFINE f == FrameFor(n, 0)
<1>3. f \in FrameType /\ f.depth = 0 /\ f.high <= Len(in.names)
  BY <1>2, NewFrameFor
<1> HIDE DEF f
<1>4. << f >> \in Seq(FrameType) /\ Len(<< f >>) = 1 /\ << f >>[1] = f /\ << f >> # << >>
  BY <1>3
<1>5. /\ stack' \in [Worker -> Seq(FrameType)] /\ stack'[w] = << f >>
      /\ \A u \in Worker : u # w => stack'[u] = stack[u]
  BY <1>1, <1>4 DEF TypeInv, f
<1>6. Level(w)' = 1 /\ Top(w)' = f /\ pc'[w] = "search"
  BY <1>2, <1>4, <1>5 DEF Level, Top, TypeInv
<1>7. NoResult \in [name : Name, err : Error, obj : Object] /\ NoResult.obj.buf = NoBuffer
  <2>1. << 0, 0 >> \in Name
    BY SizeAssumption DEF Name
  <2>2. QED
    BY <2>1, ObjectFacts DEF NoResult, Error
<1>8. /\ result' \in [Worker -> [name : Name, err : Error, obj : Object]]
      /\ result'[w] = NoResult /\ \A u \in Worker : u # w => result'[u] = result[u]
  BY <1>2, <1>7 DEF TypeInv
<1>9. Opens' /\ Fits(pc[w], Top(w))'
  BY <1>2, <1>3, <1>6 DEF Opens, Count, Fits, Applying
<1>10. WorkerType(w)'
  BY <1>3, <1>4, <1>5, <1>6, <1>7, <1>8, <1>9 DEF WorkerType
<1>11. QED
  BY <1>2, <1>5, <1>8, <1>10, BuffersTyped, WorkerStep DEF Label, buffers

\* A read of a pack that was left out.
LEMMA CallWithoutPackTyped ==
  ASSUME TypeInv, NEW w \in Worker, CallWithoutPack(w) PROVE TypeInv'
<1>1. PICK n \in in.wanted :
        result' = [result EXCEPT ![w] = [name |-> n, err |-> "absent", obj |-> NoObject]]
  BY DEF CallWithoutPack
<1>2. UNCHANGED << in, buffers, pc, stack >> /\ n \in Name /\ pc[w] = "idle"
  BY PackFacts DEF CallWithoutPack
<1>3. [name |-> n, err |-> "absent", obj |-> NoObject] \in [name : Name, err : Error, obj : Object]
      /\ NoObject.buf = NoBuffer
  BY <1>2, ObjectFacts DEF Error
<1>4. /\ result' \in [Worker -> [name : Name, err : Error, obj : Object]]
      /\ result'[w].obj.buf = NoBuffer /\ \A u \in Worker : u # w => result'[u] = result[u]
  BY <1>1, <1>3 DEF TypeInv
<1>5. WorkerType(w)'
  BY <1>2, <1>4 DEF TypeInv, WorkerType, Level, Top, IsDelta, EntryOf
<1>6. pc' = [pc EXCEPT ![w] = "idle"] /\ stack' \in [Worker -> Seq(FrameType)]
  BY <1>2 DEF TypeInv
<1>7. QED
  BY <1>2, <1>4, <1>5, <1>6, BuffersTyped, WorkerStep DEF Label, buffers

\* The middle of a search is a name of the table.
LEMMA MidInTable ==
  ASSUME TypeInv, NEW w \in Worker, pc[w] = "search", Top(w).low < Top(w).high
  PROVE  /\ Mid(w) \in Top(w).low .. Top(w).high - 1 /\ Mid(w) \in Nat
         /\ Mid(w) + 1 \in 1 .. Len(in.names)
         /\ Top(w).low \in Nat /\ Top(w).high \in Nat /\ Top(w).high <= Len(in.names)
<1>1. Top(w).low \in Nat /\ Top(w).high \in Nat /\ Top(w).high <= Len(in.names)
  BY TopFits DEF FrameType, Fits
<1>2. Len(in.names) \in Nat
  BY PackFacts
<1>3. QED
  BY <1>1, <1>2 DEF Mid

\* One step of the search.
LEMMA SearchStepTyped == ASSUME TypeInv, NEW w \in Worker, SearchStep(w) PROVE TypeInv'
<1>1. /\ pc[w] = "search" /\ Top(w).low < Top(w).high /\ UNCHANGED << in, buffers, pc, result >>
      /\ \/ SetTop(w, [Top(w) EXCEPT !.low = Mid(w) + 1])
         \/ SetTop(w, [Top(w) EXCEPT !.high = Mid(w)])
  BY DEF SearchStep
<1>2. PICK f \in {[Top(w) EXCEPT !.low = Mid(w) + 1], [Top(w) EXCEPT !.high = Mid(w)]} : SetTop(w, f)
  BY <1>1
<1>3. Mid(w) \in Nat /\ Mid(w) <= Len(in.names) /\ Top(w).high <= Len(in.names)
      /\ Len(in.names) \in Nat
  BY <1>1, MidInTable, PackFacts
<1>4. f \in FrameType /\ f.depth = Top(w).depth /\ f.high <= Len(in.names)
  <2>1. Top(w) \in FrameType
    BY <1>1, TopFits
  <2>2. CASE f = [Top(w) EXCEPT !.low = Mid(w) + 1]
    BY <1>3, <2>1, <2>2 DEF FrameType
  <2>3. CASE f = [Top(w) EXCEPT !.high = Mid(w)]
    BY <1>3, <2>1, <2>3 DEF FrameType
  <2>4. QED
    BY <1>2, <2>2, <2>3
<1>5. Fits("search", f)
  BY <1>4 DEF Fits, Applying
<1>6. pc' = [pc EXCEPT ![w] = "search"]
  BY <1>1 DEF TypeInv
<1>7. QED
  BY <1>1, <1>2, <1>4, <1>5, <1>6, BuffersTyped, SetTopTyped DEF Label, buffers

\* The offset that is found is a number.
LEMMA SearchHitEffect ==
  ASSUME TypeInv, NEW w \in Worker, SearchHit(w)
  PROVE  /\ pc[w] = "search" /\ UNCHANGED << in, buffers >>
         /\ \/ Fail(w, "invalid")
            \/ \E off \in Nat :
                 LET raw == in.offsets[Mid(w) + 1]
                 IN  /\ off = IF raw.wide THEN in.wide[raw.at + 1] ELSE raw.at
                     /\ raw.wide => raw.at < Len(in.wide) /\ in.wide[raw.at + 1] <= MaxOffset
                     /\ SetTop(w, [Top(w) EXCEPT !.off = off, !.low = 0, !.high = 0])
                     /\ pc' = [pc EXCEPT ![w] = "entry"] /\ result' = result
<1> DEFINE raw == in.offsets[Mid(w) + 1]
           off == IF raw.wide THEN in.wide[raw.at + 1] ELSE raw.at
<1>1. pc[w] = "search" /\ Top(w).low < Top(w).high /\ UNCHANGED << in, buffers >>
  BY DEF SearchHit
<1>2. raw \in RawOffset
  BY <1>1, MidInTable, PackFacts, ElementOfSeq
<1>3. raw.wide \in BOOLEAN /\ raw.at \in Nat
  BY <1>2 DEF RawOffset
<1>4. ASSUME raw.wide => raw.at < Len(in.wide) PROVE off \in Nat
  <2>1. Len(in.wide) \in Nat /\ \A i \in 1 .. Len(in.wide) : in.wide[i] \in Nat
    BY PackFacts, LenProperties, ElementOfSeq
  <2>2. QED
    BY <1>3, <1>4, <2>1
<1>5. \/ Fail(w, "invalid")
      \/ /\ raw.wide => raw.at < Len(in.wide) /\ in.wide[raw.at + 1] <= MaxOffset
         /\ SetTop(w, [Top(w) EXCEPT !.off = off, !.low = 0, !.high = 0])
         /\ pc' = [pc EXCEPT ![w] = "entry"] /\ result' = result
  BY Zenon DEF SearchHit, Goto
<1>6. QED
  BY <1>1, <1>4, <1>5

\* The name is found.
LEMMA SearchHitTyped == ASSUME TypeInv, NEW w \in Worker, SearchHit(w) PROVE TypeInv'
<1>1. pc[w] = "search" /\ UNCHANGED << in, buffers >>
  BY SearchHitEffect
<1>2. CASE Fail(w, "invalid")
  BY <1>1, <1>2, BuffersTyped, FailTyped DEF Error, buffers
<1>3. ASSUME NEW off \in Nat, SetTop(w, [Top(w) EXCEPT !.off = off, !.low = 0, !.high = 0]),
             pc' = [pc EXCEPT ![w] = "entry"], result' = result
      PROVE  TypeInv'
  <2> DEFINE f == [Top(w) EXCEPT !.off = off, !.low = 0, !.high = 0]
  <2>1. f \in FrameType /\ f.depth = Top(w).depth
    BY <1>1, TopFits DEF FrameType
  <2>2. Fits("entry", f)
    BY DEF Fits, Applying
  <2> HIDE DEF f
  <2>3. SetTop(w, f)
    BY <1>3 DEF f
  <2>4. QED
    BY <1>1, <1>3, <2>1, <2>2, <2>3, BuffersTyped, SetTopTyped DEF Label, buffers
<1>4. QED
  BY <1>2, <1>3, SearchHitEffect

\* The name is not there.
LEMMA SearchMissTyped == ASSUME TypeInv, NEW w \in Worker, SearchMiss(w) PROVE TypeInv'
BY BuffersTyped, FailTyped DEF SearchMiss, Error, buffers

\* What an entry leads to.
LEMMA ReadEntryEffect ==
  ASSUME TypeInv, NEW w \in Worker, ReadEntry(w)
  PROVE  /\ pc[w] = "entry" /\ UNCHANGED << in, buffers >> /\ Top(w) \in FrameType
         /\ \/ ~Usable(Top(w)) /\ Fail(w, "corrupt")
            \/ /\ Usable(Top(w)) /\ Top(w).off \in DOMAIN in.entries
               /\ EntryOf(Top(w)) \in Entry
               /\ \/ /\ EntryOf(Top(w)).kind = "whole" /\ EntryOf(Top(w)).data \in Seq(Byte)
                     /\ Private(EntryOf(Top(w)).data) \in Object
                     /\ Private(EntryOf(Top(w)).data).buf = NoBuffer
                     /\ Return(w, Private(EntryOf(Top(w)).data))
                  \/ /\ IsDelta(Top(w)) /\ EntryOf(Top(w)).kind = "ofs"
                     /\ EntryOf(Top(w)).back \in 1 .. Top(w).off
                     /\ Top(w).off - EntryOf(Top(w)).back \in Nat
                     /\ Push(w, FrameAt(Top(w).off - EntryOf(Top(w)).back, Top(w).depth + 1))
                     /\ pc' = [pc EXCEPT ![w] = "entry"] /\ result' = result
                  \/ /\ IsDelta(Top(w)) /\ EntryOf(Top(w)).kind = "ref"
                     /\ EntryOf(Top(w)).base \in Name
                     /\ Push(w, FrameFor(EntryOf(Top(w)).base, Top(w).depth + 1))
                     /\ pc' = [pc EXCEPT ![w] = "search"] /\ result' = result
<1>1. pc[w] = "entry" /\ UNCHANGED << in, buffers >> /\ Top(w) \in FrameType
  <2>1. pc[w] = "entry" /\ UNCHANGED << in, buffers >>
    BY DEF ReadEntry
  <2>2. QED
    BY <2>1, TopFits
<1>2. CASE ~Usable(Top(w))
  BY <1>1, <1>2 DEF ReadEntry
<1>3. CASE Usable(Top(w))
  <2>1. Top(w).off \in DOMAIN in.entries /\ EntryOf(Top(w)) \in Entry
    BY <1>1, <1>3, EntryFacts DEF Usable
  <2>2. CASE EntryOf(Top(w)).kind = "whole"
    <3>1. EntryOf(Top(w)).data \in Seq(Byte)
      BY <1>1, <2>1, <2>2, EntryFacts
    <3>2. EntryOf(Top(w)).data \in Seq(Item)
      BY <3>1, SeqMonotonic DEF Item
    <3>3. Return(w, Private(EntryOf(Top(w)).data))
      BY <1>3, <2>2 DEF ReadEntry
    <3>4. QED
      BY <1>1, <1>3, <2>1, <2>2, <3>1, <3>2, <3>3, ObjectFacts
  <2>3. CASE EntryOf(Top(w)).kind = "ofs"
    <3>1. EntryOf(Top(w)).back \in 1 .. Top(w).off
      BY <1>3, <2>3 DEF Usable
    <3>2. Top(w).off \in Nat /\ Top(w).off - EntryOf(Top(w)).back \in Nat
      BY <1>1, <3>1 DEF FrameType
    <3>3. /\ Push(w, FrameAt(Top(w).off - EntryOf(Top(w)).back, Top(w).depth + 1))
          /\ pc' = pc /\ result' = result
      BY <1>3, <2>3 DEF ReadEntry
    <3>4. pc' = [pc EXCEPT ![w] = "entry"]
      BY <1>1, <3>3 DEF TypeInv
    <3>5. IsDelta(Top(w))
      BY <2>1, <2>3 DEF IsDelta
    <3>6. QED
      BY <1>1, <1>3, <2>1, <2>3, <3>1, <3>2, <3>3, <3>4, <3>5
  <2>4. CASE EntryOf(Top(w)).kind = "ref"
    <3>1. EntryOf(Top(w)).base \in Name
      BY <1>1, <2>1, <2>4, EntryFacts
    <3>2. /\ Push(w, FrameFor(EntryOf(Top(w)).base, Top(w).depth + 1))
          /\ pc' = [pc EXCEPT ![w] = "search"] /\ result' = result
      BY <1>3, <2>4 DEF ReadEntry, Goto
    <3>3. IsDelta(Top(w))
      BY <2>1, <2>4 DEF IsDelta
    <3>4. QED
      BY <1>1, <1>3, <2>1, <2>4, <3>1, <3>2, <3>3
  <2>5. EntryOf(Top(w)).kind \in {"whole", "ofs", "ref"}
    BY <1>1, <1>3, <2>1, EntryFacts DEF Usable
  <2>6. QED
    BY <2>2, <2>3, <2>4, <2>5
<1>4. QED
  BY <1>2, <1>3

\* Down to the base.
LEMMA ReadEntryTyped == ASSUME TypeInv, NEW w \in Worker, ReadEntry(w) PROVE TypeInv'
<1>1. /\ pc[w] = "entry" /\ UNCHANGED << in, buffers >> /\ Top(w) \in FrameType
      /\ pool' \in [Buffer -> Nat] /\ mem' \in [Buffer -> [1 .. MaxCap -> Item]]
      /\ cap' \in [Buffer -> 0 .. MaxCap]
  BY ReadEntryEffect, BuffersTyped DEF buffers
<1>2. CASE Fail(w, "corrupt")
  BY <1>1, <1>2, FailTyped DEF Error
<1>3. ASSUME NEW o \in Object, o.buf = NoBuffer, Return(w, o) PROVE TypeInv'
  BY <1>1, <1>3, ReturnTyped
<1>4. ASSUME IsDelta(Top(w)), NEW f \in FrameType, NEW label \in {"search", "entry"},
             f.depth = Top(w).depth + 1, label = "search" => f.high <= Len(in.names),
             Push(w, f), pc' = [pc EXCEPT ![w] = label], result' = result
      PROVE  TypeInv'
  <2>1. Fits(label, f)
    BY <1>4 DEF Fits, Applying
  <2>2. QED
    BY <1>1, <1>4, <2>1, PushTyped
<1>5. Top(w).depth + 1 \in Nat /\ Opens
  BY <1>1, TopFits DEF FrameType
<1>6. CASE /\ IsDelta(Top(w)) /\ Top(w).off - EntryOf(Top(w)).back \in Nat
           /\ Push(w, FrameAt(Top(w).off - EntryOf(Top(w)).back, Top(w).depth + 1))
           /\ pc' = [pc EXCEPT ![w] = "entry"] /\ result' = result
  BY <1>4, <1>5, <1>6, NewFrameAt
<1>7. CASE /\ IsDelta(Top(w)) /\ EntryOf(Top(w)).base \in Name
           /\ Push(w, FrameFor(EntryOf(Top(w)).base, Top(w).depth + 1))
           /\ pc' = [pc EXCEPT ![w] = "search"] /\ result' = result
  BY <1>4, <1>5, <1>7, NewFrameFor
<1>8. QED
  BY <1>2, <1>3, <1>6, <1>7, ReadEntryEffect

\* The delta of the innermost frame.
LEMMA TopDelta ==
  ASSUME TypeInv, NEW w \in Worker, pc[w] \in Applying
  PROVE  /\ DeltaOf(w) \in Delta /\ IsDelta(Top(w)) /\ Top(w) \in FrameType
         /\ Top(w).base \in Object /\ Top(w).len \in Nat /\ Top(w).op \in Nat \ {0}
         /\ pc[w] # "apply" => Top(w).buf \in Buffer
         /\ pc[w] # "idle"
<1>1. pc[w] # "idle"
  BY DEF Applying
<1>2. /\ Top(w) \in FrameType /\ IsDelta(Top(w))
      /\ pc[w] # "apply" => Top(w).buf \in Buffer
  BY <1>1, TopFits DEF Fits
<1>3. DeltaOf(w) \in Delta
  BY <1>2, EntryFacts DEF IsDelta, DeltaOf
<1>4. QED
  BY <1>1, <1>2, <1>3 DEF FrameType

\* Which array a delta is decoded into.
LEMMA GetBufferEffect ==
  ASSUME TypeInv, NEW w \in Worker, GetBuffer(w)
  PROVE  /\ pc[w] = "apply" /\ UNCHANGED << in, result >>
         /\ \E b \in Buffer, m \in [1 .. MaxCap -> Item], c \in 0 .. MaxCap :
              /\ Prepare(w, b, m, c)
              /\ \/ pool[b] > 0 /\ pool' = [pool EXCEPT ![b] = @ - 1]
                 \/ b \in Fresh /\ pool' = pool
<1>1. pc[w] = "apply" /\ UNCHANGED << in, result >>
  BY DEF GetBuffer
<1>2. CASE \E b \in Buffer : /\ pool[b] > 0 /\ pool' = [pool EXCEPT ![b] = @ - 1]
                              /\ Prepare(w, b, mem[b], cap[b])
  <2>1. \A b \in Buffer : mem[b] \in [1 .. MaxCap -> Item] /\ cap[b] \in 0 .. MaxCap
    BY DEF TypeInv
  <2>2. QED
    BY <1>1, <1>2, <2>1
<1>3. CASE /\ Fresh # {} /\ UNCHANGED pool
           /\ LET b == CHOOSE x \in Fresh : TRUE IN Prepare(w, b, NoArray, NewCap)
  <2> DEFINE b == CHOOSE x \in Fresh : TRUE
  <2>1. b \in Fresh /\ Prepare(w, b, NoArray, NewCap)
    BY <1>3, Zenon
  <2> HIDE DEF b
  <2>2. b \in Buffer
    BY <2>1 DEF Fresh
  <2>3. NoArray \in [1 .. MaxCap -> Item] /\ NewCap \in 0 .. MaxCap
    BY SizeAssumption DEF NoArray, Item
  <2>4. QED
    BY <1>1, <1>3, <2>1, <2>2, <2>3
<1>4. QED
  BY <1>2, <1>3, Zenon DEF GetBuffer

\* The frame takes the array, grown if the target does not fit.
LEMMA PrepareEffect ==
  ASSUME TypeInv, NEW w \in Worker, pc[w] = "apply", NEW b \in Buffer,
         NEW m \in [1 .. MaxCap -> Item], NEW c \in 0 .. MaxCap, Prepare(w, b, m, c)
  PROVE  /\ \E a \in [1 .. MaxCap -> Item], k \in 0 .. MaxCap :
              /\ mem' = [mem EXCEPT ![b] = a] /\ cap' = [cap EXCEPT ![b] = k]
              /\ Applies(w) => DeltaOf(w).target <= k
         /\ \E f \in FrameType :
              /\ SetTop(w, f) /\ f = [Top(w) EXCEPT !.buf = b, !.ok = Applies(w)]
              /\ f.depth = Top(w).depth /\ f.off = Top(w).off /\ f.buf = b
              /\ f.base = Top(w).base /\ f.ok = Applies(w) /\ f.len = Top(w).len
              /\ f.op = Top(w).op /\ f.name = Top(w).name
         /\ pc' = [pc EXCEPT ![w] = IF Applies(w) THEN "ops" ELSE "putbase"]
<1>1. /\ DeltaOf(w) \in Delta /\ Top(w) \in FrameType
      /\ DeltaOf(w).target \in 0 .. MaxCap /\ DeltaOf(w).header \in BOOLEAN
  BY TopDelta, DeltaFacts DEF Applying
<1>2. Applies(w) \in BOOLEAN
  BY <1>1 DEF Applies
<1> DEFINE grown == Applies(w) /\ c < DeltaOf(w).target
           a == IF grown THEN NoArray ELSE m
           k == IF grown THEN DeltaOf(w).target ELSE c
           f == [Top(w) EXCEPT !.buf = b, !.ok = Applies(w)]
<1>3. /\ mem' = [mem EXCEPT ![b] = a] /\ cap' = [cap EXCEPT ![b] = k] /\ SetTop(w, f)
      /\ pc' = [pc EXCEPT ![w] = IF Applies(w) THEN "ops" ELSE "putbase"]
  BY DEF Prepare, Goto
<1>4. a \in [1 .. MaxCap -> Item]
  BY DEF NoArray, Item
<1>5. k \in 0 .. MaxCap /\ (Applies(w) => DeltaOf(w).target <= k)
  <2>1. CASE grown
    BY <1>1, <2>1, SizeAssumption
  <2>2. CASE ~grown
    BY <1>1, <1>2, <2>2, SizeAssumption
  <2>3. QED
    BY <2>1, <2>2
<1> DEFINE ok == Applies(w)
<1>6. f = [Top(w) EXCEPT !.buf = b, !.ok = ok] /\ ok \in BOOLEAN
  BY <1>2
<1> HIDE DEF a, k, ok, f
<1>7. /\ f \in FrameType /\ f.depth = Top(w).depth /\ f.off = Top(w).off /\ f.buf = b
      /\ f.base = Top(w).base /\ f.ok = ok /\ f.len = Top(w).len
      /\ f.op = Top(w).op /\ f.name = Top(w).name
  BY <1>1, <1>6 DEF FrameType
<1>8. f.ok = Applies(w) /\ f = [Top(w) EXCEPT !.buf = b, !.ok = Applies(w)]
  BY <1>6, <1>7, Zenon DEF ok, f
<1>9. QED
  BY <1>3, <1>4, <1>5, <1>7, <1>8

\* A frame with the same entry is a delta as well.
LEMMA SameEntry ==
  ASSUME NEW f, NEW g, IsDelta(f), g.off = f.off
  PROVE  IsDelta(g)
BY DEF IsDelta, EntryOf

(* Taking a buffer, pooled or new, for the result of a delta keeps the types. *)
LEMMA GetBufferTyped == ASSUME TypeInv, NEW w \in Worker, GetBuffer(w) PROVE TypeInv'
<1>1. PICK b \in Buffer, m \in [1 .. MaxCap -> Item], c \in 0 .. MaxCap :
         /\ Prepare(w, b, m, c)
         /\ \/ pool[b] > 0 /\ pool' = [pool EXCEPT ![b] = @ - 1]
            \/ b \in Fresh /\ pool' = pool
  BY GetBufferEffect
<1>2. pc[w] = "apply" /\ UNCHANGED << in, result >> /\ pc[w] # "idle"
  BY GetBufferEffect
<1>3. PICK f \in FrameType :
              /\ SetTop(w, f) /\ f = [Top(w) EXCEPT !.buf = b, !.ok = Applies(w)]
              /\ f.depth = Top(w).depth /\ f.off = Top(w).off /\ f.buf = b
              /\ f.base = Top(w).base /\ f.ok = Applies(w) /\ f.len = Top(w).len
              /\ f.op = Top(w).op /\ f.name = Top(w).name
  BY <1>1, <1>2, PrepareEffect, Zenon
<1>4. PICK a \in [1 .. MaxCap -> Item], k \in 0 .. MaxCap :
              /\ mem' = [mem EXCEPT ![b] = a] /\ cap' = [cap EXCEPT ![b] = k]
              /\ Applies(w) => DeltaOf(w).target <= k
  BY <1>1, <1>2, PrepareEffect, Zenon
<1>5. pc' = [pc EXCEPT ![w] = IF Applies(w) THEN "ops" ELSE "putbase"]
  BY <1>1, <1>2, PrepareEffect
<1>6. mem' \in [Buffer -> [1 .. MaxCap -> Item]] /\ cap' \in [Buffer -> 0 .. MaxCap]
  BY <1>4, BuffersTyped
<1>7. pool' \in [Buffer -> Nat]
  <2>1. CASE pool[b] > 0 /\ pool' = [pool EXCEPT ![b] = @ - 1]
    BY <2>1, BuffersTyped
  <2>2. QED
    BY <1>1, <2>1, BuffersTyped
<1>8. IsDelta(f)
  <2>1. IsDelta(Top(w))
    BY <1>2, TopDelta DEF Applying
  <2>2. QED
    BY <1>3, <2>1, SameEntry
<1>9. CASE Applies(w)
  <2>1. Fits("ops", f)
    BY <1>3, <1>8 DEF Fits
  <2>2. QED
    BY <1>2, <1>3, <1>5, <1>6, <1>7, <1>9, <2>1, SetTopTyped DEF Label
<1>10. CASE ~Applies(w)
  <2>1. Fits("putbase", f)
    BY <1>3, <1>8, <1>10 DEF Fits
  <2>2. QED
    BY <1>2, <1>3, <1>5, <1>6, <1>7, <1>10, <2>1, SetTopTyped DEF Label
<1>11. QED
  BY <1>9, <1>10

\* What an instruction appends.
LEMMA PieceFacts ==
  ASSUME TypeInv, NEW w \in Worker, pc[w] = "ops", Top(w).op <= Len(DeltaOf(w).ops)
  PROVE  LET op == DeltaOf(w).ops[Top(w).op]
         IN  /\ op \in Op /\ op.kind \in {"copy", "insert", "zero"}
             /\ op.kind = "copy" => op.at \in Nat /\ CopySize(op) \in Nat \ {0}
             /\ op.kind = "insert" => op.data \in Seq(Byte)
             /\ Legal(w, op) \in BOOLEAN
             /\ Legal(w, op) => /\ op.kind # "zero"
                                /\ Piece(w, op) \in Seq(Item) /\ Len(Piece(w, op)) \in Nat
<1> DEFINE op == DeltaOf(w).ops[Top(w).op]
<1>1. /\ DeltaOf(w) \in Delta /\ Top(w).op \in Nat \ {0} /\ Top(w).base \in Object
      /\ Top(w).base.len \in Nat
  BY TopDelta, ObjectFacts DEF Applying
<1>2. op \in Op
  BY <1>1, DeltaFacts
<1> HIDE DEF op
<1>3. /\ op.kind \in {"copy", "insert", "zero"}
      /\ op.kind = "copy" => op.at \in Nat /\ op.size \in Nat
      /\ op.kind = "insert" => op.data \in Seq(Byte)
  BY <1>2 DEF Op
<1>4. op.kind = "copy" => CopySize(op) \in Nat \ {0}
  BY <1>3, SizeAssumption DEF CopySize
<1>5. CASE op.kind = "copy"
  <2> DEFINE n == CopySize(op)
  <2>1. Legal(w, op) <=> op.at + n <= Top(w).base.len
    BY <1>5 DEF Legal
  <2>2. Piece(w, op) = SubSeq(BytesOf(Top(w).base), op.at + 1, op.at + n)
    BY <1>5 DEF Piece
  <2>3. Legal(w, op) \in BOOLEAN
    BY <1>5 DEF Legal
  <2>4. op.at \in Nat /\ n \in Nat \ {0}
    BY <1>3, <1>4, <1>5
  <2> HIDE DEF n
  <2>5. ASSUME Legal(w, op)
        PROVE  Piece(w, op) \in Seq(Item) /\ Len(Piece(w, op)) \in Nat
    <3>1. BytesOf(Top(w).base) \in Seq(Item) /\ Len(BytesOf(Top(w).base)) = Top(w).base.len
      BY <1>1, BytesOfTyped
    <3>2. \A i \in op.at + 1 .. op.at + n : i \in 1 .. Len(BytesOf(Top(w).base))
      BY <1>1, <2>1, <2>4, <2>5, <3>1
    <3>3. \A i \in op.at + 1 .. op.at + n : BytesOf(Top(w).base)[i] \in Item
      BY <3>1, <3>2, ElementOfSeq
    <3>4. op.at + 1 \in Int /\ op.at + n \in Int
      BY <2>4
    <3>5. Piece(w, op) \in Seq(Item)
      BY <2>2, <3>3, <3>4, SubSeqProperties
    <3>6. QED
      BY <3>5, LenProperties
  <2>6. QED
    BY <1>2, <1>3, <1>4, <1>5, <2>3, <2>5 DEF op
<1>6. CASE op.kind = "insert"
  <2>1. Legal(w, op) = TRUE /\ Piece(w, op) = op.data
    BY <1>6 DEF Legal, Piece
  <2>2. op.data \in Seq(Item)
    BY <1>3, <1>6, SeqMonotonic DEF Item
  <2>3. QED
    BY <1>2, <1>3, <1>4, <1>6, <2>1, <2>2, LenProperties DEF op
<1>7. CASE op.kind = "zero"
  <2>1. Legal(w, op) = FALSE
    BY <1>7 DEF Legal
  <2>2. QED
    BY <1>2, <1>3, <1>4, <1>7, <2>1 DEF op
<1>8. QED
  BY <1>3, <1>5, <1>6, <1>7

\* An instruction appends to the array of its frame, or is refused.
LEMMA RunOpEffect ==
  ASSUME TypeInv, NEW w \in Worker, RunOp(w)
  PROVE  /\ pc[w] = "ops" /\ UNCHANGED << in, pool, cap, result >>
         /\ Top(w).op <= Len(DeltaOf(w).ops)
         /\ \E f \in FrameType :
              /\ SetTop(w, f) /\ f.depth = Top(w).depth /\ f.off = Top(w).off
              /\ f.buf = Top(w).buf /\ f.base = Top(w).base /\ f.name = Top(w).name
              /\ LET op == DeltaOf(w).ops[Top(w).op]
                 IN  \/ /\ Legal(w, op) = TRUE /\ Write(Top(w).buf, Top(w).len, Piece(w, op))
                       /\ f.op = Top(w).op + 1 /\ f.len = Top(w).len + Len(Piece(w, op))
                       /\ f.ok = Top(w).ok /\ pc' = [pc EXCEPT ![w] = "ops"]
                    \/ /\ Legal(w, op) = FALSE /\ f.ok = FALSE /\ mem' = mem
                       /\ pc' = [pc EXCEPT ![w] = "putbase"]
<1> DEFINE op == DeltaOf(w).ops[Top(w).op]
           n == Len(Piece(w, op))
<1>1. /\ pc[w] = "ops" /\ UNCHANGED << in, pool, cap, result >>
      /\ Top(w).op <= Len(DeltaOf(w).ops)
      /\ \/ /\ Legal(w, op) /\ Write(Top(w).buf, Top(w).len, Piece(w, op))
            /\ SetTop(w, [Top(w) EXCEPT !.op = @ + 1, !.len = @ + n])
            /\ pc' = pc
         \/ /\ ~Legal(w, op) /\ SetTop(w, [Top(w) EXCEPT !.ok = FALSE])
            /\ pc' = [pc EXCEPT ![w] = "putbase"] /\ mem' = mem
  BY Zenon DEF RunOp, Goto
<1>2. /\ Top(w) \in FrameType /\ Legal(w, op) \in BOOLEAN /\ (Legal(w, op) => n \in Nat)
      /\ pc \in [Worker -> Label]
  BY <1>1, TopFits, PieceFacts DEF TypeInv
<1> HIDE DEF n, op
<1>3. CASE Legal(w, op)
  <2> DEFINE f == [Top(w) EXCEPT !.op = @ + 1, !.len = @ + n]
  <2>1. n \in Nat /\ SetTop(w, f) /\ Write(Top(w).buf, Top(w).len, Piece(w, op)) /\ pc' = pc
    BY <1>1, <1>2, <1>3
  <2>2. /\ f \in FrameType /\ f.depth = Top(w).depth /\ f.off = Top(w).off
        /\ f.buf = Top(w).buf /\ f.base = Top(w).base /\ f.name = Top(w).name
        /\ f.op = Top(w).op + 1 /\ f.len = Top(w).len + n /\ f.ok = Top(w).ok
    <3> DEFINE op2  == Top(w).op + 1
               len2 == Top(w).len + n
    <3>1. op2 \in Nat \ {0} /\ len2 \in Nat
      BY <1>2, <2>1 DEF FrameType
    <3>2. f = [Top(w) EXCEPT !.op = op2, !.len = len2]
      OBVIOUS
    <3> HIDE DEF op2, len2, f
    <3>3. /\ f \in FrameType /\ f.depth = Top(w).depth /\ f.off = Top(w).off
          /\ f.buf = Top(w).buf /\ f.base = Top(w).base /\ f.name = Top(w).name
          /\ f.op = op2 /\ f.len = len2 /\ f.ok = Top(w).ok
      BY <1>2, <3>1, <3>2 DEF FrameType
    <3>4. QED
      BY <3>3 DEF op2, len2
  <2> HIDE DEF f
  <2>3. pc' = [pc EXCEPT ![w] = "ops"] /\ Legal(w, op) = TRUE
    BY <1>1, <1>2, <1>3, <2>1
  <2>4. QED
    BY <1>1, <2>1, <2>2, <2>3 DEF n, op
<1>4. CASE ~Legal(w, op)
  <2> DEFINE f == [Top(w) EXCEPT !.ok = FALSE]
  <2>1. SetTop(w, f) /\ pc' = [pc EXCEPT ![w] = "putbase"] /\ mem' = mem /\ Legal(w, op) = FALSE
    BY <1>1, <1>2, <1>4
  <2>2. /\ f \in FrameType /\ f.depth = Top(w).depth /\ f.off = Top(w).off
        /\ f.buf = Top(w).buf /\ f.base = Top(w).base /\ f.name = Top(w).name
        /\ f.ok = FALSE
    BY <1>2 DEF FrameType
  <2> HIDE DEF f
  <2>3. QED
    BY <1>1, <2>1, <2>2 DEF op
<1>5. QED
  BY <1>3, <1>4

\* Writing keeps an array an array.
LEMMA WriteTyped ==
  ASSUME TypeInv, NEW b \in Buffer, NEW from \in Nat, NEW d \in Seq(Item), Write(b, from, d)
  PROVE  mem' \in [Buffer -> [1 .. MaxCap -> Item]]
<1> DEFINE a == [i \in DOMAIN mem[b] |-> IF i \in from + 1 .. from + Len(d) THEN d[i - from]
                                                                          ELSE mem[b][i]]
<1>1. mem[b] \in [1 .. MaxCap -> Item] /\ mem \in [Buffer -> [1 .. MaxCap -> Item]]
  BY DEF TypeInv
<1>2. \A i \in 1 .. MaxCap : i \in from + 1 .. from + Len(d) => d[i - from] \in Item
  <2>1. Len(d) \in Nat
    BY LenProperties
  <2>2. SUFFICES ASSUME NEW i \in 1 .. MaxCap, i \in from + 1 .. from + Len(d)
                 PROVE  d[i - from] \in Item
    OBVIOUS
  <2>3. i - from \in 1 .. Len(d)
    BY <2>1, <2>2, SizeAssumption
  <2>4. QED
    BY <2>3, ElementOfSeq
<1>3. a \in [1 .. MaxCap -> Item]
  BY <1>1, <1>2
<1>4. mem' = [mem EXCEPT ![b] = mem[b]] \/ mem' = [mem EXCEPT ![b] = a]
  BY <1>1 DEF Write
<1> HIDE DEF a
<1>5. QED
  BY <1>1, <1>3, <1>4

(* So does an instruction of a delta, which copies, inserts or fails. *)
LEMMA RunOpTyped == ASSUME TypeInv, NEW w \in Worker, RunOp(w) PROVE TypeInv'
<1> DEFINE op == DeltaOf(w).ops[Top(w).op]
<1>1. /\ pc[w] = "ops" /\ UNCHANGED << in, pool, cap, result >>
      /\ Top(w).op <= Len(DeltaOf(w).ops)
  BY RunOpEffect
<1>2. PICK f \in FrameType :
        /\ SetTop(w, f) /\ f.depth = Top(w).depth /\ f.off = Top(w).off /\ f.buf = Top(w).buf
        /\ \/ /\ Legal(w, op) = TRUE /\ Write(Top(w).buf, Top(w).len, Piece(w, op))
              /\ pc' = [pc EXCEPT ![w] = "ops"]
           \/ /\ f.ok = FALSE /\ mem' = mem /\ pc' = [pc EXCEPT ![w] = "putbase"]
  BY RunOpEffect
<1>3. /\ IsDelta(Top(w)) /\ Top(w).buf \in Buffer /\ Top(w).len \in Nat
      /\ Legal(w, op) => Piece(w, op) \in Seq(Item)
  BY <1>1, TopDelta, PieceFacts DEF Applying
<1> HIDE DEF op
<1>4. IsDelta(f) /\ f.buf \in Buffer
  BY <1>2, <1>3, SameEntry
<1>5. mem' \in [Buffer -> [1 .. MaxCap -> Item]]
  BY <1>2, <1>3, WriteTyped, BuffersTyped
<1>6. Fits("ops", f) /\ (f.ok = FALSE => Fits("putbase", f))
  BY <1>4 DEF Fits
<1>7. pool' \in [Buffer -> Nat] /\ cap' \in [Buffer -> 0 .. MaxCap]
  BY <1>1, BuffersTyped
<1>8. QED
  BY <1>1, <1>2, <1>5, <1>6, <1>7, SetTopTyped DEF Label

\* The end of a delta decides whether its target is good.
LEMMA EndOpsEffect ==
  ASSUME TypeInv, NEW w \in Worker, EndOps(w)
  PROVE  /\ pc[w] = "ops" /\ UNCHANGED << in, buffers, result >>
         /\ Top(w).op > Len(DeltaOf(w).ops)
         /\ pc' = [pc EXCEPT ![w] = "putbase"]
         /\ \E f \in FrameType :
              /\ SetTop(w, f) /\ f.depth = Top(w).depth /\ f.off = Top(w).off
              /\ f.buf = Top(w).buf /\ f.base = Top(w).base /\ f.name = Top(w).name
              /\ f.op = Top(w).op /\ f.len = Top(w).len
              /\ f.ok = TRUE <=> Top(w).len = DeltaOf(w).target
<1> DEFINE ok == Top(w).len = DeltaOf(w).target
           f  == [Top(w) EXCEPT !.ok = ok]
<1>1. /\ pc[w] = "ops" /\ UNCHANGED << in, buffers, result >> /\ SetTop(w, f)
      /\ Top(w).op > Len(DeltaOf(w).ops) /\ pc' = [pc EXCEPT ![w] = "putbase"]
  BY DEF EndOps, Goto
<1>2. Top(w) \in FrameType /\ ok \in BOOLEAN
  BY <1>1, TopFits
<1>3. ok = TRUE <=> Top(w).len = DeltaOf(w).target
  OBVIOUS
<1> HIDE DEF ok
<1>4. /\ f \in FrameType /\ f.depth = Top(w).depth /\ f.off = Top(w).off
      /\ f.buf = Top(w).buf /\ f.base = Top(w).base /\ f.name = Top(w).name
      /\ f.op = Top(w).op /\ f.len = Top(w).len /\ f.ok = ok
  BY <1>2 DEF FrameType
<1> HIDE DEF f
<1>5. QED
  BY <1>1, <1>3, <1>4

(* So does the look at the size of the result, after the last instruction. *)
LEMMA EndOpsTyped == ASSUME TypeInv, NEW w \in Worker, EndOps(w) PROVE TypeInv'
<1>1. /\ pc[w] = "ops" /\ UNCHANGED << in, buffers, result >>
      /\ pc' = [pc EXCEPT ![w] = "putbase"]
  BY EndOpsEffect
<1>2. PICK f \in FrameType :
              /\ SetTop(w, f) /\ f.depth = Top(w).depth /\ f.off = Top(w).off
              /\ f.buf = Top(w).buf /\ f.base = Top(w).base /\ f.name = Top(w).name
              /\ f.op = Top(w).op /\ f.len = Top(w).len
              /\ f.ok = TRUE <=> Top(w).len = DeltaOf(w).target
  BY EndOpsEffect
<1>3. /\ IsDelta(Top(w)) /\ Top(w).buf \in Buffer /\ DeltaOf(w).target \in 0 .. MaxCap
      /\ f.ok \in BOOLEAN
  BY <1>1, TopDelta, DeltaFacts DEF Applying, FrameType
<1>4. IsDelta(f)
  BY <1>2, <1>3, SameEntry
<1>5. f.ok => f.len <= MaxCap
  BY <1>2, <1>3, SizeAssumption
<1>6. Fits("putbase", f)
  BY <1>2, <1>3, <1>4, <1>5 DEF Fits
<1>7. QED
  BY <1>1, <1>2, <1>6, BuffersTyped, SetTopTyped DEF Label, buffers

\* The base is given up.
LEMMA PutBaseEffect ==
  ASSUME TypeInv, NEW w \in Worker, PutBase(w)
  PROVE  /\ pc[w] = "putbase" /\ UNCHANGED << in, mem, cap, result >>
         /\ \/ Top(w).base.buf = NoBuffer /\ pool' = pool
            \/ Top(w).base.buf \in Buffer /\ Put(Top(w).base.buf)
         /\ \/ Top(w).ok = TRUE /\ pc' = [pc EXCEPT ![w] = "hand"]
            \/ Top(w).ok = FALSE /\ pc' = [pc EXCEPT ![w] = "discard"]
         /\ \E f \in FrameType :
              /\ SetTop(w, f) /\ f.depth = Top(w).depth /\ f.off = Top(w).off
              /\ f.buf = Top(w).buf /\ f.base = NoObject /\ f.name = Top(w).name
              /\ f.op = Top(w).op /\ f.len = Top(w).len /\ f.ok = Top(w).ok
<1> DEFINE f == [Top(w) EXCEPT !.base = NoObject]
<1>1. /\ pc[w] = "putbase" /\ UNCHANGED << in, mem, cap, result >> /\ SetTop(w, f)
  BY DEF PutBase
<1>2. /\ Top(w) \in FrameType /\ Top(w).ok \in BOOLEAN
      /\ Top(w).base.buf \in Buffer \cup {NoBuffer}
  BY <1>1, TopFits, ObjectFacts DEF FrameType
<1>3. /\ f \in FrameType /\ f.depth = Top(w).depth /\ f.off = Top(w).off
      /\ f.buf = Top(w).buf /\ f.base = NoObject /\ f.name = Top(w).name
      /\ f.op = Top(w).op /\ f.len = Top(w).len /\ f.ok = Top(w).ok
  BY <1>2, ObjectFacts DEF FrameType
<1> HIDE DEF f
<1>4. \/ Top(w).base.buf = NoBuffer /\ pool' = pool
      \/ Top(w).base.buf \in Buffer /\ Put(Top(w).base.buf)
  BY <1>2 DEF PutBase
<1>5. \/ Top(w).ok = TRUE /\ pc' = [pc EXCEPT ![w] = "hand"]
      \/ Top(w).ok = FALSE /\ pc' = [pc EXCEPT ![w] = "discard"]
  BY <1>2 DEF PutBase, Goto
<1>6. QED
  BY <1>1, <1>3, <1>4, <1>5

(* So does the return of the buffer of the base. *)
LEMMA PutBaseTyped == ASSUME TypeInv, NEW w \in Worker, PutBase(w) PROVE TypeInv'
<1>1. /\ pc[w] = "putbase" /\ UNCHANGED << in, mem, cap, result >>
      /\ \/ Top(w).base.buf = NoBuffer /\ pool' = pool
         \/ Top(w).base.buf \in Buffer /\ Put(Top(w).base.buf)
      /\ \/ Top(w).ok = TRUE /\ pc' = [pc EXCEPT ![w] = "hand"]
         \/ Top(w).ok = FALSE /\ pc' = [pc EXCEPT ![w] = "discard"]
  BY PutBaseEffect
<1>2. PICK f \in FrameType :
              /\ SetTop(w, f) /\ f.depth = Top(w).depth /\ f.off = Top(w).off
              /\ f.buf = Top(w).buf /\ f.base = NoObject /\ f.name = Top(w).name
              /\ f.op = Top(w).op /\ f.len = Top(w).len /\ f.ok = Top(w).ok
  BY PutBaseEffect
<1>3. IsDelta(Top(w)) /\ Top(w).buf \in Buffer /\ Fits("putbase", Top(w))
  BY <1>1, TopDelta, TopFits DEF Applying
<1>4. IsDelta(f)
  BY <1>2, <1>3, SameEntry
<1>5. Fits("discard", f)
  BY <1>2, <1>3, <1>4 DEF Fits
<1>6. Top(w).ok = TRUE => Fits("hand", f)
  BY <1>2, <1>3, <1>4 DEF Fits
<1>7. pool' \in [Buffer -> Nat]
  BY <1>1, BuffersTyped
<1>8. QED
  BY <1>1, <1>2, <1>5, <1>6, <1>7, BuffersTyped, SetTopTyped DEF Label

(* So does the return of the buffer of a delta that failed. *)
LEMMA DiscardTyped == ASSUME TypeInv, NEW w \in Worker, Discard(w) PROVE TypeInv'
<1>1. pc[w] = "discard" /\ Put(Top(w).buf) /\ Fail(w, "corrupt") /\ UNCHANGED << in, mem, cap >>
  BY DEF Discard
<1>2. Top(w).buf \in Buffer
  BY <1>1, TopDelta DEF Applying
<1>3. QED
  BY <1>1, <1>2, BuffersTyped, FailTyped DEF Error

\* The target in its buffer is an object.
LEMMA TargetIsObject ==
  ASSUME TypeInv, NEW w \in Worker, pc[w] = "hand"
  PROVE  /\ Top(w).buf \in Buffer /\ Top(w).len \in 0 .. MaxCap
         /\ Slice(Top(w).buf, Top(w).len) \in Object
         /\ Slice(Top(w).buf, Top(w).len).buf = Top(w).buf
         /\ Private(BytesOf(Slice(Top(w).buf, Top(w).len))) \in Object
         /\ Private(BytesOf(Slice(Top(w).buf, Top(w).len))).buf = NoBuffer
<1>1. Top(w).buf \in Buffer /\ Top(w).len \in Nat /\ Top(w).len <= MaxCap
  BY TopDelta, TopFits DEF Applying, Fits
<1>2. Top(w).len \in 0 .. MaxCap
  BY <1>1, SizeAssumption
<1>3. /\ Slice(Top(w).buf, Top(w).len) \in Object
      /\ Slice(Top(w).buf, Top(w).len).buf = Top(w).buf
  BY <1>1, <1>2, ObjectFacts
<1>4. BytesOf(Slice(Top(w).buf, Top(w).len)) \in Seq(Item)
  BY <1>3, BytesOfTyped
<1>5. QED
  BY <1>1, <1>2, <1>3, <1>4, ObjectFacts

(* So does the step that hands an object up the chain with the buffer it lies in. *)
LEMMA HandUpTyped == ASSUME TypeInv, NEW w \in Worker, HandUp(w) PROVE TypeInv'
<1>1. /\ pc[w] = "hand" /\ Top(w).depth > 0 /\ Return(w, Slice(Top(w).buf, Top(w).len))
      /\ UNCHANGED << in, buffers >>
  BY DEF HandUp
<1>2. Level(w) # 1
  BY <1>1, TopFits
<1>3. QED
  BY <1>1, <1>2, TargetIsObject, BuffersTyped, ReturnTyped DEF buffers

\* The object that was asked for leaves its buffer.
LEMMA CopyOutEffect ==
  ASSUME TypeInv, NEW w \in Worker, CopyOut(w)
  PROVE  /\ pc[w] = "hand" /\ Top(w).depth = 0 /\ UNCHANGED << in, buffers, result >>
         /\ pc' = [pc EXCEPT ![w] = "putown"]
         /\ \E f \in FrameType :
              /\ SetTop(w, f) /\ f.depth = Top(w).depth /\ f.off = Top(w).off
              /\ f.base = Private(BytesOf(Slice(Top(w).buf, Top(w).len)))
              /\ f.base.buf = NoBuffer /\ f.buf = Top(w).buf /\ f.name = Top(w).name
<1> DEFINE o == Private(BytesOf(Slice(Top(w).buf, Top(w).len)))
           f == [Top(w) EXCEPT !.base = o]
<1>1. /\ pc[w] = "hand" /\ Top(w).depth = 0 /\ UNCHANGED << in, buffers, result >>
      /\ pc' = [pc EXCEPT ![w] = "putown"] /\ SetTop(w, f)
  BY DEF CopyOut, Goto
<1>2. Top(w) \in FrameType /\ o \in Object /\ o.buf = NoBuffer
  BY <1>1, TopFits, TargetIsObject
<1> HIDE DEF o
<1>3. /\ f \in FrameType /\ f.depth = Top(w).depth /\ f.off = Top(w).off
      /\ f.base = o /\ f.buf = Top(w).buf /\ f.name = Top(w).name
  BY <1>2 DEF FrameType
<1> HIDE DEF f
<1>4. QED
  BY <1>1, <1>2, <1>3 DEF o

(* So does the copy that is made for the caller of ReadObject. *)
LEMMA CopyOutTyped == ASSUME TypeInv, NEW w \in Worker, CopyOut(w) PROVE TypeInv'
<1>1. /\ pc[w] = "hand" /\ Top(w).depth = 0 /\ UNCHANGED << in, buffers, result >>
      /\ pc' = [pc EXCEPT ![w] = "putown"]
  BY CopyOutEffect
<1>2. PICK f \in FrameType :
              /\ SetTop(w, f) /\ f.depth = Top(w).depth /\ f.off = Top(w).off
              /\ f.base = Private(BytesOf(Slice(Top(w).buf, Top(w).len)))
              /\ f.base.buf = NoBuffer /\ f.buf = Top(w).buf /\ f.name = Top(w).name
  BY CopyOutEffect
<1>3. IsDelta(Top(w)) /\ Top(w).buf \in Buffer
  BY <1>1, TopDelta DEF Applying
<1>4. IsDelta(f)
  BY <1>2, <1>3, SameEntry
<1>5. Fits("putown", f)
  BY <1>1, <1>2, <1>3, <1>4 DEF Fits
<1>6. QED
  BY <1>1, <1>2, <1>5, BuffersTyped, SetTopTyped DEF Label, buffers

(* So does the return of the buffer that the copy was made from. *)
LEMMA PutOwnTyped == ASSUME TypeInv, NEW w \in Worker, PutOwn(w) PROVE TypeInv'
<1>1. pc[w] = "putown" /\ Put(Top(w).buf) /\ Return(w, Top(w).base) /\ UNCHANGED << in, mem, cap >>
  BY DEF PutOwn
<1>2. Top(w).buf \in Buffer /\ Top(w).base \in Object /\ Top(w).base.buf = NoBuffer
  BY <1>1, TopDelta, TopFits DEF Applying, Fits
<1>3. QED
  BY <1>1, <1>2, BuffersTyped, ReturnTyped

\* Steps that no worker takes.
LEMMA CollectTyped == ASSUME TypeInv, Collect \/ UNCHANGED vars PROVE TypeInv'
<1>1. UNCHANGED << in, mem, cap, pc, stack, result >>
  BY DEF Collect, vars
<1>2. pool' \in [Buffer -> Nat]
  BY DEF TypeInv, Collect, vars
<1>3. \A w \in Worker : WorkerType(w)'
  BY <1>1 DEF TypeInv, WorkerType, Top, Level, Fits, Opens, Count, IsDelta, EntryOf
<1>4. QED
  BY <1>1, <1>2, <1>3 DEF TypeInv

\* Types are kept by every step.
LEMMA NextTypeInv == TypeInv /\ [Next]_vars => TypeInv'
BY CallTyped, CallWithoutPackTyped, SearchStepTyped, SearchHitTyped, SearchMissTyped,
   ReadEntryTyped, GetBufferTyped, RunOpTyped, EndOpsTyped, PutBaseTyped, DiscardTyped,
   HandUpTyped, CopyOutTyped, PutOwnTyped, CollectTyped DEF Next

(* The type invariant holds in every state of every behaviour. *)
LEMMA AlwaysTypeInv == Spec => []TypeInv
BY InitTypeInv, NextTypeInv, PTL DEF Spec

-----------------------------------------------------------------------------
(* Buffers have one owner.                                                 *)

\* The parts of a place.
LEMMA SlotParts ==
  ASSUME NEW s, NEW g \in Slots(s)
  PROVE  /\ g[1] \in Worker /\ g[2] \in DOMAIN s[g[1]] /\ g[3] \in {"own", "base"}
         /\ g = << g[1], g[2], g[3] >>
<1>1. PICK w \in Worker : g \in {w} \X (DOMAIN s[w]) \X {"own", "base"}
  BY DEF Slots
<1>2. g[1] = w /\ g[2] \in DOMAIN s[w] /\ g[3] \in {"own", "base"} /\ g = << g[1], g[2], g[3] >>
  BY <1>1
<1>3. QED
  BY <1>1, <1>2

\* The places of a frame.
LEMMA SlotsOfFrame ==
  ASSUME NEW s, NEW w \in Worker, NEW i \in DOMAIN s[w]
  PROVE  /\ \A k \in {"own", "base"} : << w, i, k >> \in Slots(s)
         /\ At(s, << w, i, "own" >>) = s[w][i].buf
         /\ At(s, << w, i, "base" >>) = s[w][i].base.buf
BY DEF Slots, At

\* Replacing the innermost frame changes its two places only.
LEMMA SetTopSlots ==
  ASSUME TypeInv, NEW w \in Worker, pc[w] # "idle", NEW f \in FrameType, SetTop(w, f)
  PROVE  \A g \in Slots(stack') :
           /\ g \in Slots(stack)
           /\ \/ At(stack', g) = At(stack, g) /\ g # << w, Level(w), "own" >>
                                              /\ g # << w, Level(w), "base" >>
              \/ g = << w, Level(w), "own" >> /\ At(stack', g) = f.buf
              \/ g = << w, Level(w), "base" >> /\ At(stack', g) = f.base.buf
<1> SUFFICES ASSUME NEW g \in Slots(stack')
             PROVE  /\ g \in Slots(stack)
                    /\ \/ At(stack', g) = At(stack, g) /\ g # << w, Level(w), "own" >>
                                                       /\ g # << w, Level(w), "base" >>
                       \/ g = << w, Level(w), "own" >> /\ At(stack', g) = f.buf
                       \/ g = << w, Level(w), "base" >> /\ At(stack', g) = f.base.buf
  OBVIOUS
<1>1. /\ g[1] \in Worker /\ g[2] \in DOMAIN stack'[g[1]] /\ g[3] \in {"own", "base"}
      /\ g = << g[1], g[2], g[3] >>
  BY SlotParts
<1>2. /\ \A u \in Worker : u # w => stack'[u] = stack[u]
      /\ stack'[w][Level(w)] = f /\ DOMAIN stack'[w] = 1 .. Level(w)
      /\ \A l \in 1 .. Level(w) - 1 : stack'[w][l] = stack[w][l]
      /\ DOMAIN stack[w] = 1 .. Level(w) /\ Level(w) \in Nat \ {0}
  BY SetTopEffect, TopFrame
<1>3. g[2] \in DOMAIN stack[g[1]]
  BY <1>1, <1>2
<1>4. g \in Slots(stack)
  <2>1. << g[1], g[2], g[3] >> \in Slots(stack)
    BY <1>1, <1>3, SlotsOfFrame
  <2>2. QED
    BY <1>1, <2>1, Zenon
<1>5. CASE g[1] = w /\ g[2] = Level(w)
  BY <1>1, <1>2, <1>4, <1>5 DEF At
<1>6. CASE ~(g[1] = w /\ g[2] = Level(w))
  <2>1. stack'[g[1]][g[2]] = stack[g[1]][g[2]]
    <3>1. CASE g[1] # w
      BY <1>1, <1>2, <3>1
    <3>2. CASE g[1] = w
      <4>1. g[2] \in 1 .. Level(w) - 1
        BY <1>1, <1>2, <1>6, <3>2
      <4>2. QED
        BY <1>2, <3>2, <4>1
    <3>3. QED
      BY <3>1, <3>2
  <2>2. At(stack', g) = At(stack, g)
    BY <2>1 DEF At
  <2>3. g # << w, Level(w), "own" >> /\ g # << w, Level(w), "base" >>
    BY <1>6
  <2>4. QED
    BY <1>4, <2>2, <2>3
<1>7. QED
  BY <1>5, <1>6

\* A new frame without a buffer holds none.
LEMMA PushSlots ==
  ASSUME TypeInv, NEW w \in Worker, pc[w] # "idle", NEW f \in FrameType, Push(w, f),
         f.buf = NoBuffer, f.base.buf = NoBuffer
  PROVE  \A g \in Slots(stack') :
           \/ g \in Slots(stack) /\ At(stack', g) = At(stack, g)
           \/ At(stack', g) = NoBuffer
<1> SUFFICES ASSUME NEW g \in Slots(stack')
             PROVE  \/ g \in Slots(stack) /\ At(stack', g) = At(stack, g)
                    \/ At(stack', g) = NoBuffer
  OBVIOUS
<1>1. /\ g[1] \in Worker /\ g[2] \in DOMAIN stack'[g[1]] /\ g[3] \in {"own", "base"}
      /\ g = << g[1], g[2], g[3] >>
  BY SlotParts
<1>2. /\ \A u \in Worker : u # w => stack'[u] = stack[u]
      /\ stack'[w][Level(w) + 1] = f /\ DOMAIN stack'[w] = 1 .. Level(w) + 1
      /\ \A l \in 1 .. Level(w) : stack'[w][l] = stack[w][l]
      /\ DOMAIN stack[w] = 1 .. Level(w) /\ Level(w) \in Nat \ {0}
  BY PushEffect, TopFrame
<1>3. CASE g[1] = w /\ g[2] = Level(w) + 1
  BY <1>1, <1>2, <1>3 DEF At
<1>4. CASE ~(g[1] = w /\ g[2] = Level(w) + 1)
  <2>1. stack'[g[1]][g[2]] = stack[g[1]][g[2]] /\ g[2] \in DOMAIN stack[g[1]]
    <3>1. CASE g[1] # w
      BY <1>1, <1>2, <3>1
    <3>2. CASE g[1] = w
      <4>1. g[2] \in 1 .. Level(w)
        BY <1>1, <1>2, <1>4, <3>2
      <4>2. QED
        BY <1>2, <3>2, <4>1
    <3>3. QED
      BY <3>1, <3>2
  <2>2. At(stack', g) = At(stack, g)
    BY <2>1 DEF At
  <2>3. g \in Slots(stack)
    <3>1. << g[1], g[2], g[3] >> \in Slots(stack)
      BY <1>1, <2>1, SlotsOfFrame
    <3>2. QED
      BY <1>1, <3>1, Zenon
  <2>4. QED
    BY <2>2, <2>3
<1>5. QED
  BY <1>3, <1>4

\* The end of a frame frees its places; the frame below gets the object.
LEMMA ReturnSlots ==
  ASSUME TypeInv, NEW w \in Worker, pc[w] # "idle", NEW o \in Object, Return(w, o)
  PROVE  \A g \in Slots(stack') :
           \/ /\ g \in Slots(stack) /\ At(stack', g) = At(stack, g)
              /\ g # << w, Level(w), "own" >> /\ g # << w, Level(w), "base" >>
           \/ Level(w) # 1 /\ g = << w, Level(w) - 1, "base" >> /\ At(stack', g) = o.buf
<1> SUFFICES ASSUME NEW g \in Slots(stack')
             PROVE  \/ /\ g \in Slots(stack) /\ At(stack', g) = At(stack, g)
                       /\ g # << w, Level(w), "own" >> /\ g # << w, Level(w), "base" >>
                    \/ Level(w) # 1 /\ g = << w, Level(w) - 1, "base" >> /\ At(stack', g) = o.buf
  OBVIOUS
<1>1. /\ g[1] \in Worker /\ g[2] \in DOMAIN stack'[g[1]] /\ g[3] \in {"own", "base"}
      /\ g = << g[1], g[2], g[3] >>
  BY SlotParts
<1>2. /\ \A u \in Worker : u # w => stack'[u] = stack[u]
      /\ DOMAIN stack[w] = 1 .. Level(w) /\ Level(w) \in Nat \ {0}
      /\ \A l \in 1 .. Level(w) : stack[w][l] \in FrameType
  BY ReturnEffect, TopFrame
<1>3. ASSUME g[2] \in DOMAIN stack[g[1]], At(stack', g) = At(stack, g),
             ~(g[1] = w /\ g[2] = Level(w))
      PROVE  /\ g \in Slots(stack) /\ At(stack', g) = At(stack, g)
             /\ g # << w, Level(w), "own" >> /\ g # << w, Level(w), "base" >>
  <2>1. << g[1], g[2], g[3] >> \in Slots(stack)
    BY <1>1, <1>3, SlotsOfFrame
  <2>2. g \in Slots(stack)
    BY <1>1, <2>1, Zenon
  <2>3. QED
    BY <1>3, <2>2
<1>4. CASE g[1] # w
  BY <1>1, <1>2, <1>3, <1>4 DEF At
<1>5. CASE g[1] = w
  <2> DEFINE k == Level(w) - 1
  <2>1. Level(w) # 1
    <3>1. Level(w) = 1 => stack'[w] = << >>
      BY ReturnEffect
    <3>2. QED
      BY <1>1, <1>5, <3>1
  <2>2. /\ DOMAIN stack'[w] = 1 .. k /\ k \in Nat \ {0} /\ k < Level(w)
        /\ stack'[w][k] = [stack[w][k] EXCEPT !.base = o]
        /\ \A l \in 1 .. k - 1 : stack'[w][l] = stack[w][l]
    BY <1>2, <2>1, ReturnEffect
  <2>3. g[2] \in 1 .. k /\ g[2] \in DOMAIN stack[g[1]] /\ g[2] # Level(w)
    BY <1>1, <1>2, <1>5, <2>2
  <2>4. CASE g[2] # k
    <3>1. stack'[g[1]][g[2]] = stack[g[1]][g[2]]
      <4>1. g[2] \in 1 .. k - 1
        BY <2>2, <2>3, <2>4
      <4>2. QED
        BY <1>5, <2>2, <4>1
    <3>2. QED
      BY <1>3, <2>3, <3>1 DEF At
  <2>5. CASE g[2] = k
    <3>1. stack[w][k] \in FrameType
      BY <1>2, <2>2
    <3>2. stack'[w][k].base = o /\ stack'[w][k].buf = stack[w][k].buf
      BY <2>2, <3>1 DEF FrameType
    <3>3. CASE g[3] = "own"
      BY <1>3, <1>5, <2>3, <2>5, <3>2, <3>3 DEF At
    <3>4. CASE g[3] = "base"
      <4>1. g = << w, Level(w) - 1, "base" >>
        BY <1>1, <1>5, <2>5, <3>4, Zenon
      <4>2. At(stack', g) = o.buf
        BY <1>5, <2>5, <3>2, <3>4 DEF At
      <4>3. QED
        BY <2>1, <4>1, <4>2
    <3>5. QED
      BY <1>1, <3>3, <3>4
  <2>6. QED
    BY <2>4, <2>5
<1>6. QED
  BY <1>4, <1>5

\* An error frees every place of the worker.
LEMMA FailSlots ==
  ASSUME TypeInv, NEW w \in Worker, pc[w] # "idle", NEW e \in Error, Fail(w, e)
  PROVE  \A g \in Slots(stack') :
           /\ g \in Slots(stack) /\ At(stack', g) = At(stack, g)
           /\ g # << w, Level(w), "own" >> /\ g # << w, Level(w), "base" >>
<1> SUFFICES ASSUME NEW g \in Slots(stack')
             PROVE  /\ g \in Slots(stack) /\ At(stack', g) = At(stack, g)
                    /\ g # << w, Level(w), "own" >> /\ g # << w, Level(w), "base" >>
  OBVIOUS
<1>1. /\ g[1] \in Worker /\ g[2] \in DOMAIN stack'[g[1]] /\ g[3] \in {"own", "base"}
      /\ g = << g[1], g[2], g[3] >>
  BY SlotParts
<1>2. stack'[w] = << >> /\ \A u \in Worker : u # w => stack'[u] = stack[u]
  BY FailEffect
<1>3. g[1] # w /\ stack'[g[1]] = stack[g[1]]
  BY <1>1, <1>2
<1>4. << g[1], g[2], g[3] >> \in Slots(stack)
  BY <1>1, <1>3, SlotsOfFrame
<1>5. g \in Slots(stack)
  BY <1>1, <1>4, Zenon
<1>6. QED
  BY <1>3, <1>5 DEF At

\* A step after which no frame holds more than before, and the pool neither.
LEMMA NothingTaken ==
  ASSUME OwnInv, pool' \in [Buffer -> 0 .. 1],
         \A b \in Buffer : pool'[b] = 1 => pool[b] = 1 \/ Unheld(stack', b),
         \A g \in Slots(stack') : \/ g \in Slots(stack) /\ At(stack', g) = At(stack, g)
                                  \/ At(stack', g) = NoBuffer
  PROVE  OwnInv'
<1>1. ASSUME NEW b \in Buffer, pool'[b] = 1 PROVE Unheld(stack', b)
  BY <1>1, BufferAssumption DEF OwnInv, Unheld
<1>2. Apart(stack')
  BY BufferAssumption DEF OwnInv, Apart
<1>3. QED
  BY <1>1, <1>2 DEF OwnInv

\* A frame gives its buffer to the pool, which takes it or leaves it.
LEMMA GivenBack ==
  ASSUME TypeInv, OwnInv, NEW h \in Slots(stack), At(stack, h) \in Buffer,
         Put(At(stack, h)),
         \A g \in Slots(stack') :
           \/ g \in Slots(stack) /\ At(stack', g) = At(stack, g) /\ g # h
           \/ At(stack', g) = NoBuffer
  PROVE  OwnInv'
<1> DEFINE b == At(stack, h)
<1>1. pool \in [Buffer -> 0 .. 1] /\ pool[b] = 0
  BY DEF OwnInv, Unheld
<1>2. Unheld(stack', b)
  BY BufferAssumption DEF OwnInv, Apart, Unheld
<1> HIDE DEF b
<1>3. pool' = pool \/ pool' = [pool EXCEPT ![b] = 1]
  <2>1. pool' = pool \/ pool' = [pool EXCEPT ![b] = @ + 1]
    BY DEF Put, b
  <2>2. b \in Buffer
    BY DEF b
  <2>3. QED
    BY <1>1, <2>1, <2>2
<1>4. /\ pool' \in [Buffer -> 0 .. 1]
      /\ \A c \in Buffer : pool'[c] = 1 => pool[c] = 1 \/ Unheld(stack', c)
  BY <1>1, <1>2, <1>3
<1>5. QED
  BY <1>4, NothingTaken

\* A frame takes a buffer that no other frame holds and the pool has not.
LEMMA TakenOnce ==
  ASSUME OwnInv, NEW c \in Buffer, NEW h, pool' \in [Buffer -> 0 .. 1], pool'[c] = 0,
         \A b \in Buffer : pool'[b] = 1 => pool[b] = 1,
         \A g \in Slots(stack') :
           \/ g \in Slots(stack) /\ At(stack', g) = At(stack, g) /\ At(stack, g) # c
           \/ At(stack', g) = NoBuffer
           \/ g = h /\ At(stack', g) = c
  PROVE  OwnInv'
<1>1. ASSUME NEW b \in Buffer, pool'[b] = 1 PROVE Unheld(stack', b)
  BY <1>1, BufferAssumption DEF OwnInv, Unheld
<1>2. Apart(stack')
  BY BufferAssumption DEF OwnInv, Apart
<1>3. QED
  BY <1>1, <1>2 DEF OwnInv

\* The places of the innermost frame.
LEMMA TopSlots ==
  ASSUME TypeInv, NEW w \in Worker, pc[w] # "idle"
  PROVE  /\ << w, Level(w), "own" >> \in Slots(stack)
         /\ At(stack, << w, Level(w), "own" >>) = Top(w).buf
         /\ << w, Level(w), "base" >> \in Slots(stack)
         /\ At(stack, << w, Level(w), "base" >>) = Top(w).base.buf
         /\ << w, Level(w), "own" >> # << w, Level(w), "base" >>
<1>1. Level(w) \in DOMAIN stack[w] /\ Top(w) = stack[w][Level(w)]
  BY TopFrame
<1>2. QED
  BY <1>1, SlotsOfFrame

\* The initial state: all buffers are new.
LEMMA InitOwnInv == Init => OwnInv
<1> SUFFICES ASSUME Init PROVE OwnInv
  OBVIOUS
<1>1. pool \in [Buffer -> 0 .. 1] /\ \A b \in Buffer : pool[b] = 0
  BY DEF Init
<1>2. \A g \in Slots(stack) : FALSE
  BY SlotParts DEF Init
<1>3. QED
  BY <1>1, <1>2 DEF OwnInv, Apart

\* A step on the innermost frame that leaves its buffers alone.
LEMMA SetTopOwned ==
  ASSUME TypeInv, OwnInv, NEW w \in Worker, pc[w] # "idle", NEW f \in FrameType, SetTop(w, f),
         f.buf = Top(w).buf, f.base.buf \in {Top(w).base.buf, NoBuffer}, pool' = pool
  PROVE  OwnInv'
<1>1. \A g \in Slots(stack') : \/ g \in Slots(stack) /\ At(stack', g) = At(stack, g)
                               \/ At(stack', g) = NoBuffer
  BY SetTopSlots, TopSlots
<1>2. pool' \in [Buffer -> 0 .. 1]
  BY DEF OwnInv
<1>3. QED
  BY <1>1, <1>2, NothingTaken

\* An error, with the pool as it is.
LEMMA FailOwned ==
  ASSUME TypeInv, OwnInv, NEW w \in Worker, pc[w] # "idle", NEW e \in Error, Fail(w, e),
         pool' = pool
  PROVE  OwnInv'
<1>1. pool' \in [Buffer -> 0 .. 1]
  BY DEF OwnInv
<1>2. QED
  BY <1>1, FailSlots, NothingTaken

\* A new read begins without buffers.
LEMMA CallOwned == ASSUME TypeInv, OwnInv, NEW w \in Worker, Call(w) PROVE OwnInv'
<1>1. PICK n \in in.wanted : stack' = [stack EXCEPT ![w] = << FrameFor(n, 0) >>]
  BY DEF Call
<1>2. Opens /\ UNCHANGED buffers /\ n \in Name /\ stack \in [Worker -> Seq(FrameType)]
  BY PackFacts DEF Call, TypeInv
<1>3. FrameFor(n, 0).buf = NoBuffer /\ FrameFor(n, 0).base.buf = NoBuffer
  BY <1>2, NewFrameFor, ObjectFacts
<1>4. ASSUME NEW g \in Slots(stack')
      PROVE  \/ g \in Slots(stack) /\ At(stack', g) = At(stack, g)
             \/ At(stack', g) = NoBuffer
  <2>1. /\ g[1] \in Worker /\ g[2] \in DOMAIN stack'[g[1]] /\ g[3] \in {"own", "base"}
        /\ g = << g[1], g[2], g[3] >>
    BY SlotParts
  <2>2. CASE g[1] = w
    <3>1. stack'[g[1]] = << FrameFor(n, 0) >>
      BY <1>1, <1>2, <2>2
    <3>2. g[2] = 1 /\ stack'[g[1]][g[2]] = FrameFor(n, 0)
      BY <2>1, <3>1
    <3>3. QED
      BY <1>3, <3>2 DEF At
  <2>3. CASE g[1] # w
    <3>1. stack'[g[1]] = stack[g[1]]
      BY <1>1, <1>2, <2>1, <2>3
    <3>2. << g[1], g[2], g[3] >> \in Slots(stack)
      BY <2>1, <3>1, SlotsOfFrame
    <3>3. g \in Slots(stack)
      BY <2>1, <3>2, Zenon
    <3>4. QED
      BY <3>1, <3>3 DEF At
  <2>4. QED
    BY <2>2, <2>3
<1>5. pool' = pool /\ pool' \in [Buffer -> 0 .. 1]
  BY <1>2 DEF buffers, OwnInv
<1>6. QED
  BY <1>4, <1>5, NothingTaken

\* The search does without buffers.
LEMMA SearchOwned ==
  ASSUME TypeInv, OwnInv, NEW w \in Worker, SearchStep(w) \/ SearchHit(w) \/ SearchMiss(w)
  PROVE  OwnInv'
<1>1. /\ pc[w] = "search" /\ Top(w) \in FrameType /\ pool' = pool
      /\ Top(w).low < Top(w).high => Mid(w) \in Nat
  <2>1. pc[w] = "search" /\ pool' = pool
    BY DEF SearchStep, SearchHit, SearchMiss, buffers
  <2>2. QED
    BY <2>1, TopFits, MidInTable
<1>2. CASE SearchStep(w)
  <2>1. CASE SetTop(w, [Top(w) EXCEPT !.low = Mid(w) + 1])
    <3> DEFINE f == [Top(w) EXCEPT !.low = Mid(w) + 1]
    <3>1. f \in FrameType /\ f.buf = Top(w).buf /\ f.base = Top(w).base
      BY <1>1, <1>2 DEF FrameType, SearchStep
    <3> HIDE DEF f
    <3>2. SetTop(w, f)
      BY <2>1 DEF f
    <3>3. QED
      BY <1>1, <3>1, <3>2, SetTopOwned
  <2>2. CASE SetTop(w, [Top(w) EXCEPT !.high = Mid(w)])
    <3> DEFINE f == [Top(w) EXCEPT !.high = Mid(w)]
    <3>1. f \in FrameType /\ f.buf = Top(w).buf /\ f.base = Top(w).base
      BY <1>1, <1>2 DEF FrameType, SearchStep
    <3> HIDE DEF f
    <3>2. SetTop(w, f)
      BY <2>2 DEF f
    <3>3. QED
      BY <1>1, <3>1, <3>2, SetTopOwned
  <2>3. QED
    BY <1>2, <2>1, <2>2 DEF SearchStep
<1>3. CASE SearchHit(w)
  <2>1. ASSUME NEW off \in Nat, SetTop(w, [Top(w) EXCEPT !.off = off, !.low = 0, !.high = 0])
        PROVE  OwnInv'
    <3> DEFINE f == [Top(w) EXCEPT !.off = off, !.low = 0, !.high = 0]
    <3>1. f \in FrameType /\ f.buf = Top(w).buf /\ f.base = Top(w).base
      BY <1>1 DEF FrameType
    <3> HIDE DEF f
    <3>2. SetTop(w, f)
      BY <2>1 DEF f
    <3>3. QED
      BY <1>1, <3>1, <3>2, SetTopOwned
  <2>2. CASE Fail(w, "invalid")
    BY <1>1, <2>2, FailOwned DEF Error
  <2>3. QED
    BY <1>3, <2>1, <2>2, SearchHitEffect
<1>4. CASE SearchMiss(w)
  BY <1>1, <1>4, FailOwned DEF SearchMiss, Error
<1>5. QED
  BY <1>2, <1>3, <1>4

\* Nor does the way down to the base.
LEMMA ReadEntryOwned == ASSUME TypeInv, OwnInv, NEW w \in Worker, ReadEntry(w) PROVE OwnInv'
<1>1. /\ pc[w] = "entry" /\ pool' = pool /\ Top(w) \in FrameType
      /\ pool' \in [Buffer -> 0 .. 1] /\ Opens /\ Top(w).depth + 1 \in Nat
  <2>1. pc[w] = "entry" /\ pool' = pool /\ Top(w) \in FrameType
    BY ReadEntryEffect DEF buffers
  <2>2. QED
    BY <2>1, TopFits DEF OwnInv, FrameType
<1>2. CASE Fail(w, "corrupt")
  BY <1>1, <1>2, FailOwned DEF Error
<1>3. ASSUME NEW o \in Object, o.buf = NoBuffer, Return(w, o) PROVE OwnInv'
  <2>1. \A g \in Slots(stack') : \/ g \in Slots(stack) /\ At(stack', g) = At(stack, g)
                                 \/ At(stack', g) = NoBuffer
    BY <1>1, <1>3, ReturnSlots
  <2>2. QED
    BY <1>1, <2>1, NothingTaken
<1>4. ASSUME NEW f \in FrameType, f.buf = NoBuffer, f.base = NoObject, Push(w, f)
      PROVE  OwnInv'
  <2>1. \A g \in Slots(stack') : \/ g \in Slots(stack) /\ At(stack', g) = At(stack, g)
                                 \/ At(stack', g) = NoBuffer
    BY <1>1, <1>4, PushSlots, ObjectFacts
  <2>2. QED
    BY <1>1, <2>1, NothingTaken
<1>5. CASE /\ Top(w).off - EntryOf(Top(w)).back \in Nat
           /\ Push(w, FrameAt(Top(w).off - EntryOf(Top(w)).back, Top(w).depth + 1))
  BY <1>1, <1>4, <1>5, NewFrameAt
<1>6. CASE /\ EntryOf(Top(w)).base \in Name
           /\ Push(w, FrameFor(EntryOf(Top(w)).base, Top(w).depth + 1))
  BY <1>1, <1>4, <1>6, NewFrameFor
<1>7. QED
  BY <1>2, <1>3, <1>5, <1>6, ReadEntryEffect

\* Nobody holds an array that the pool hands out.
LEMMA TakenUnheld ==
  ASSUME OwnInv, NEW b \in Buffer, pool[b] > 0 \/ b \in Fresh
  PROVE  Unheld(stack, b)
<1>1. CASE pool[b] > 0
  BY <1>1 DEF OwnInv
<1>2. CASE b \in Fresh
  <2> SUFFICES ASSUME NEW g \in Slots(stack) PROVE At(stack, g) # b
    BY DEF Unheld
  <2>1. g[1] \in Worker /\ g[2] \in DOMAIN stack[g[1]] /\ g[3] \in {"own", "base"}
    BY SlotParts
  <2>2. stack[g[1]][g[2]] \in Frames(g[1]) /\ stack[g[1]][g[2]].base \in Objects(g[1])
    BY <2>1 DEF Frames, Objects
  <2>3. QED
    BY <1>2, <2>1, <2>2 DEF Fresh, At
<1>3. QED
  BY <1>1, <1>2

\* A delta gets a buffer that nobody has.
LEMMA GetBufferOwned == ASSUME TypeInv, OwnInv, NEW w \in Worker, GetBuffer(w) PROVE OwnInv'
<1>1. PICK b \in Buffer, m \in [1 .. MaxCap -> Item], c \in 0 .. MaxCap :
              /\ Prepare(w, b, m, c)
              /\ \/ pool[b] > 0 /\ pool' = [pool EXCEPT ![b] = @ - 1]
                 \/ b \in Fresh /\ pool' = pool
  BY GetBufferEffect
<1>2. pc[w] = "apply" /\ pc[w] # "idle"
  BY GetBufferEffect
<1>3. PICK f \in FrameType :
              /\ SetTop(w, f) /\ f = [Top(w) EXCEPT !.buf = b, !.ok = Applies(w)]
              /\ f.depth = Top(w).depth /\ f.off = Top(w).off /\ f.buf = b
              /\ f.base = Top(w).base /\ f.ok = Applies(w) /\ f.len = Top(w).len
              /\ f.op = Top(w).op /\ f.name = Top(w).name
  BY <1>1, <1>2, PrepareEffect, Zenon
<1>4. pool \in [Buffer -> 0 .. 1]
  BY DEF OwnInv
<1>5. /\ pool' \in [Buffer -> 0 .. 1] /\ pool'[b] = 0
      /\ \A d \in Buffer : pool'[d] = 1 => pool[d] = 1
  <2>1. CASE pool[b] > 0 /\ pool' = [pool EXCEPT ![b] = @ - 1]
    BY <1>4, <2>1
  <2>2. CASE b \in Fresh /\ pool' = pool
    BY <1>4, <2>2 DEF Fresh
  <2>3. QED
    BY <1>1, <2>1, <2>2
<1>6. Unheld(stack, b)
  BY <1>1, TakenUnheld
<1>7. \A g \in Slots(stack') :
        \/ g \in Slots(stack) /\ At(stack', g) = At(stack, g) /\ At(stack, g) # b
        \/ At(stack', g) = NoBuffer
        \/ g = << w, Level(w), "own" >> /\ At(stack', g) = b
  <2>1. SetTop(w, f) /\ f.buf = b /\ f.base.buf = Top(w).base.buf
    BY <1>3
  <2> SUFFICES ASSUME NEW g \in Slots(stack')
               PROVE  \/ g \in Slots(stack) /\ At(stack', g) = At(stack, g) /\ At(stack, g) # b
                      \/ g = << w, Level(w), "own" >> /\ At(stack', g) = b
    OBVIOUS
  <2>2. g \in Slots(stack) /\ At(stack, g) # b
    BY <1>2, <1>6, <2>1, SetTopSlots DEF Unheld
  <2>3. \/ At(stack', g) = At(stack, g)
        \/ g = << w, Level(w), "own" >> /\ At(stack', g) = b
        \/ g = << w, Level(w), "base" >> /\ At(stack', g) = Top(w).base.buf
    BY <1>2, <2>1, SetTopSlots
  <2>4. At(stack, << w, Level(w), "base" >>) = Top(w).base.buf
    BY <1>2, TopSlots
  <2>5. QED
    BY <2>2, <2>3, <2>4
<1>8. QED
  BY <1>5, <1>7, TakenOnce

\* Decoding stays in the buffers that the frame has.
LEMMA DecodeOwned ==
  ASSUME TypeInv, OwnInv, NEW w \in Worker, RunOp(w) \/ EndOps(w) \/ CopyOut(w)
  PROVE  OwnInv'
<1>1. CASE RunOp(w)
  <2>1. pc[w] = "ops" /\ pool' = pool
    BY <1>1, RunOpEffect
  <2>2. \E f \in FrameType : SetTop(w, f) /\ f.buf = Top(w).buf /\ f.base = Top(w).base
    BY <1>1, RunOpEffect
  <2>3. QED
    BY <2>1, <2>2, SetTopOwned
<1>2. CASE EndOps(w)
  <2>1. pc[w] = "ops" /\ pool' = pool
    BY <1>2, EndOpsEffect DEF buffers
  <2>2. \E f \in FrameType : SetTop(w, f) /\ f.buf = Top(w).buf /\ f.base = Top(w).base
    BY <1>2, EndOpsEffect
  <2>3. QED
    BY <2>1, <2>2, SetTopOwned
<1>3. CASE CopyOut(w)
  <2>1. pc[w] = "hand" /\ pool' = pool
    BY <1>3, CopyOutEffect DEF buffers
  <2>2. \E f \in FrameType : SetTop(w, f) /\ f.buf = Top(w).buf /\ f.base.buf = NoBuffer
    BY <1>3, CopyOutEffect
  <2>3. QED
    BY <2>1, <2>2, SetTopOwned
<1>4. QED
  BY <1>1, <1>2, <1>3

\* The base goes back before the frame lets go of it.
LEMMA PutBaseOwned == ASSUME TypeInv, OwnInv, NEW w \in Worker, PutBase(w) PROVE OwnInv'
<1>1. /\ pc[w] = "putbase"
      /\ \/ Top(w).base.buf = NoBuffer /\ pool' = pool
         \/ Top(w).base.buf \in Buffer /\ Put(Top(w).base.buf)
  BY PutBaseEffect
<1>2. PICK f \in FrameType : SetTop(w, f) /\ f.buf = Top(w).buf /\ f.base = NoObject
  BY PutBaseEffect
<1>3. f.base.buf = NoBuffer
  BY <1>2, ObjectFacts
<1>4. CASE Top(w).base.buf = NoBuffer /\ pool' = pool
  BY <1>1, <1>2, <1>3, <1>4, SetTopOwned
<1>5. CASE Top(w).base.buf \in Buffer /\ Put(Top(w).base.buf)
  <2> DEFINE h == << w, Level(w), "base" >>
  <2>1. h \in Slots(stack) /\ At(stack, h) = Top(w).base.buf
    BY <1>1, TopSlots
  <2>2. \A g \in Slots(stack') :
          \/ g \in Slots(stack) /\ At(stack', g) = At(stack, g) /\ g # h
          \/ At(stack', g) = NoBuffer
    BY <1>1, <1>2, <1>3, SetTopSlots, TopSlots
  <2> HIDE DEF h
  <2>3. QED
    BY <1>5, <2>1, <2>2, GivenBack
<1>6. QED
  BY <1>1, <1>4, <1>5

\* A delta that failed gives its buffer back as its frames go.
LEMMA DiscardOwned == ASSUME TypeInv, OwnInv, NEW w \in Worker, Discard(w) PROVE OwnInv'
<1> DEFINE h == << w, Level(w), "own" >>
<1>1. pc[w] = "discard" /\ Put(Top(w).buf) /\ Fail(w, "corrupt")
  BY DEF Discard
<1>2. h \in Slots(stack) /\ At(stack, h) = Top(w).buf /\ Top(w).buf \in Buffer
  BY <1>1, TopSlots, TopDelta DEF Applying
<1>3. \A g \in Slots(stack') : g \in Slots(stack) /\ At(stack', g) = At(stack, g) /\ g # h
  BY <1>1, FailSlots DEF Error
<1> HIDE DEF h
<1>4. QED
  BY <1>1, <1>2, <1>3, GivenBack

\* A target that is a base moves up, buffer and all.
LEMMA HandUpOwned == ASSUME TypeInv, OwnInv, NEW w \in Worker, HandUp(w) PROVE OwnInv'
<1> DEFINE h == << w, Level(w), "own" >>
           k == << w, Level(w) - 1, "base" >>
           c == Top(w).buf
<1>1. pc[w] = "hand" /\ Return(w, Slice(c, Top(w).len)) /\ pool' = pool
  BY DEF HandUp, buffers
<1>2. /\ c \in Buffer /\ Slice(c, Top(w).len) \in Object /\ Slice(c, Top(w).len).buf = c
      /\ h \in Slots(stack) /\ At(stack, h) = c
  BY <1>1, TargetIsObject, TopSlots
<1>3. \A g \in Slots(stack) : At(stack, g) = c => g = h
  BY <1>2, Zenon DEF OwnInv, Apart
<1>4. pool \in [Buffer -> 0 .. 1] /\ pool[c] = 0
  BY <1>2 DEF OwnInv, Unheld
<1>5. \A g \in Slots(stack') :
        \/ g \in Slots(stack) /\ At(stack', g) = At(stack, g) /\ g # h
        \/ g = k /\ At(stack', g) = c
  BY <1>1, <1>2, ReturnSlots
<1> HIDE DEF h, k, c
<1>6. \A g \in Slots(stack') :
        \/ g \in Slots(stack) /\ At(stack', g) = At(stack, g) /\ At(stack, g) # c
        \/ At(stack', g) = NoBuffer
        \/ g = k /\ At(stack', g) = c
  BY <1>3, <1>5
<1>7. QED
  BY <1>1, <1>2, <1>4, <1>6, TakenOnce

\* The last buffer of a read goes back, the object that it leaves is a copy.
LEMMA PutOwnOwned == ASSUME TypeInv, OwnInv, NEW w \in Worker, PutOwn(w) PROVE OwnInv'
<1> DEFINE h == << w, Level(w), "own" >>
<1>1. pc[w] = "putown" /\ Put(Top(w).buf) /\ Return(w, Top(w).base)
  BY DEF PutOwn
<1>2. Top(w).buf \in Buffer /\ Top(w).base \in Object /\ Top(w).base.buf = NoBuffer
  BY <1>1, TopDelta, TopFits DEF Applying, Fits
<1>3. h \in Slots(stack) /\ At(stack, h) = Top(w).buf
  BY <1>1, TopSlots
<1>4. \A g \in Slots(stack') :
        \/ g \in Slots(stack) /\ At(stack', g) = At(stack, g) /\ g # h
        \/ At(stack', g) = NoBuffer
  BY <1>1, <1>2, ReturnSlots
<1> HIDE DEF h
<1>5. QED
  BY <1>1, <1>2, <1>3, <1>4, GivenBack

\* The collector takes from the pool; a read without a pack touches no buffer.
LEMMA OthersOwned ==
  ASSUME TypeInv, OwnInv, Collect \/ UNCHANGED vars \/ \E w \in Worker : CallWithoutPack(w)
  PROVE  OwnInv'
<1>1. stack' = stack
  BY DEF Collect, vars, CallWithoutPack
<1>2. pool' = pool \/ \E b \in Buffer : pool[b] > 0 /\ pool' = [pool EXCEPT ![b] = @ - 1]
  BY DEF Collect, vars, CallWithoutPack, buffers
<1>3. pool \in [Buffer -> 0 .. 1]
  BY DEF OwnInv
<1>4. pool' \in [Buffer -> 0 .. 1] /\ \A b \in Buffer : pool'[b] = 1 => pool[b] = 1
  BY <1>2, <1>3
<1>5. QED
  BY <1>1, <1>4 DEF OwnInv

\* Ownership is kept by every step.
LEMMA NextOwnInv == TypeInv /\ OwnInv /\ [Next]_vars => OwnInv'
BY CallOwned, SearchOwned, ReadEntryOwned, GetBufferOwned, DecodeOwned, PutBaseOwned,
   DiscardOwned, HandUpOwned, PutOwnOwned, OthersOwned DEF Next

\* And holds always.
LEMMA AlwaysOwnInv == Spec => []OwnInv
<1>1. Init => OwnInv
  BY InitOwnInv
<1>2. TypeInv /\ OwnInv /\ [Next]_vars => OwnInv'
  BY NextOwnInv
<1>3. QED
  BY <1>1, <1>2, AlwaysTypeInv, PTL DEF Spec

(***************************************************************************)
(* A buffer is in the pool once, or in the hands of one frame, or holds    *)
(* the base of one frame, and no object that was returned lies in one: the *)
(* promise of the buffer pool in pack.go, whatever the packs, the number   *)
(* of readers and the damage.                                              *)
(***************************************************************************)
THEOREM OneOwnerAlways == Spec => []OneOwner
<1>1. ASSUME TypeInv, OwnInv PROVE OneOwner
  <2> SUFFICES ASSUME NEW b \in Buffer PROVE pool[b] + Cardinality(Holders(b)) <= 1
    BY DEF OneOwner
  <2>1. pool[b] \in 0 .. 1
    BY <1>1 DEF OwnInv
  <2>2. \A w \in Worker : result[w].obj.buf # b
    BY <1>1, BufferAssumption DEF TypeInv, WorkerType
  <2>3. \A h \in Holders(b) : h \in Slots(stack) /\ At(stack, h) = b
    <3> SUFFICES ASSUME NEW h \in Holders(b) PROVE h \in Slots(stack) /\ At(stack, h) = b
      OBVIOUS
    <3>1. PICK w \in Worker :
            \/ \E i \in DOMAIN stack[w] : h = << w, i, "own" >> /\ stack[w][i].buf = b
            \/ \E i \in DOMAIN stack[w] : h = << w, i, "base" >> /\ stack[w][i].base.buf = b
      BY <2>2 DEF Holders
    <3>2. ASSUME NEW i \in DOMAIN stack[w], h = << w, i, "own" >>, stack[w][i].buf = b
          PROVE  h \in Slots(stack) /\ At(stack, h) = b
      BY <3>2, SlotsOfFrame
    <3>3. ASSUME NEW i \in DOMAIN stack[w], h = << w, i, "base" >>, stack[w][i].base.buf = b
          PROVE  h \in Slots(stack) /\ At(stack, h) = b
      BY <3>3, SlotsOfFrame
    <3>4. QED
      BY <3>1, <3>2, <3>3
  <2>4. CASE Holders(b) = {}
    BY <2>1, <2>4, FS_EmptySet
  <2>5. CASE Holders(b) # {}
    <3>1. PICK h : h \in Holders(b)
      BY <2>5
    <3>2. \A g \in Holders(b) : g = h
      BY <1>1, <2>3, <3>1 DEF OwnInv, Apart
    <3>3. Holders(b) = {h}
      BY <3>1, <3>2
    <3>4. Cardinality(Holders(b)) = 1
      BY <3>3, FS_Singleton
    <3>5. pool[b] = 0
      BY <1>1, <2>1, <2>3, <3>1 DEF OwnInv, Unheld
    <3>6. QED
      BY <3>4, <3>5
  <2>6. QED
    BY <2>4, <2>5
<1>2. QED
  BY <1>1, AlwaysTypeInv, AlwaysOwnInv, PTL

-----------------------------------------------------------------------------
(* The search.                                                             *)

\* Names are ordered, and no name precedes itself.
LEMMA BeforeFacts ==
  ASSUME NEW m \in Name, NEW n \in Name
  PROVE  /\ Before(m, n) => m[1] <= n[1] /\ m # n /\ ~Before(n, m)
         /\ m[1] \in 0 .. LastByte /\ m[2] \in Nat
BY SizeAssumption DEF Name, Before

\* The buckets of a sound index: the fanout entry of a byte is at or after
\* every name that begins with it, the entry before it is before them all.
LEMMA BucketEncloses ==
  ASSUME TypeInv, WellFormed, NEW i \in DOMAIN in.names
  PROVE  /\ i <= in.fanout[in.names[i][1]]
         /\ in.names[i][1] # 0 => in.fanout[in.names[i][1] - 1] < i
<1> DEFINE N == Len(in.names)
           b == in.names[i][1]
           UpTo(c) == { k \in DOMAIN in.names : in.names[k][1] <= c }
<1>1. /\ DOMAIN in.names = 1 .. N /\ N \in Nat /\ LastByte \in Nat
      /\ \A k \in 1 .. N : in.names[k] \in Name
  BY PackFacts, ElementOfSeq, SizeAssumption
<1>2. /\ \A k, l \in 1 .. N : k < l => Before(in.names[k], in.names[l])
      /\ \A c \in 0 .. LastByte : in.fanout[c] = Cardinality(UpTo(c))
  BY <1>1 DEF WellFormed
<1>3. \A k, l \in 1 .. N : k < l => in.names[k][1] <= in.names[l][1]
  BY <1>1, <1>2, BeforeFacts
<1>4. i \in 1 .. N /\ b \in 0 .. LastByte /\ \A k \in 1 .. N : in.names[k][1] \in 0 .. LastByte
  BY <1>1, BeforeFacts
<1> HIDE DEF N
<1>5. ASSUME NEW c \in 0 .. LastByte
      PROVE  IsFiniteSet(UpTo(c)) /\ Cardinality(UpTo(c)) \in Nat
  <2>1. UpTo(c) \subseteq 1 .. N /\ IsFiniteSet(1 .. N)
    BY <1>1, FS_Interval
  <2> HIDE DEF UpTo
  <2>2. QED
    BY <2>1, FS_Subset, FS_CardinalityType
<1>6. i <= in.fanout[b]
  <2>1. 1 .. i \subseteq UpTo(b)
    BY <1>1, <1>3, <1>4
  <2>2. Cardinality(1 .. i) = i
    BY <1>1, <1>4, FS_Interval
  <2> HIDE DEF b, UpTo
  <2>3. Cardinality(1 .. i) <= Cardinality(UpTo(b))
    BY <1>4, <1>5, <2>1, FS_Subset
  <2>4. QED
    BY <1>2, <1>4, <2>2, <2>3
<1>7. ASSUME b # 0 PROVE in.fanout[b - 1] < i
  <2>1. b - 1 \in 0 .. LastByte
    BY <1>1, <1>4, <1>7
  <2>2. UpTo(b - 1) \subseteq 1 .. i - 1
    <3> SUFFICES ASSUME NEW k \in UpTo(b - 1) PROVE k \in 1 .. i - 1
      OBVIOUS
    <3>1. k \in 1 .. N /\ in.names[k][1] <= b - 1
      BY <1>1
    <3>2. ~(i <= k)
      BY <1>3, <1>4, <3>1
    <3>3. QED
      BY <1>1, <1>4, <3>1, <3>2
  <2>3. IsFiniteSet(1 .. i - 1) /\ Cardinality(1 .. i - 1) = i - 1
    <3> DEFINE j == i - 1
    <3>1. j \in Int /\ 1 \in Int /\ (1 > j => j = 0)
      BY <1>1, <1>4
    <3> HIDE DEF j
    <3>2. IsFiniteSet(1 .. j) /\ Cardinality(1 .. j) = IF 1 > j THEN 0 ELSE j - 1 + 1
      BY <3>1, FS_Interval
    <3>3. IsFiniteSet(1 .. j) /\ Cardinality(1 .. j) = j
      BY <3>1, <3>2
    <3>4. QED
      BY <3>3 DEF j
  <2>4. in.fanout[b - 1] = Cardinality(UpTo(b - 1)) /\ Cardinality(UpTo(b - 1)) \in Nat
    BY <1>2, <1>5, <2>1
  <2> HIDE DEF b, UpTo
  <2>5. Cardinality(UpTo(b - 1)) <= i - 1
    BY <2>2, <2>3, FS_Subset
  <2>6. QED
    BY <1>1, <1>4, <2>4, <2>5
<1>8. QED
  BY <1>6, <1>7

\* A search begins with the bucket of its name.
LEMMA FrameEncloses ==
  ASSUME TypeInv, Opens, WellFormed, NEW n \in Name, NEW d \in Nat
  PROVE  Encloses(FrameFor(n, d))
<1> DEFINE f == FrameFor(n, d)
<1>1. /\ f \in FrameType /\ f.name = n /\ f.high = in.fanout[n[1]]
      /\ f.low = IF n[1] = 0 THEN 0 ELSE in.fanout[n[1] - 1]
  BY NewFrameFor
<1> HIDE DEF f
<1>2. f.low \in Nat /\ f.high \in Nat
  BY <1>1 DEF FrameType
<1>3. ASSUME NEW i \in DOMAIN in.names, in.names[i] = n PROVE i \in f.low + 1 .. f.high
  <2>1. i <= f.high
    BY <1>1, <1>3, BucketEncloses
  <2>2. i \in Nat /\ i >= 1
    BY PackFacts
  <2>3. f.low < i
    BY <1>1, <1>3, <2>2, BucketEncloses
  <2>4. QED
    BY <1>2, <2>1, <2>2, <2>3
<1>4. Encloses(f)
  BY <1>1, <1>3 DEF Encloses
<1>5. QED
  BY <1>4 DEF f

\* Halving the bounds does not lose the name.
LEMMA HalfEncloses ==
  ASSUME TypeInv, WellFormed, NEW w \in Worker, pc[w] = "search",
         Top(w).low < Top(w).high, MidName(w) # Top(w).name, Encloses(Top(w)),
         NEW i \in DOMAIN in.names, in.names[i] = Top(w).name
  PROVE  IF Before(MidName(w), Top(w).name) THEN i \in (Mid(w) + 1) + 1 .. Top(w).high
                                            ELSE i \in Top(w).low + 1 .. Mid(w)
<1> DEFINE m == Mid(w) + 1
<1>1. /\ m \in DOMAIN in.names /\ Mid(w) \in Nat /\ MidName(w) = in.names[m]
      /\ Top(w).low \in Nat /\ Top(w).high \in Nat
  BY MidInTable, PackFacts DEF MidName
<1>2. /\ i \in Top(w).low + 1 .. Top(w).high /\ i # m
  BY <1>1 DEF Encloses
<1>3. \A k, l \in DOMAIN in.names : k < l => Before(in.names[k], in.names[l])
  BY DEF WellFormed
<1>4. MidName(w) \in Name /\ Top(w).name \in Name
  BY <1>1, TopFits, PackFacts, ElementOfSeq DEF FrameType
<1>5. CASE Before(MidName(w), Top(w).name)
  <2>1. ~Before(Top(w).name, MidName(w))
    BY <1>4, <1>5, BeforeFacts
  <2>2. ~(i < m)
    BY <1>1, <1>3, <2>1
  <2>3. QED
    BY <1>1, <1>2, <1>5, <2>2
<1>6. CASE ~Before(MidName(w), Top(w).name)
  <2>1. ~(m < i)
    BY <1>1, <1>3, <1>6
  <2>2. QED
    BY <1>1, <1>2, <1>6, <2>1
<1>7. QED
  BY <1>5, <1>6

\* A step of one worker that leaves its search sound leaves all sound.
LEMMA SearchKept ==
  ASSUME TypeInv, SearchInv, NEW w \in Worker, in' = in, NEW l \in Label,
         pc' = [pc EXCEPT ![w] = l], \A u \in Worker : u # w => stack'[u] = stack[u],
         WellFormed /\ l = "search" => Encloses(Top(w)')
  PROVE  SearchInv'
<1> SUFFICES ASSUME WellFormed', NEW u \in Worker, pc'[u] = "search" PROVE Encloses(Top(u))'
  BY DEF SearchInv
<1>1. WellFormed
  BY DEF WellFormed
<1>2. pc \in [Worker -> Label]
  BY DEF TypeInv
<1>3. CASE u = w
  <2>1. Encloses(Top(w)')
    BY <1>1, <1>2, <1>3
  <2>2. QED
    BY <1>3, <2>1 DEF Encloses
<1>4. CASE u # w
  <2>1. Top(u)' = Top(u) /\ pc[u] = "search"
    BY <1>2, <1>4 DEF Top
  <2>2. Encloses(Top(u))
    BY <1>1, <2>1 DEF SearchInv
  <2>3. QED
    BY <2>1, <2>2 DEF Encloses
<1>5. QED
  BY <1>3, <1>4

\* A step of the search.
LEMMA SearchStepKept == ASSUME TypeInv, SearchInv, NEW w \in Worker, SearchStep(w) PROVE SearchInv'
<1>1. /\ pc[w] = "search" /\ Top(w).low < Top(w).high /\ MidName(w) # Top(w).name
      /\ IF Before(MidName(w), Top(w).name)
         THEN SetTop(w, [Top(w) EXCEPT !.low = Mid(w) + 1])
         ELSE SetTop(w, [Top(w) EXCEPT !.high = Mid(w)])
      /\ UNCHANGED << in, pc >>
  BY DEF SearchStep
<1>2. Top(w) \in FrameType /\ Mid(w) \in Nat
  BY <1>1, TopFits, MidInTable
<1>3. pc' = [pc EXCEPT ![w] = "search"] /\ "search" \in Label
  BY <1>1 DEF TypeInv, Label
<1>4. WellFormed => Encloses(Top(w))
  BY <1>1 DEF SearchInv
<1>5. ASSUME NEW f \in FrameType, SetTop(w, f), WellFormed => Encloses(f) PROVE SearchInv'
  BY <1>1, <1>3, <1>5, SetTopEffect, SearchKept
<1>6. CASE Before(MidName(w), Top(w).name)
  <2> DEFINE f == [Top(w) EXCEPT !.low = Mid(w) + 1]
  <2>1. f \in FrameType /\ f.name = Top(w).name /\ f.low = Mid(w) + 1 /\ f.high = Top(w).high
    BY <1>2 DEF FrameType
  <2> HIDE DEF f
  <2>2. WellFormed => Encloses(f)
    <3>1. ASSUME WellFormed, NEW i \in DOMAIN in.names, in.names[i] = Top(w).name
          PROVE  i \in (Mid(w) + 1) + 1 .. Top(w).high
      BY <1>1, <1>4, <1>6, <3>1, HalfEncloses
    <3>2. QED
      BY <2>1, <3>1 DEF Encloses
  <2>3. SetTop(w, f)
    BY <1>1, <1>6 DEF f
  <2>4. QED
    BY <1>5, <2>1, <2>2, <2>3
<1>7. CASE ~Before(MidName(w), Top(w).name)
  <2> DEFINE f == [Top(w) EXCEPT !.high = Mid(w)]
  <2>1. f \in FrameType /\ f.name = Top(w).name /\ f.low = Top(w).low /\ f.high = Mid(w)
    BY <1>2 DEF FrameType
  <2> HIDE DEF f
  <2>2. WellFormed => Encloses(f)
    <3>1. ASSUME WellFormed, NEW i \in DOMAIN in.names, in.names[i] = Top(w).name
          PROVE  i \in Top(w).low + 1 .. Mid(w)
      BY <1>1, <1>4, <1>7, <3>1, HalfEncloses
    <3>2. QED
      BY <2>1, <3>1 DEF Encloses
  <2>3. SetTop(w, f)
    BY <1>1, <1>7 DEF f
  <2>4. QED
    BY <1>5, <2>1, <2>2, <2>3
<1>8. QED
  BY <1>6, <1>7

\* A read begins with a search.
LEMMA CallKept == ASSUME TypeInv, SearchInv, NEW w \in Worker, Call(w) PROVE SearchInv'
<1>1. PICK n \in in.wanted : stack' = [stack EXCEPT ![w] = << FrameFor(n, 0) >>]
  BY DEF Call
<1>2. /\ Opens /\ in' = in /\ n \in Name /\ stack \in [Worker -> Seq(FrameType)]
      /\ pc' = [pc EXCEPT ![w] = "search"]
  BY PackFacts DEF Call, TypeInv, Goto
<1>3. stack'[w] = << FrameFor(n, 0) >> /\ \A u \in Worker : u # w => stack'[u] = stack[u]
  BY <1>1, <1>2
<1>4. Top(w)' = FrameFor(n, 0)
  BY <1>3 DEF Top
<1>5. WellFormed => Encloses(Top(w)')
  BY <1>2, <1>4, FrameEncloses
<1>6. QED
  BY <1>2, <1>3, <1>5, SearchKept DEF Label

\* The base of a delta may have to be searched.
LEMMA ReadEntryKept == ASSUME TypeInv, SearchInv, NEW w \in Worker, ReadEntry(w) PROVE SearchInv'
<1>1. /\ pc[w] = "entry" /\ in' = in /\ Opens /\ Top(w).depth + 1 \in Nat
      /\ Top(w) \in FrameType
  <2>1. pc[w] = "entry" /\ in' = in /\ Top(w) \in FrameType
    BY ReadEntryEffect
  <2>2. QED
    BY <2>1, TopFits DEF FrameType
<1>2. CASE Fail(w, "corrupt")
  <2>1. pc' = [pc EXCEPT ![w] = "idle"] /\ \A u \in Worker : u # w => stack'[u] = stack[u]
    BY <1>1, <1>2, FailEffect DEF Error
  <2>2. QED
    BY <1>1, <2>1, SearchKept DEF Label
<1>3. ASSUME NEW o \in Object, Return(w, o) PROVE SearchInv'
  <2>1. /\ pc' = [pc EXCEPT ![w] = "idle"] \/ pc' = [pc EXCEPT ![w] = "apply"]
        /\ \A u \in Worker : u # w => stack'[u] = stack[u]
    BY <1>1, <1>3, ReturnEffect
  <2>2. QED
    BY <1>1, <2>1, SearchKept DEF Label
<1>4. ASSUME NEW off \in Nat, Push(w, FrameAt(off, Top(w).depth + 1)),
             pc' = [pc EXCEPT ![w] = "entry"]
      PROVE  SearchInv'
  <2>1. \A u \in Worker : u # w => stack'[u] = stack[u]
    BY <1>1, <1>4, NewFrameAt, PushEffect
  <2>2. QED
    BY <1>1, <1>4, <2>1, SearchKept DEF Label
<1>5. ASSUME NEW n \in Name, Push(w, FrameFor(n, Top(w).depth + 1)),
             pc' = [pc EXCEPT ![w] = "search"]
      PROVE  SearchInv'
  <2> DEFINE f == FrameFor(n, Top(w).depth + 1)
  <2>1. f \in FrameType
    BY <1>1, NewFrameFor
  <2>2. WellFormed => Encloses(f)
    BY <1>1, FrameEncloses
  <2> HIDE DEF f
  <2>3. Push(w, f)
    BY <1>5 DEF f
  <2>4. Top(w)' = f /\ \A u \in Worker : u # w => stack'[u] = stack[u]
    BY <1>1, <2>1, <2>3, PushEffect
  <2>5. QED
    BY <1>1, <1>5, <2>2, <2>4, SearchKept DEF Label
<1>6. QED
  BY <1>2, <1>3, <1>4, <1>5, ReadEntryEffect

\* The other steps of a worker end at another label.
LEMMA OtherKept ==
  ASSUME TypeInv, SearchInv, NEW w \in Worker,
         \/ SearchHit(w) \/ SearchMiss(w) \/ GetBuffer(w) \/ RunOp(w) \/ EndOps(w)
         \/ PutBase(w) \/ Discard(w) \/ HandUp(w) \/ CopyOut(w) \/ PutOwn(w)
  PROVE  SearchInv'
<1>1. pc[w] # "idle" /\ in' = in
  BY DEF SearchHit, SearchMiss, GetBuffer, RunOp, EndOps, PutBase, Discard, HandUp, CopyOut, PutOwn
<1>2. ASSUME NEW f, SetTop(w, f) PROVE \A u \in Worker : u # w => stack'[u] = stack[u]
  BY <1>2 DEF SetTop, TypeInv
<1>3. ASSUME NEW o, Return(w, o)
      PROVE  /\ \A u \in Worker : u # w => stack'[u] = stack[u]
             /\ \E l \in {"idle", "apply"} : pc' = [pc EXCEPT ![w] = l]
  BY <1>3 DEF Return, TypeInv, Goto
<1>4. ASSUME NEW e, Fail(w, e)
      PROVE  /\ \A u \in Worker : u # w => stack'[u] = stack[u]
             /\ pc' = [pc EXCEPT ![w] = "idle"]
  BY <1>4 DEF Fail, TypeInv, Goto
<1>5. ASSUME NEW l \in Label \ {"search"}, pc' = [pc EXCEPT ![w] = l],
             \A u \in Worker : u # w => stack'[u] = stack[u]
      PROVE  SearchInv'
  BY <1>1, <1>5, SearchKept
<1>6. CASE SearchHit(w) \/ SearchMiss(w)
  BY <1>2, <1>4, <1>5, <1>6 DEF SearchHit, SearchMiss, Goto, Label
<1>7. CASE GetBuffer(w)
  <2>1. PICK b, m, c : Prepare(w, b, m, c)
    BY <1>7 DEF GetBuffer
  <2>2. \E l \in {"ops", "putbase"} : pc' = [pc EXCEPT ![w] = l]
    BY <2>1 DEF Prepare, Goto
  <2>3. \E f : SetTop(w, f)
    BY <2>1 DEF Prepare
  <2>4. QED
    BY <1>2, <1>5, <2>2, <2>3 DEF Label
<1>8. CASE RunOp(w)
  <2>1. \E l \in {"ops", "putbase"} : pc' = [pc EXCEPT ![w] = l]
    BY <1>8, RunOpEffect
  <2>2. \E f : SetTop(w, f)
    BY <1>8, RunOpEffect
  <2>3. QED
    BY <1>2, <1>5, <2>1, <2>2 DEF Label
<1>9. CASE EndOps(w) \/ CopyOut(w)
  BY <1>2, <1>5, <1>9 DEF EndOps, CopyOut, Goto, Label
<1>10. CASE PutBase(w)
  <2>1. \E l \in {"hand", "discard"} : pc' = [pc EXCEPT ![w] = l]
    BY <1>10 DEF PutBase, Goto
  <2>2. \E f : SetTop(w, f)
    BY <1>10 DEF PutBase
  <2>3. QED
    BY <1>2, <1>5, <2>1, <2>2 DEF Label
<1>11. CASE Discard(w)
  BY <1>4, <1>5, <1>11 DEF Discard, Label
<1>12. CASE HandUp(w) \/ PutOwn(w)
  BY <1>3, <1>5, <1>12 DEF HandUp, PutOwn, Label
<1>13. QED
  BY <1>6, <1>7, <1>8, <1>9, <1>10, <1>11, <1>12

\* No step loses a name.
LEMMA NextSearchInv == TypeInv /\ SearchInv /\ [Next]_vars => SearchInv'
<1> SUFFICES ASSUME TypeInv, SearchInv, [Next]_vars PROVE SearchInv'
  OBVIOUS
<1>1. CASE Collect \/ UNCHANGED vars \/ \E w \in Worker : CallWithoutPack(w)
  <2>1. UNCHANGED << in, pc, stack >>
    BY <1>1 DEF Collect, vars, CallWithoutPack
  <2>2. QED
    BY <2>1 DEF SearchInv, WellFormed, Encloses, Top
<1>2. QED
  BY <1>1, SearchStepKept, CallKept, ReadEntryKept, OtherKept DEF Next

\* No search ever loses its name.
LEMMA AlwaysSearchInv == Spec => []SearchInv
<1>1. Init => SearchInv
  BY DEF Init, SearchInv
<1>2. QED
  BY <1>1, NextSearchInv, AlwaysTypeInv, PTL DEF Spec

(***************************************************************************)
(* However an index is damaged, the search of pack_index.go stays inside   *)
(* its table, and in a sound one the name that it looks for stays within   *)
(* its bounds until it is found: for tables and fanouts of any size.       *)
(***************************************************************************)
THEOREM SearchNeverLosesTheName == Spec => []SearchKeepsTheName
<1>1. TypeInv /\ SearchInv => SearchKeepsTheName
  <2> SUFFICES ASSUME TypeInv, SearchInv, NEW w \in Worker, pc[w] = "search"
               PROVE  /\ Top(w).high <= Len(in.names)
                      /\ WellFormed => \A i \in DOMAIN in.names :
                           in.names[i] = Top(w).name => i \in Top(w).low + 1 .. Top(w).high
    BY DEF SearchKeepsTheName
  <2>1. Fits("search", Top(w))
    BY TopFits
  <2>2. QED
    BY <2>1 DEF SearchInv, Encloses, Fits
<1>2. QED
  BY <1>1, AlwaysTypeInv, AlwaysSearchInv, PTL

-----------------------------------------------------------------------------
(* What the bytes say.                                                     *)

\* What a read may say.
Outcome == [err : Error, data : Seq(Item)]

\* Errors and data are outcomes.
LEMMA OutcomeFacts ==
  /\ \A e \in Error : Bad(e) \in Outcome /\ Bad(e).err = e
  /\ \A d \in Seq(Item) : Good(d) \in Outcome /\ Good(d).err = "none" /\ Good(d).data = d
  /\ \A d \in Seq(Byte) : d \in Seq(Item)
<1>1. << >> \in Seq(Item)
  BY EmptySeq
<1>2. \A d \in Seq(Byte) : d \in Seq(Item)
  BY SeqMonotonic DEF Item
<1>3. QED
  BY <1>1, <1>2 DEF Bad, Good, Outcome, Error

\* What an instruction adds is data.
LEMMA AddedTyped ==
  ASSUME NEW op \in Op, NEW base \in Seq(Item)
  PROVE  Added(op, base) \in Seq(Item)
<1>1. CASE op.kind = "insert"
  <2>1. op.data \in Seq(Byte)
    BY <1>1 DEF Op
  <2>2. QED
    BY <1>1, <2>1, OutcomeFacts DEF Added
<1>2. CASE op.kind # "insert" /\ ~Copies(op, base)
  BY <1>2, EmptySeq DEF Added
<1>3. CASE op.kind # "insert" /\ Copies(op, base)
  <2> DEFINE n == CopySize(op)
  <2>1. op.kind = "copy" /\ op.at \in Nat /\ n \in Nat /\ op.at + n <= Len(base)
    BY <1>3, SizeAssumption DEF Copies, Op, CopySize
  <2>2. Added(op, base) = SubSeq(base, op.at + 1, op.at + n)
    BY <1>3 DEF Added
  <2> HIDE DEF n
  <2>3. Len(base) \in Nat
    BY LenProperties
  <2>4. \A i \in op.at + 1 .. op.at + n : base[i] \in Item
    <3> SUFFICES ASSUME NEW i \in op.at + 1 .. op.at + n PROVE base[i] \in Item
      OBVIOUS
    <3>1. i \in 1 .. Len(base)
      BY <2>1, <2>3
    <3>2. QED
      BY <3>1, ElementOfSeq
  <2>5. op.at + 1 \in Int /\ op.at + n \in Int
    BY <2>1
  <2>6. SubSeq(base, op.at + 1, op.at + n) \in Seq(Item)
    BY <2>4, <2>5, SubSeqProperties
  <2>7. QED
    BY <2>2, <2>6
<1>4. QED
  BY <1>1, <1>2, <1>3

\* The target grows by what each instruction adds.
LEMMA BuiltFacts ==
  ASSUME NEW d \in Delta, NEW base \in Seq(Item)
  PROVE  /\ Built(d, base)[0] = << >>
         /\ \A i \in 1 .. Len(d.ops) :
              Built(d, base)[i] = Built(d, base)[i - 1] \o Added(d.ops[i], base)
         /\ \A i \in 0 .. Len(d.ops) : Built(d, base)[i] \in Seq(Item)
<1> DEFINE N == Len(d.ops)
           V == Seq(Item)
           Step(g, n) == IF n = 0 THEN << >> ELSE g[n - 1] \o Added(d.ops[n], base)
           Def(g) == [n \in 0 .. N |-> Step(g, n)]
           F == [g \in [0 .. N -> V] |-> Def(g)]
<1>1. N \in Nat /\ << >> \in V /\ \A i \in 1 .. N : Added(d.ops[i], base) \in V
  BY DeltaFacts, EmptySeq, AddedTyped
<1>2. ASSUME NEW g \in [0 .. N -> V], NEW n \in 0 .. N PROVE Step(g, n) \in V
  <2>1. CASE n = 0
    BY <1>1, <2>1
  <2>2. CASE n # 0
    <3>1. n - 1 \in 0 .. N /\ n \in 1 .. N
      BY <1>1, <2>2
    <3>2. g[n - 1] \in V /\ Added(d.ops[n], base) \in V
      BY <1>1, <3>1
    <3>3. QED
      BY <2>2, <3>2, ConcatProperties
  <2>3. QED
    BY <2>1, <2>2
<1>3. ASSUME NEW g, NEW h, NEW n \in 0 .. N, \A k \in 0 .. n - 1 : g[k] = h[k]
      PROVE  Step(g, n) = Step(h, n)
  <2>1. n # 0 => n - 1 \in 0 .. n - 1
    BY <1>1
  <2>2. QED
    BY <1>3, <2>1
<1> HIDE DEF V, Step
<1>4. \A g \in [0 .. N -> V], n \in 0 .. N : F[g][n] = Step(g, n)
  OBVIOUS
<1>5. \A g : (g \in [0 .. N -> V] /\ \A n \in 0 .. N : g[n] = Step(g, n)) => g = Def(g)
  OBVIOUS
<1> HIDE DEF F, N
<1>6. LooksBelow(F, N, V)
  BY <1>2, <1>3, <1>4 DEF LooksBelow
<1>7. PICK f : Solves(f, F, N, V)
  BY <1>1, <1>6, RecursionFromBelow
<1>8. f = Def(f)
  <2>1. f \in [0 .. N -> V] /\ \A n \in 0 .. N : f[n] = Step(f, n)
    BY <1>4, <1>7 DEF Solves
  <2> HIDE DEF Def
  <2>2. QED
    BY <1>5, <2>1
<1> DEFINE B == Built(d, base)
<1>9. B = CHOOSE g : g = Def(g)
  BY Zenon DEF Built, Step, N
<1> HIDE DEF B, Def
<1>10. B = Def(B)
  BY <1>8, <1>9, Zenon
<1>11. \A n \in 0 .. N : B[n] = Step(B, n)
  <2>1. B = [n \in 0 .. N |-> Step(B, n)]
    BY <1>10, Zenon DEF Def
  <2>2. QED
    BY <2>1
<1>12. B[0] = << >> /\ \A i \in 1 .. N : B[i] = B[i - 1] \o Added(d.ops[i], base)
  <2>1. B[0] = << >>
    BY <1>1, <1>11 DEF Step
  <2>2. ASSUME NEW i \in 1 .. N PROVE B[i] = B[i - 1] \o Added(d.ops[i], base)
    <3>1. i \in 0 .. N /\ i # 0
      BY <1>1
    <3>2. B[i] = Step(B, i)
      BY <1>11, <3>1
    <3>3. QED
      BY <3>1, <3>2, Zenon DEF Step
  <2>3. QED
    BY <2>1, <2>2
<1> DEFINE G == { n \in 0 .. N : B[n] \in V }
<1>13. \A n \in 0 .. N : n \in G
  <2>1. 0 .. N \in SUBSET Nat
    OBVIOUS
  <2>2. ASSUME NEW n \in 0 .. N, \A k \in 0 .. N : k < n => k \in G PROVE n \in G
    <3>1. CASE n = 0
      BY <1>1, <1>12, <3>1
    <3>2. CASE n # 0
      <4>1. n - 1 \in 0 .. N /\ n - 1 < n /\ n \in 1 .. N
        BY <1>1, <3>2
      <4>2. B[n - 1] \in V
        BY <2>2, <4>1
      <4>3. B[n - 1] \o Added(d.ops[n], base) \in V
        BY <1>1, <4>1, <4>2, ConcatProperties DEF V
      <4>4. QED
        BY <1>12, <4>1, <4>3
    <3>3. QED
      BY <3>1, <3>2
  <2> HIDE DEF G
  <2>3. QED
    BY <2>1, <2>2, InductionFromBelow
<1>14. QED
  BY <1>12, <1>13 DEF B, N, V

\* A target is an outcome.
LEMMA TargetTyped ==
  ASSUME NEW d \in Delta, NEW base \in Seq(Item)
  PROVE  Target(d, base) \in Outcome /\ Target(d, base) \in {Bad("corrupt"), Good(Built(d, base)[Len(d.ops)])}
<1>1. Len(d.ops) \in 0 .. Len(d.ops)
  BY DeltaFacts
<1>2. Built(d, base)[Len(d.ops)] \in Seq(Item)
  BY <1>1, BuiltFacts
<1>3. QED
  BY <1>2, OutcomeFacts DEF Target, Error

\* So is a delta on an outcome.
LEMMA OnTyped ==
  ASSUME NEW d \in Delta, NEW b \in Outcome
  PROVE  On(d, b) \in Outcome
<1>1. b.data \in Seq(Item)
  BY DEF Outcome
<1>2. QED
  BY <1>1, TargetTyped DEF On

\* The offsets of a name are within the limit.
LEMMA OffsetsTyped ==
  ASSUME TypeInv, NEW n
  PROVE  /\ OffsetsOf(in, n) \subseteq 0 .. MaxOffset
         /\ \A k \in DOMAIN in.names :
              /\ in.offsets[k] \in RawOffset
              /\ in.offsets[k].wide \in BOOLEAN /\ in.offsets[k].at \in 0 .. MaxOffset
<1>1. \A k \in DOMAIN in.names : k \in 1 .. Len(in.offsets) /\ in.offsets[k] \in RawOffset
  BY PackFacts, ElementOfSeq
<1>2. \A k \in DOMAIN in.names :
        in.offsets[k].wide \in BOOLEAN /\ in.offsets[k].at \in 0 .. MaxOffset
  BY <1>1 DEF RawOffset
<1>3. ASSUME NEW k \in DOMAIN in.names, in.offsets[k].wide, in.offsets[k].at < Len(in.wide),
             in.wide[in.offsets[k].at + 1] <= MaxOffset
      PROVE  in.wide[in.offsets[k].at + 1] \in 0 .. MaxOffset
  <2>1. in.offsets[k].at + 1 \in 1 .. Len(in.wide)
    <3>1. Len(in.wide) \in Nat
      BY PackFacts, LenProperties
    <3>2. QED
      BY <1>2, <1>3, <3>1, SizeAssumption
  <2>2. in.wide[in.offsets[k].at + 1] \in Nat
    BY <2>1, PackFacts, ElementOfSeq
  <2>3. QED
    BY <1>3, <2>2, SizeAssumption
<1>4. ASSUME NEW o \in OffsetsOf(in, n) PROVE o \in 0 .. MaxOffset
  <2>1. PICK k \in DOMAIN in.names :
          /\ o = IF in.offsets[k].wide THEN in.wide[in.offsets[k].at + 1] ELSE in.offsets[k].at
          /\ in.offsets[k].wide => /\ in.offsets[k].at < Len(in.wide)
                                   /\ in.wide[in.offsets[k].at + 1] <= MaxOffset
    BY DEF OffsetsOf
  <2>2. QED
    BY <1>2, <1>3, <2>1
<1>5. QED
  BY <1>1, <1>2, <1>4

\* What the index finds among outcomes is an outcome.
LEMMA FoundTyped ==
  ASSUME TypeInv, NEW n, NEW at \in [0 .. MaxOffset -> Outcome]
  PROVE  Found(in, n, at) \in Outcome
<1>1. ASSUME OffsetsOf(in, n) # {} PROVE at[CHOOSE o \in OffsetsOf(in, n) : TRUE] \in Outcome
  <2>1. (CHOOSE o \in OffsetsOf(in, n) : TRUE) \in OffsetsOf(in, n)
    BY <1>1
  <2>2. QED
    BY <2>1, OffsetsTyped
<1>2. QED
  BY <1>1, OutcomeFacts DEF Found, Error

\* The entries of the pack.
LEMMA EntryAt ==
  ASSUME TypeInv, NEW o \in DOMAIN in.entries
  PROVE  LET e == in.entries[o]
         IN  /\ e.kind \in {"damaged", "whole", "ofs", "ref"}
             /\ e.kind = "whole" => e.data \in Seq(Byte)
             /\ e.kind = "ofs" => e.back \in Nat
             /\ e.kind = "ref" => e.base \in Name
             /\ e.kind \in {"ofs", "ref"} => e.delta \in Delta
<1>1. in.entries[o] \in Entry
  BY PackFacts, ElementOfSeq
<1>2. QED
  BY <1>1 DEF Entry

\* Case by case.
LEMMA DecodeFacts ==
  ASSUME TypeInv, NEW M, NEW d \in Nat, NEW o \in 0 .. MaxOffset
  PROVE  /\ d > MaxDeltaDepth \/ o \notin DOMAIN in.entries => Decode(in, M, d, o) = Bad("corrupt")
         /\ d <= MaxDeltaDepth /\ o \in DOMAIN in.entries =>
              LET e == in.entries[o]
              IN  /\ e.kind = "damaged" => Decode(in, M, d, o) = Bad("corrupt")
                  /\ e.kind = "whole"   => Decode(in, M, d, o) = Good(e.data)
                  /\ e.kind = "ofs" /\ e.back \in 1 .. o =>
                       /\ o - e.back \in 0 .. MaxOffset
                       /\ Decode(in, M, d, o) = On(e.delta, M[d + 1][o - e.back])
                  /\ e.kind = "ofs" /\ e.back \notin 1 .. o => Decode(in, M, d, o) = Bad("corrupt")
                  /\ e.kind = "ref" => Decode(in, M, d, o) = On(e.delta, Found(in, e.base, M[d + 1]))
<1>1. MaxDeltaDepth \in Nat /\ MaxOffset \in Nat
  BY SizeAssumption
<1>2. CASE d > MaxDeltaDepth \/ o \notin DOMAIN in.entries
  BY <1>1, <1>2 DEF Decode
<1>3. CASE ~(d > MaxDeltaDepth \/ o \notin DOMAIN in.entries)
  <2> DEFINE e == in.entries[o]
             C == CASE e.kind = "damaged" -> Bad("corrupt")
                    [] e.kind = "whole"   -> Good(e.data)
                    [] e.kind = "ofs"     ->
                         IF e.back \in 1 .. o THEN On(e.delta, M[d + 1][o - e.back])
                                              ELSE Bad("corrupt")
                    [] e.kind = "ref"     -> On(e.delta, Found(in, e.base, M[d + 1]))
  <2>1. Decode(in, M, d, o) = C
    BY <1>3, Zenon DEF Decode
  <2>2. e.kind \in {"damaged", "whole", "ofs", "ref"}
    BY <1>3, EntryAt
  <2> HIDE DEF e
  <2>3. e.kind = "damaged" => C = Bad("corrupt")
    OBVIOUS
  <2>4. e.kind = "whole" => C = Good(e.data)
    OBVIOUS
  <2>5. e.kind = "ofs" /\ e.back \in 1 .. o =>
          o - e.back \in 0 .. MaxOffset /\ C = On(e.delta, M[d + 1][o - e.back])
    BY <1>1
  <2>6. e.kind = "ofs" /\ e.back \notin 1 .. o => C = Bad("corrupt")
    OBVIOUS
  <2>7. e.kind = "ref" => C = On(e.delta, Found(in, e.base, M[d + 1]))
    OBVIOUS
  <2> HIDE DEF C
  <2>8. QED
    BY <1>1, <1>3, <2>1, <2>3, <2>4, <2>5, <2>6, <2>7 DEF e
<1>4. QED
  BY <1>2, <1>3

\* What is decoded is an outcome if those of the next depth are.
LEMMA DecodeTyped ==
  ASSUME TypeInv, NEW M, NEW d \in Nat, NEW o \in 0 .. MaxOffset,
         d <= MaxDeltaDepth => M[d + 1] \in [0 .. MaxOffset -> Outcome]
  PROVE  Decode(in, M, d, o) \in Outcome
<1>1. Bad("corrupt") \in Outcome /\ MaxDeltaDepth \in Nat
  BY OutcomeFacts, SizeAssumption DEF Error
<1>2. CASE d > MaxDeltaDepth \/ o \notin DOMAIN in.entries
  BY <1>1, <1>2, DecodeFacts
<1>3. CASE ~(d > MaxDeltaDepth \/ o \notin DOMAIN in.entries)
  <2> DEFINE e == in.entries[o]
  <2>1. /\ e.kind \in {"damaged", "whole", "ofs", "ref"}
        /\ e.kind = "whole" => e.data \in Seq(Byte)
        /\ e.kind \in {"ofs", "ref"} => e.delta \in Delta
    BY <1>3, EntryAt
  <2>2. d <= MaxDeltaDepth /\ M[d + 1] \in [0 .. MaxOffset -> Outcome]
    BY <1>1, <1>3
  <2>3. CASE e.kind = "damaged" \/ (e.kind = "ofs" /\ e.back \notin 1 .. o)
    BY <1>1, <1>3, <2>2, <2>3, DecodeFacts
  <2>4. CASE e.kind = "whole"
    <3>1. Decode(in, M, d, o) = Good(e.data)
      BY <1>3, <2>2, <2>4, DecodeFacts
    <3>2. Good(e.data) \in Outcome
      BY <2>1, <2>4, OutcomeFacts
    <3>3. QED
      BY <3>1, <3>2
  <2>5. CASE e.kind = "ofs" /\ e.back \in 1 .. o
    <3>1. o - e.back \in 0 .. MaxOffset /\ Decode(in, M, d, o) = On(e.delta, M[d + 1][o - e.back])
      BY <1>3, <2>2, <2>5, DecodeFacts
    <3>2. QED
      BY <2>1, <2>2, <2>5, <3>1, OnTyped
  <2>6. CASE e.kind = "ref"
    <3>1. Decode(in, M, d, o) = On(e.delta, Found(in, e.base, M[d + 1]))
      BY <1>3, <2>2, <2>6, DecodeFacts
    <3>2. QED
      BY <2>1, <2>2, <2>6, <3>1, OnTyped, FoundTyped
  <2>7. QED
    BY <2>1, <2>3, <2>4, <2>5, <2>6
<1>4. QED
  BY <1>2, <1>3

\* Decoded satisfies the equation that defines it.
LEMMA DecodedFacts ==
  ASSUME TypeInv, NEW d \in 0 .. MaxDeltaDepth + 1
  PROVE  /\ Decoded(in)[d] \in [0 .. MaxOffset -> Outcome]
         /\ \A o \in 0 .. MaxOffset : Decoded(in)[d][o] = Decode(in, Decoded(in), d, o)
<1> DEFINE N == MaxDeltaDepth + 1
           V == [0 .. MaxOffset -> Outcome]
           Row(g, n) == [o \in 0 .. MaxOffset |-> Decode(in, g, n, o)]
           F == [g \in [0 .. N -> V] |-> [n \in 0 .. N |-> Row(g, n)]]
           Def(g) == [n \in 0 .. N |-> Row(g, n)]
<1>1. N \in Nat /\ MaxDeltaDepth \in Nat
  BY SizeAssumption
<1>2. V # {}
  <2>1. [o \in 0 .. MaxOffset |-> Bad("corrupt")] \in V
    BY OutcomeFacts DEF Error
  <2>2. QED
    BY <2>1
<1>3. ASSUME NEW g, NEW n \in 0 .. N, n < N => g[n + 1] \in V PROVE Row(g, n) \in V
  <2>1. n \in Nat /\ (n <= MaxDeltaDepth => n < N)
    BY <1>1
  <2>2. \A o \in 0 .. MaxOffset : Decode(in, g, n, o) \in Outcome
    BY <1>3, <2>1, DecodeTyped
  <2>3. QED
    BY <2>2
<1>4. ASSUME NEW g, NEW h, NEW n \in 0 .. N, \A k \in n + 1 .. N : g[k] = h[k]
      PROVE  Row(g, n) = Row(h, n)
  <2>1. n <= MaxDeltaDepth => g[n + 1] = h[n + 1]
    <3>1. n <= MaxDeltaDepth => n + 1 \in n + 1 .. N
      BY <1>1
    <3>2. QED
      BY <1>4, <3>1
  <2>2. n \in Nat
    BY <1>1
  <2>3. \A o \in 0 .. MaxOffset : Decode(in, g, n, o) = Decode(in, h, n, o)
    <3> SUFFICES ASSUME NEW o \in 0 .. MaxOffset PROVE Decode(in, g, n, o) = Decode(in, h, n, o)
      OBVIOUS
    <3>1. CASE n > MaxDeltaDepth
      BY <3>1 DEF Decode
    <3>2. CASE ~(n > MaxDeltaDepth)
      <4>1. g[n + 1] = h[n + 1] /\ n <= MaxDeltaDepth
        BY <1>1, <2>1, <2>2, <3>2
      <4>2. CASE o \notin DOMAIN in.entries
        BY <2>2, <4>2, DecodeFacts
      <4>3. CASE o \in DOMAIN in.entries
        <5> DEFINE e == in.entries[o]
        <5>1. e.kind \in {"damaged", "whole", "ofs", "ref"}
          BY <4>3, EntryAt
        <5>2. CASE e.kind \in {"damaged", "whole"}
          BY <2>2, <4>1, <4>3, <5>2, DecodeFacts
        <5>3. CASE e.kind = "ofs"
          BY <2>2, <4>1, <4>3, <5>3, DecodeFacts
        <5>4. CASE e.kind = "ref"
          BY <2>2, <4>1, <4>3, <5>4, DecodeFacts
        <5>5. QED
          BY <5>1, <5>2, <5>3, <5>4
      <4>4. QED
        BY <4>2, <4>3
    <3>3. QED
      BY <3>1, <3>2
  <2>4. QED
    BY <2>3
<1>5. \A g \in [0 .. N -> V], n \in 0 .. N : F[g][n] = Row(g, n)
  OBVIOUS
<1>6. \A g : (g \in [0 .. N -> V] /\ \A n \in 0 .. N : g[n] = Row(g, n)) => g = Def(g)
  OBVIOUS
<1>7. ASSUME NEW g \in [0 .. N -> V], NEW n \in 0 .. N PROVE n < N => g[n + 1] \in V
  BY <1>1
<1> HIDE DEF V, Row, F, N
<1>8. LooksAbove(F, N, V)
  BY <1>3, <1>4, <1>5, <1>7 DEF LooksAbove
<1>9. PICK f : Solves(f, F, N, V)
  BY <1>1, <1>2, <1>8, RecursionFromAbove
<1>10. f = Def(f)
  <2>1. f \in [0 .. N -> V] /\ \A n \in 0 .. N : f[n] = Row(f, n)
    BY <1>5, <1>9 DEF Solves
  <2> HIDE DEF Def
  <2>2. QED
    BY <1>6, <2>1
<1> DEFINE D == Decoded(in)
<1>11. D = CHOOSE g : g = Def(g)
  BY Zenon DEF Decoded, Row, N
<1> HIDE DEF D, Def
<1>12. D = Def(D)
  BY <1>10, <1>11, Zenon
<1>13. \A n \in 0 .. N : D[n] = Row(D, n)
  <2>1. D = [n \in 0 .. N |-> Row(D, n)]
    BY <1>12, Zenon DEF Def
  <2>2. QED
    BY <2>1
<1> DEFINE G == { n \in 0 .. N : D[n] \in V }
<1>14. ASSUME NEW n \in 0 .. N, \A k \in n + 1 .. N : k \in G PROVE n \in G
  <2>1. n < N => n + 1 \in n + 1 .. N
    BY <1>1
  <2>2. n < N => D[n + 1] \in V
    BY <1>14, <2>1
  <2>3. Row(D, n) \in V
    BY <1>3, <2>2
  <2>4. QED
    BY <1>13, <2>3
<1>15. \A n \in 0 .. N : n \in G
  <2> HIDE DEF G
  <2>1. QED
    BY <1>1, <1>14, InductionFromAbove
<1>16. d \in 0 .. N
  BY DEF N
<1>17. D[d] \in V /\ D[d] = Row(D, d)
  BY <1>13, <1>15, <1>16
<1>18. QED
  BY <1>17 DEF D, V, Row

-----------------------------------------------------------------------------
(* Reads.                                                                  *)

\* The bytes of an object, when m is what the buffers hold.
Data(o, m) == IF o.buf = NoBuffer THEN o.data ELSE SubSeq(m[o.buf], 1, o.len)

\* Nothing has been decoded for a frame.
Untouched(f) == f.op = 1 /\ f.len = 0

(***************************************************************************)
(* The instructions so far were legal and made what the array holds, as    *)
(* long as it fits.                                                        *)
(***************************************************************************)
OpsTold(d, f, base, m, c) ==
  /\ d.header /\ d.base = Len(base) /\ f.op <= Len(d.ops) + 1
  /\ \A i \in 1 .. f.op - 1 : d.ops[i].kind = "insert" \/ Copies(d.ops[i], base)
  /\ f.len = Len(Built(d, base)[f.op - 1])
  /\ d.target <= c[f.buf]
  /\ f.len <= c[f.buf] => SubSeq(m[f.buf], 1, f.len) = Built(d, base)[f.op - 1]

(***************************************************************************)
(* What a worker at label l still has to find out: its innermost frame f   *)
(* leads to the outcome say of the pack p.                                 *)
(***************************************************************************)
TopTold(p, l, f, m, c, say) ==
  LET d    == p.entries[f.off].delta
      base == Data(f.base, m)
      held == SubSeq(m[f.buf], 1, f.len)
  IN  /\ l \in {"search", "entry", "apply"} => Untouched(f)
      /\ l \in {"search", "entry"} => f.depth <= MaxDeltaDepth + 1
      /\ l = "search" => say = Found(p, f.name, Decoded(p)[f.depth])
      /\ l = "entry"  => f.off \in 0 .. MaxOffset /\ say = Decoded(p)[f.depth][f.off]
      /\ l \in {"apply", "ops"} => say = Target(d, base)
      /\ l = "ops" => OpsTold(d, f, base, m, c)
      /\ l = "putbase" => say = IF f.ok THEN Good(held) ELSE Bad("corrupt")
      /\ l = "discard" => say = Bad("corrupt")
      /\ l = "hand"    => say = Good(held)
      /\ l = "putown"  => say = Good(f.base.data)

(***************************************************************************)
(* What the frames s of a read stand for: the outermost for the object of  *)
(* the name, each for a delta on what the next one stands for, and an      *)
(* error of any for an error of the read.                                  *)
(***************************************************************************)
ChainTold(p, s, said) ==
  /\ said \in [1 .. Len(s) -> Outcome]
  /\ s[1].name \in p.wanted /\ said[1] = Found(p, s[1].name, Decoded(p)[0])
  /\ \A i \in 1 .. Len(s) - 1 : /\ Untouched(s[i])
                                /\ said[i] = On(p.entries[s[i].off].delta, said[i + 1])
  /\ \A i \in 1 .. Len(s) : said[i].err # "none" => said[i] = said[1]

\* A read that has returned.
ResultTold(p, r) ==
  r # NoResult => /\ r.name \in p.wanted
                  /\ Found(p, r.name, Decoded(p)[0]) = [err |-> r.err, data |-> r.obj.data]

\* A worker and what its frames stand for.
WorkerTold(p, l, s, m, c, r) ==
  IF l = "idle" THEN ResultTold(p, r)
  ELSE \E said : ChainTold(p, s, said) /\ TopTold(p, l, s[Len(s)], m, c, said[Len(s)])

ToldInv ==
  WellFormed => \A w \in Worker : WorkerTold(in, pc[w], stack[w], mem, cap, result[w])

-----------------------------------------------------------------------------
(* The index and what it finds.                                            *)

\* A sound index is accepted.
LEMMA SoundOpens == ASSUME TypeInv, WellFormed PROVE Opens
<1> DEFINE N == Len(in.names)
           UpTo(c) == { k \in DOMAIN in.names : in.names[k][1] <= c }
<1>1. /\ DOMAIN in.names = 1 .. N /\ N \in Nat /\ LastByte \in Nat
      /\ \A k \in 1 .. N : in.names[k][1] \in 0 .. LastByte
  <2>1. DOMAIN in.names = 1 .. N /\ N \in Nat /\ LastByte \in Nat
    BY PackFacts, SizeAssumption
  <2>2. \A k \in 1 .. N : in.names[k] \in Name
    BY PackFacts, ElementOfSeq
  <2>3. QED
    BY <2>1, <2>2 DEF Name
<1>2. \A c \in 0 .. LastByte : in.fanout[c] = Cardinality(UpTo(c))
  BY DEF WellFormed
<1> HIDE DEF N
<1>3. IsFiniteSet(1 .. N) /\ Cardinality(1 .. N) = N
  <2>1. (1 > N => N = 0) /\ N \in Int /\ 1 \in Int
    BY <1>1
  <2>2. IsFiniteSet(1 .. N) /\ Cardinality(1 .. N) = IF 1 > N THEN 0 ELSE N - 1 + 1
    BY <2>1, FS_Interval
  <2>3. QED
    BY <1>1, <2>1, <2>2
<1>4. \A c : UpTo(c) \subseteq 1 .. N
  BY <1>1
<1>5. \A c : IsFiniteSet(UpTo(c)) /\ Cardinality(UpTo(c)) <= N
  <2> HIDE DEF UpTo
  <2>1. QED
    BY <1>3, <1>4, FS_Subset
<1>6. ASSUME NEW b \in 1 .. LastByte PROVE in.fanout[b - 1] <= in.fanout[b]
  <2>1. b \in 0 .. LastByte /\ b - 1 \in 0 .. LastByte
    BY <1>1
  <2>2. UpTo(b - 1) \subseteq UpTo(b)
    BY <1>1
  <2> HIDE DEF UpTo
  <2>3. Cardinality(UpTo(b - 1)) <= Cardinality(UpTo(b))
    BY <1>5, <2>2, FS_Subset
  <2>4. QED
    BY <1>2, <2>1, <2>3
<1>7. Count <= N
  <2>1. LastByte \in 0 .. LastByte
    BY <1>1
  <2> HIDE DEF UpTo
  <2>2. QED
    BY <1>2, <1>5, <2>1 DEF Count
<1>8. QED
  BY <1>6, <1>7 DEF Opens, N

\* A name that is not in the index.
LEMMA NameAbsent ==
  ASSUME NEW n, NEW at, \A i \in DOMAIN in.names : in.names[i] # n
  PROVE  Found(in, n, at) = Bad("absent")
BY DEF Found

\* A name that a sound index has leads to one offset, or to none that fits.
LEMMA NamePresent ==
  ASSUME TypeInv, WellFormed, NEW at, NEW k \in DOMAIN in.names
  PROVE  LET raw == in.offsets[k]
             off == IF raw.wide THEN in.wide[raw.at + 1] ELSE raw.at
             ok  == raw.wide => raw.at < Len(in.wide) /\ in.wide[raw.at + 1] <= MaxOffset
         IN  /\ ok  => off \in 0 .. MaxOffset /\ Found(in, in.names[k], at) = at[off]
             /\ ~ok => Found(in, in.names[k], at) = Bad("invalid")
<1> DEFINE n   == in.names[k]
           raw == in.offsets[k]
           off == IF raw.wide THEN in.wide[raw.at + 1] ELSE raw.at
           ok  == raw.wide => raw.at < Len(in.wide) /\ in.wide[raw.at + 1] <= MaxOffset
<1>1. \A i \in DOMAIN in.names : in.names[i] = n => i = k
  <2>1. \A i \in DOMAIN in.names : in.names[i] \in Name /\ i \in Nat
    BY PackFacts, ElementOfSeq
  <2>2. \A i, j \in DOMAIN in.names : i < j => in.names[i] # in.names[j]
    BY <2>1, BeforeFacts DEF WellFormed
  <2>3. QED
    BY <2>1, <2>2
<1>2. OffsetsOf(in, n) = IF ok THEN {off} ELSE {}
  <2>1. { i \in DOMAIN in.names : in.names[i] = n
           /\ LET r == in.offsets[i] IN r.wide =>
                r.at < Len(in.wide) /\ in.wide[r.at + 1] <= MaxOffset } = IF ok THEN {k} ELSE {}
    BY <1>1
  <2>2. QED
    BY <2>1 DEF OffsetsOf
<1>3. n \in { in.names[i] : i \in DOMAIN in.names }
  OBVIOUS
<1> HIDE DEF n, off, ok
<1>4. CASE ok
  <2>1. OffsetsOf(in, n) = {off}
    BY <1>2, <1>4
  <2>2. (CHOOSE o \in {off} : TRUE) = off
    OBVIOUS
  <2>3. off \in 0 .. MaxOffset
    BY <2>1, OffsetsTyped
  <2>4. Found(in, n, at) = at[off]
    BY <1>3, <2>1, <2>2 DEF Found
  <2>5. QED
    BY <1>4, <2>3, <2>4 DEF n, off, ok
<1>5. CASE ~ok
  <2>1. OffsetsOf(in, n) = {}
    BY <1>2, <1>5
  <2>2. Found(in, n, at) = Bad("invalid")
    BY <1>3, <2>1 DEF Found
  <2>3. QED
    BY <1>5, <2>2 DEF n, off, ok
<1>6. QED
  BY <1>4, <1>5

-----------------------------------------------------------------------------
(* Chains.                                                                 *)

\* A delta on data, and on an error.
LEMMA OnFacts ==
  /\ \A d \in Delta : \A base \in Seq(Item) : On(d, Good(base)) = Target(d, base)
  /\ \A d, b : b.err # "none" => On(d, b) = b
BY DEF On, Good

\* The innermost frame changes, the chain stands for the same.
LEMMA ChainKept ==
  ASSUME TypeInv, NEW w \in Worker, pc[w] # "idle", NEW said, ChainTold(in, stack[w], said),
         NEW f \in FrameType, SetTop(w, f), f.name = Top(w).name
  PROVE  ChainTold(in, stack'[w], said)
<1>1. Level(w) \in Nat \ {0} /\ Top(w) = stack[w][Level(w)]
  BY TopFrame
<1>2. /\ Len(stack'[w]) = Len(stack[w]) /\ Len(stack[w]) = Level(w)
      /\ \A i \in 1 .. Len(stack[w]) - 1 : stack'[w][i] = stack[w][i]
      /\ stack'[w][Level(w)] = f
  BY SetTopEffect DEF Level
<1>3. stack'[w][1].name = stack[w][1].name
  <2>1. CASE Level(w) = 1
    BY <1>1, <1>2, <2>1
  <2>2. CASE Level(w) # 1
    <3>1. 1 \in 1 .. Len(stack[w]) - 1
      BY <1>1, <1>2, <2>2
    <3>2. QED
      BY <1>2, <3>1
  <2>3. QED
    BY <2>1, <2>2
<1>4. QED
  BY <1>2, <1>3 DEF ChainTold

\* A frame is put on a delta: it stands for the base.
LEMMA ChainPushed ==
  ASSUME TypeInv, NEW w \in Worker, pc[w] # "idle", NEW said, ChainTold(in, stack[w], said),
         NEW f \in FrameType, Push(w, f), NEW out \in Outcome, Untouched(Top(w)),
         said[Level(w)] = On(in.entries[Top(w).off].delta, out)
  PROVE  \E more : ChainTold(in, stack'[w], more) /\ more[Level(w) + 1] = out
<1> DEFINE L == Level(w)
           more == [i \in 1 .. L + 1 |-> IF i = L + 1 THEN out ELSE said[i]]
<1>1. L \in Nat \ {0} /\ Top(w) = stack[w][L] /\ Len(stack[w]) = L
  BY TopFrame DEF Level
<1>2. Len(stack'[w]) = L + 1 /\ \A i \in 1 .. L : stack'[w][i] = stack[w][i]
  BY PushEffect DEF Level
<1> HIDE DEF L
<1>3. /\ said \in [1 .. L -> Outcome] /\ stack[w][1].name \in in.wanted
      /\ said[1] = Found(in, stack[w][1].name, Decoded(in)[0])
      /\ \A i \in 1 .. L - 1 : /\ Untouched(stack[w][i])
                               /\ said[i] = On(in.entries[stack[w][i].off].delta, said[i + 1])
      /\ \A i \in 1 .. L : said[i].err # "none" => said[i] = said[1]
  BY <1>1 DEF ChainTold
<1>4. /\ more[L + 1] = out /\ \A i \in 1 .. L : more[i] = said[i]
      /\ more \in [1 .. L + 1 -> Outcome] /\ 1 \in 1 .. L /\ L \in 1 .. L
  BY <1>1, <1>3
<1> HIDE DEF more
<1>5. ASSUME NEW i \in 1 .. L
      PROVE  /\ Untouched(stack'[w][i])
             /\ more[i] = On(in.entries[stack'[w][i].off].delta, more[i + 1])
  <2>1. CASE i = L
    BY <1>1, <1>2, <1>4, <2>1 DEF L
  <2>2. CASE i # L
    <3>1. i \in 1 .. L - 1 /\ i + 1 \in 1 .. L
      BY <1>1, <2>2
    <3>2. QED
      BY <1>2, <1>3, <1>4, <3>1
  <2>3. QED
    BY <2>1, <2>2
<1>6. ASSUME NEW i \in 1 .. L + 1, more[i].err # "none" PROVE more[i] = more[1]
  <2>1. CASE i = L + 1
    <3>1. said[L] = out
      BY <1>4, <1>6, <2>1, OnFacts DEF L
    <3>2. QED
      BY <1>3, <1>4, <1>6, <2>1, <3>1
  <2>2. CASE i # L + 1
    <3>1. i \in 1 .. L
      BY <1>1, <2>2
    <3>2. QED
      BY <1>3, <1>4, <1>6, <3>1
  <2>3. QED
    BY <2>1, <2>2
<1>7. L + 1 - 1 = L /\ stack'[w][1] = stack[w][1] /\ more[1] = said[1]
  BY <1>1, <1>2, <1>4
<1>8. ChainTold(in, stack'[w], more)
  <2> DEFINE s == stack'[w]
  <2>1. Len(s) = L + 1 /\ Len(s) - 1 = L /\ s[1] = stack[w][1]
    BY <1>1, <1>2, <1>7
  <2>2. \A i \in 1 .. L : /\ Untouched(s[i])
                          /\ more[i] = On(in.entries[s[i].off].delta, more[i + 1])
    BY <1>5
  <2> HIDE DEF s
  <2>3. more \in [1 .. Len(s) -> Outcome]
    BY <1>4, <2>1
  <2>4. s[1].name \in in.wanted /\ more[1] = Found(in, s[1].name, Decoded(in)[0])
    BY <1>3, <1>7, <2>1
  <2>5. \A i \in 1 .. Len(s) - 1 : /\ Untouched(s[i])
                                  /\ more[i] = On(in.entries[s[i].off].delta, more[i + 1])
    BY <2>1, <2>2, Zenon
  <2>6. \A i \in 1 .. Len(s) : more[i].err # "none" => more[i] = more[1]
    BY <1>6, <2>1
  <2>7. ChainTold(in, s, more)
    BY <2>3, <2>4, <2>5, <2>6, Zenon DEF ChainTold
  <2>8. QED
    BY <2>7 DEF s
<1>9. QED
  BY <1>4, <1>8 DEF L

\* The innermost frame is done: the one below stands for what it stood for.
LEMMA ChainDropped ==
  ASSUME TypeInv, NEW w \in Worker, pc[w] # "idle", NEW said, ChainTold(in, stack[w], said),
         NEW o \in Object, Return(w, o), Level(w) # 1
  PROVE  /\ \E less : ChainTold(in, stack'[w], less) /\ less[Level(w) - 1] = said[Level(w) - 1]
         /\ Untouched(stack[w][Level(w) - 1])
         /\ said[Level(w) - 1] = On(in.entries[stack[w][Level(w) - 1].off].delta, said[Level(w)])
<1> DEFINE L == Level(w)
           less == [i \in 1 .. L - 1 |-> said[i]]
           s == stack'[w]
<1>1. L \in Nat \ {0} /\ L > 1 /\ Len(stack[w]) = L /\ L - 1 \in 1 .. L - 1
  <2>1. Level(w) \in Nat \ {0} /\ Len(stack[w]) = Level(w)
    BY TopFrame DEF Level
  <2>2. QED
    BY <2>1
<1>2. /\ Len(s) = L - 1 /\ \A i \in 1 .. L - 2 : s[i] = stack[w][i]
      /\ s[L - 1] = [stack[w][L - 1] EXCEPT !.base = o]
  BY ReturnEffect DEF Level
<1>3. stack[w][L - 1] \in FrameType
  <2>1. L - 1 \in 1 .. L
    BY <1>1
  <2>2. QED
    BY <2>1, TopFrame
<1> HIDE DEF L, s
<1>4. /\ said \in [1 .. L -> Outcome] /\ stack[w][1].name \in in.wanted
      /\ said[1] = Found(in, stack[w][1].name, Decoded(in)[0])
      /\ \A i \in 1 .. L - 1 : /\ Untouched(stack[w][i])
                               /\ said[i] = On(in.entries[stack[w][i].off].delta, said[i + 1])
      /\ \A i \in 1 .. L : said[i].err # "none" => said[i] = said[1]
  BY <1>1 DEF ChainTold
<1>5. /\ \A i \in 1 .. L - 1 : less[i] = said[i]
      /\ less \in [1 .. L - 1 -> Outcome] /\ 1 \in 1 .. L - 1
  BY <1>1, <1>4
<1> HIDE DEF less
<1>6. s[1].name = stack[w][1].name
  <2>1. CASE L = 2
    BY <1>2, <1>3, <2>1 DEF FrameType
  <2>2. CASE L # 2
    <3>1. 1 \in 1 .. L - 2
      BY <1>1, <2>2
    <3>2. QED
      BY <1>2, <3>1
  <2>3. QED
    BY <2>1, <2>2
<1>7. less \in [1 .. Len(s) -> Outcome]
  BY <1>2, <1>5
<1>8. s[1].name \in in.wanted /\ less[1] = Found(in, s[1].name, Decoded(in)[0])
  BY <1>4, <1>5, <1>6
<1>9. ASSUME NEW i \in 1 .. Len(s) - 1
      PROVE  /\ Untouched(s[i])
             /\ less[i] = On(in.entries[s[i].off].delta, less[i + 1])
  <2>1. i \in 1 .. L - 2 /\ i \in 1 .. L - 1 /\ i + 1 \in 1 .. L - 1
    BY <1>1, <1>2
  <2>2. QED
    BY <1>2, <1>4, <1>5, <2>1
<1>10. \A i \in 1 .. Len(s) : less[i].err # "none" => less[i] = less[1]
  <2>1. \A i \in 1 .. Len(s) : i \in 1 .. L /\ i \in 1 .. L - 1
    BY <1>1, <1>2
  <2>2. QED
    BY <1>4, <1>5, <2>1
<1>11. ChainTold(in, s, less)
  BY <1>7, <1>8, <1>9, <1>10, Zenon DEF ChainTold
<1>12. less[L - 1] = said[L - 1]
  BY <1>1, <1>5
<1>13. Untouched(stack[w][L - 1])
  BY <1>1, <1>4
<1>14. said[L - 1] = On(in.entries[stack[w][L - 1].off].delta, said[L])
  <2>1. L - 1 + 1 = L
    BY <1>1
  <2>2. QED
    BY <1>1, <1>4, <2>1
<1>15. QED
  BY <1>11, <1>12, <1>13, <1>14 DEF L, s

\* The innermost frame, for the steps that replace it: the chain stands for the same.
LEMMA TopKept ==
  ASSUME TypeInv, NEW w \in Worker, pc[w] # "idle", NEW said, ChainTold(in, stack[w], said),
         NEW f \in FrameType, SetTop(w, f), f.name = Top(w).name, NEW l, l # "idle",
         TopTold(in, l, f, mem', cap', said[Level(w)])
  PROVE  WorkerTold(in, l, stack'[w], mem', cap', result'[w])
<1>1. ChainTold(in, stack'[w], said)
  BY ChainKept
<1>2. Len(stack'[w]) = Level(w) /\ stack'[w][Level(w)] = f
  BY SetTopEffect DEF Level
<1>3. QED
  BY <1>1, <1>2 DEF WorkerTold

\* An error of the innermost frame is what the bytes say of the object.
LEMMA FailTold ==
  ASSUME TypeInv, NEW w \in Worker, pc[w] # "idle", NEW said, ChainTold(in, stack[w], said),
         NEW e \in Error \ {"none"}, Fail(w, e), said[Level(w)] = Bad(e)
  PROVE  WorkerTold(in, "idle", stack'[w], mem', cap', result'[w])
<1>1. /\ Level(w) \in 1 .. Len(stack[w]) /\ said[Level(w)].err = e /\ e # "none"
  BY TopFrame DEF Level, Bad
<1>2. said[1] = Bad(e)
  BY <1>1 DEF ChainTold
<1>3. result'[w] = [name |-> stack[w][1].name, err |-> e, obj |-> NoObject]
  BY FailEffect DEF TypeInv
<1>4. stack[w][1].name \in in.wanted /\ Found(in, stack[w][1].name, Decoded(in)[0]) = Bad(e)
  BY <1>2 DEF ChainTold
<1>5. ResultTold(in, result'[w])
  BY <1>3, <1>4 DEF ResultTold, Bad, NoObject
<1>6. QED
  BY <1>5 DEF WorkerTold

\* A frame that returns the bytes that it stands for gives the frame below
\* its base, or the caller the object.
LEMMA ReturnTold ==
  ASSUME TypeInv, NEW w \in Worker, pc[w] # "idle", NEW said, ChainTold(in, stack[w], said),
         NEW o \in Object, Return(w, o), Level(w) = 1 => o.buf = NoBuffer,
         Data(o, mem') \in Seq(Item), said[Level(w)] = Good(Data(o, mem')), in' = in
  PROVE  \E l \in {"idle", "apply"} :
           pc' = [pc EXCEPT ![w] = l] /\ WorkerTold(in, l, stack'[w], mem', cap', result'[w])
<1>1. CASE Level(w) = 1
  <2>1. /\ result'[w] = [name |-> Top(w).name, err |-> "none", obj |-> o]
        /\ pc' = [pc EXCEPT ![w] = "idle"]
    <3>1. /\ result' = [result EXCEPT ![w] = [name |-> Top(w).name, err |-> "none", obj |-> o]]
          /\ pc' = [pc EXCEPT ![w] = "idle"]
      BY <1>1, ReturnEffect
    <3>2. DOMAIN result = Worker
      BY DEF TypeInv
    <3>3. QED
      BY <3>1, <3>2
  <2>2. Top(w) = stack[w][1] /\ Data(o, mem') = o.data
    BY <1>1, TopFrame DEF Data
  <2>3. /\ stack[w][1].name \in in.wanted
        /\ Found(in, stack[w][1].name, Decoded(in)[0]) = Good(o.data)
    BY <1>1, <2>2 DEF ChainTold
  <2>4. ResultTold(in, result'[w])
    BY <2>1, <2>2, <2>3 DEF ResultTold, Good
  <2>5. QED
    BY <2>1, <2>4 DEF WorkerTold
<1>2. CASE Level(w) # 1
  <2> DEFINE g == stack[w][Level(w) - 1]
             f == [g EXCEPT !.base = o]
  <2>1. /\ Len(stack'[w]) = Level(w) - 1 /\ stack'[w][Level(w) - 1] = f
        /\ pc' = [pc EXCEPT ![w] = "apply"] /\ Level(w) - 1 \in 1 .. Level(w) - 1
        /\ Level(w) - 1 \in 1 .. Level(w)
    BY <1>2, ReturnEffect, TopFrame DEF Level
  <2>2. g \in FrameType /\ IsDelta(g)
    <3>1. g \in FrameType
      BY <2>1, TopFrame
    <3>2. IsDelta(g)
      BY <2>1 DEF TypeInv, WorkerType
    <3>3. QED
      BY <3>1, <3>2
  <2>3. f.base = o /\ f.off = g.off /\ f.op = g.op /\ f.len = g.len
    BY <2>2 DEF FrameType
  <2>4. PICK less : ChainTold(in, stack'[w], less) /\ less[Level(w) - 1] = said[Level(w) - 1]
    BY <1>2, ChainDropped
  <2>5. Untouched(g) /\ said[Level(w) - 1] = On(in.entries[g.off].delta, Good(Data(o, mem')))
    BY <1>2, ChainDropped
  <2>6. in.entries[g.off].delta \in Delta
    BY <2>2, EntryAt DEF IsDelta, EntryOf
  <2> HIDE DEF f, g
  <2>7. less[Level(w) - 1] = Target(in.entries[f.off].delta, Data(f.base, mem'))
    BY <2>3, <2>4, <2>5, <2>6, OnFacts
  <2>8. Untouched(f)
    BY <2>3, <2>5 DEF Untouched
  <2>9. TopTold(in, "apply", f, mem', cap', less[Level(w) - 1])
    BY <2>7, <2>8 DEF TopTold
  <2>10. QED
    BY <2>1, <2>4, <2>9 DEF WorkerTold
<1>3. QED
  BY <1>1, <1>2

-----------------------------------------------------------------------------
(* The other workers.                                                      *)

\* A frame sees no other arrays than those that it holds.
LEMMA SameArrays ==
  ASSUME TypeInv, NEW l, NEW f \in FrameType, Fits(l, f),
         NEW m, NEW n, NEW c, NEW k, NEW say,
         f.buf \in Buffer => n[f.buf] = m[f.buf] /\ k[f.buf] = c[f.buf],
         f.base.buf \in Buffer => n[f.base.buf] = m[f.base.buf],
         TopTold(in, l, f, m, c, say)
  PROVE  TopTold(in, l, f, n, k, say)
<1>1. Data(f.base, n) = Data(f.base, m)
  <2>1. f.base.buf = NoBuffer \/ f.base.buf \in Buffer
    BY DEF FrameType, Object
  <2>2. QED
    BY <2>1 DEF Data
<1>2. CASE l \in Applying \ {"apply"}
  <2>1. f.buf \in Buffer
    BY <1>2 DEF Fits
  <2>2. n[f.buf] = m[f.buf] /\ k[f.buf] = c[f.buf]
    BY <2>1
  <2>3. QED
    BY <1>1, <2>2 DEF TopTold, OpsTold
<1>3. CASE l \notin Applying \ {"apply"}
  BY <1>1, <1>3 DEF TopTold, Applying
<1>4. QED
  BY <1>2, <1>3

\* Another worker than w holds array b.
HeldElsewhere(w, b) ==
  \E u \in Worker \ {w} : \E i \in DOMAIN stack[u] :
    stack[u][i].buf = b \/ stack[u][i].base.buf = b

\* A step of one worker that leaves the arrays of the others alone and keeps
\* what it stands for itself keeps what all stand for.
LEMMA ToldStep ==
  ASSUME TypeInv, ToldInv, NEW w \in Worker, in' = in, NEW l \in Label,
         pc' = [pc EXCEPT ![w] = l],
         \A u \in Worker : u # w => stack'[u] = stack[u] /\ result'[u] = result[u],
         \A b \in Buffer : HeldElsewhere(w, b) => mem'[b] = mem[b] /\ cap'[b] = cap[b],
         WellFormed => WorkerTold(in, l, stack'[w], mem', cap', result'[w])
  PROVE  ToldInv'
<1> SUFFICES ASSUME WellFormed', NEW u \in Worker
             PROVE  WorkerTold(in', pc'[u], stack'[u], mem', cap', result'[u])
  BY DEF ToldInv
<1>1. WellFormed /\ pc \in [Worker -> Label]
  BY DEF WellFormed, TypeInv
<1>2. CASE u = w
  BY <1>1, <1>2
<1>3. CASE u # w
  <2>1. pc'[u] = pc[u] /\ stack'[u] = stack[u] /\ result'[u] = result[u]
    BY <1>1, <1>3
  <2>2. WorkerTold(in, pc[u], stack[u], mem, cap, result[u])
    BY <1>1 DEF ToldInv
  <2>3. CASE pc[u] = "idle"
    BY <2>1, <2>2, <2>3 DEF WorkerTold
  <2>4. CASE pc[u] # "idle"
    <3> DEFINE f == stack[u][Len(stack[u])]
    <3>1. PICK said : /\ ChainTold(in, stack[u], said)
                      /\ TopTold(in, pc[u], f, mem, cap, said[Len(stack[u])])
      BY <2>2, <2>4 DEF WorkerTold
    <3>2. f \in FrameType /\ Fits(pc[u], f) /\ Len(stack[u]) \in DOMAIN stack[u]
      BY <2>4, TopFrame, TopFits DEF Level
    <3>3. \A b \in Buffer : f.buf = b \/ f.base.buf = b => HeldElsewhere(w, b)
      BY <1>3, <3>2 DEF HeldElsewhere
    <3> HIDE DEF f
    <3>4. TopTold(in, pc[u], f, mem', cap', said[Len(stack[u])])
      BY <3>1, <3>2, <3>3, SameArrays
    <3>5. QED
      BY <2>1, <2>4, <3>1, <3>4 DEF WorkerTold, f
  <2>5. QED
    BY <2>3, <2>4
<1>4. QED
  BY <1>2, <1>3

\* A worker in a read stands for something.
LEMMA InRead ==
  ASSUME TypeInv, ToldInv, WellFormed, NEW w \in Worker, pc[w] # "idle"
  PROVE  \E said : /\ ChainTold(in, stack[w], said) /\ said[Level(w)] \in Outcome
                   /\ TopTold(in, pc[w], Top(w), mem, cap, said[Level(w)])
<1>1. PICK said : /\ ChainTold(in, stack[w], said)
                  /\ TopTold(in, pc[w], Top(w), mem, cap, said[Level(w)])
  BY DEF ToldInv, WorkerTold, Level, Top
<1>2. said \in [1 .. Level(w) -> Outcome] /\ Level(w) \in 1 .. Level(w)
  BY <1>1, TopFrame DEF ChainTold, Level
<1>3. QED
  BY <1>1, <1>2

-----------------------------------------------------------------------------
(* The steps.                                                              *)

\* A step that touches no array.
LEMMA ArraysKept ==
  ASSUME TypeInv, ToldInv, NEW w \in Worker, UNCHANGED << in, mem, cap >>, NEW l \in Label,
         pc' = [pc EXCEPT ![w] = l],
         \A u \in Worker : u # w => stack'[u] = stack[u] /\ result'[u] = result[u],
         WellFormed => WorkerTold(in, l, stack'[w], mem', cap', result'[w])
  PROVE  ToldInv'
BY ToldStep

\* A new frame has decoded nothing.
LEMMA NewUntouched ==
  ASSUME NEW off, NEW n, NEW d
  PROVE  Untouched(FrameAt(off, d)) /\ Untouched(FrameFor(n, d))
BY DEF Untouched, FrameAt, FrameFor

\* The start of a read.
LEMMA CallTold == ASSUME TypeInv, ToldInv, NEW w \in Worker, Call(w) PROVE ToldInv'
<1>1. PICK n \in in.wanted : stack' = [stack EXCEPT ![w] = << FrameFor(n, 0) >>]
  BY DEF Call
<1>2. /\ Opens /\ UNCHANGED << in, mem, cap >> /\ n \in Name /\ DOMAIN stack = Worker
      /\ pc' = [pc EXCEPT ![w] = "search"] /\ result' = [result EXCEPT ![w] = NoResult]
  BY PackFacts DEF Call, TypeInv, Goto, buffers
<1> DEFINE f   == FrameFor(n, 0)
           out == Found(in, n, Decoded(in)[0])
           said == [i \in 1 .. 1 |-> out]
<1>3. f.name = n /\ f.depth = 0 /\ Untouched(f)
  <2>1. FrameFor(n, 0).name = n /\ FrameFor(n, 0).depth = 0
    <3>1. 0 \in Nat
      OBVIOUS
    <3>2. QED
      BY <1>2, <3>1, NewFrameFor
  <2>2. Untouched(FrameFor(n, 0))
    BY NewUntouched, Zenon
  <2>3. QED
    BY <2>1, <2>2
<1>4. stack'[w] = << f >> /\ \A u \in Worker : u # w => stack'[u] = stack[u] /\ result'[u] = result[u]
  BY <1>1, <1>2
<1>5. out \in Outcome
  <2>1. 0 \in 0 .. MaxDeltaDepth + 1
    BY SizeAssumption
  <2>2. Decoded(in)[0] \in [0 .. MaxOffset -> Outcome]
    BY <2>1, DecodedFacts
  <2>3. QED
    BY <2>2, FoundTyped
<1>6. TopTold(in, "search", f, mem', cap', out)
  <2>1. f.depth <= MaxDeltaDepth + 1
    BY <1>3, SizeAssumption
  <2> HIDE DEF f
  <2>2. QED
    BY <1>3, <2>1 DEF TopTold
<1> HIDE DEF f
<1>7. ChainTold(in, << f >>, said)
  <2>1. Len(<< f >>) = 1 /\ << f >>[1] = f /\ said \in [1 .. 1 -> Outcome] /\ said[1] = out
    BY <1>5
  <2>2. QED
    BY <1>3, <2>1 DEF ChainTold
<1>8. WorkerTold(in, "search", << f >>, mem', cap', result'[w])
  <2>1. Len(<< f >>) = 1 /\ << f >>[1] = f /\ said[1] = out
    OBVIOUS
  <2> HIDE DEF said
  <2>2. QED
    BY <1>6, <1>7, <2>1 DEF WorkerTold
<1>9. QED
  BY <1>2, <1>4, <1>8, ArraysKept DEF Label

\* A pack that is sound is never left out.
LEMMA CallWithoutPackTold ==
  ASSUME TypeInv, ToldInv, NEW w \in Worker, CallWithoutPack(w) PROVE ToldInv'
<1>1. ~Opens /\ in' = in
  BY DEF CallWithoutPack
<1>2. ~WellFormed'
  BY <1>1, SoundOpens DEF WellFormed
<1>3. QED
  BY <1>2 DEF ToldInv

\* One step of the search: the name is the same.
LEMMA SearchStepTold ==
  ASSUME TypeInv, ToldInv, NEW w \in Worker, SearchStep(w) PROVE ToldInv'
<1>1. /\ pc[w] = "search" /\ UNCHANGED << in, mem, cap, result >>
      /\ pc' = [pc EXCEPT ![w] = "search"] /\ Top(w).low < Top(w).high
      /\ \/ SetTop(w, [Top(w) EXCEPT !.low = Mid(w) + 1])
         \/ SetTop(w, [Top(w) EXCEPT !.high = Mid(w)])
  BY DEF SearchStep, TypeInv, buffers
<1>2. Top(w) \in FrameType /\ Mid(w) \in Nat
  BY <1>1, TopFits, MidInTable
<1>3. PICK f \in FrameType : /\ SetTop(w, f) /\ f.name = Top(w).name /\ f.depth = Top(w).depth
                             /\ f.op = Top(w).op /\ f.len = Top(w).len
  <2> DEFINE a == [Top(w) EXCEPT !.low = Mid(w) + 1]
             b == [Top(w) EXCEPT !.high = Mid(w)]
  <2>1. \A f \in {a, b} : f \in FrameType /\ f.name = Top(w).name /\ f.depth = Top(w).depth
                                          /\ f.op = Top(w).op /\ f.len = Top(w).len
    BY <1>2 DEF FrameType
  <2>2. SetTop(w, a) \/ SetTop(w, b)
    BY <1>1
  <2> HIDE DEF a, b
  <2>3. QED
    BY <2>1, <2>2
<1>4. ASSUME WellFormed PROVE WorkerTold(in, "search", stack'[w], mem', cap', result'[w])
  <2>1. PICK said : /\ ChainTold(in, stack[w], said)
                    /\ TopTold(in, "search", Top(w), mem, cap, said[Level(w)])
    BY <1>1, <1>4, InRead
  <2>2. TopTold(in, "search", f, mem', cap', said[Level(w)])
    BY <1>3, <2>1 DEF TopTold, Untouched
  <2>3. QED
    BY <1>1, <1>3, <2>1, <2>2, TopKept
<1>5. \A u \in Worker : u # w => stack'[u] = stack[u] /\ result'[u] = result[u]
  BY <1>1, <1>3, SetTopEffect
<1>6. QED
  BY <1>1, <1>4, <1>5, ArraysKept DEF Label

\* What a search stands for.
LEMMA SearchStands ==
  ASSUME TypeInv, ToldInv, WellFormed, NEW w \in Worker, pc[w] = "search"
  PROVE  \E said : /\ ChainTold(in, stack[w], said) /\ Untouched(Top(w))
                   /\ Top(w).depth \in 0 .. MaxDeltaDepth + 1
                   /\ said[Level(w)] = Found(in, Top(w).name, Decoded(in)[Top(w).depth])
<1>1. PICK said : /\ ChainTold(in, stack[w], said)
                  /\ TopTold(in, "search", Top(w), mem, cap, said[Level(w)])
  BY InRead
<1>2. Top(w).depth \in Nat
  BY TopFits DEF FrameType
<1>3. Top(w).depth \in 0 .. MaxDeltaDepth + 1
  BY <1>1, <1>2, SizeAssumption DEF TopTold
<1>4. QED
  BY <1>1, <1>3 DEF TopTold

\* The name is found: so says the index.
LEMMA SearchHitTold ==
  ASSUME TypeInv, ToldInv, NEW w \in Worker, SearchHit(w) PROVE ToldInv'
<1> DEFINE k   == Mid(w) + 1
           raw == in.offsets[k]
           off == IF raw.wide THEN in.wide[raw.at + 1] ELSE raw.at
           ok  == raw.wide => raw.at < Len(in.wide) /\ in.wide[raw.at + 1] <= MaxOffset
           f   == [Top(w) EXCEPT !.off = off, !.low = 0, !.high = 0]
<1>1. /\ pc[w] = "search" /\ UNCHANGED << in, mem, cap >> /\ Top(w).low < Top(w).high
      /\ in.names[k] = Top(w).name
      /\ \/ ~ok /\ Fail(w, "invalid")
         \/ ok /\ SetTop(w, f) /\ pc' = [pc EXCEPT ![w] = "entry"] /\ result' = result
  BY Zenon DEF SearchHit, MidName, buffers, Goto
<1>2. k \in DOMAIN in.names /\ Top(w) \in FrameType
  BY <1>1, MidInTable, PackFacts, TopFits
<1> HIDE DEF k
<1>3. CASE ~ok /\ Fail(w, "invalid")
  <2>1. ASSUME WellFormed PROVE WorkerTold(in, "idle", stack'[w], mem', cap', result'[w])
    <3>1. PICK said : /\ ChainTold(in, stack[w], said)
                      /\ said[Level(w)] = Found(in, Top(w).name, Decoded(in)[Top(w).depth])
      BY <1>1, <2>1, SearchStands
    <3>2. Found(in, in.names[k], Decoded(in)[Top(w).depth]) = Bad("invalid")
      BY <1>2, <1>3, <2>1, NamePresent
    <3>3. "invalid" \in Error \ {"none"} /\ pc[w] # "idle"
      BY <1>1 DEF Error
    <3>4. QED
      BY <1>1, <1>3, <3>1, <3>2, <3>3, FailTold
  <2>2. /\ pc' = [pc EXCEPT ![w] = "idle"]
        /\ \A u \in Worker : u # w => stack'[u] = stack[u] /\ result'[u] = result[u]
    BY <1>3 DEF Fail, Goto, TypeInv
  <2>3. QED
    BY <1>1, <2>1, <2>2, ArraysKept DEF Label
<1>4. CASE ok /\ SetTop(w, f) /\ pc' = [pc EXCEPT ![w] = "entry"] /\ result' = result
  <2>1. off \in Nat
    <3>1. in.wide \in Seq(Nat) /\ Len(in.wide) \in Nat /\ \A i \in 1 .. Len(in.wide) : in.wide[i] \in Nat
      BY PackFacts, LenProperties, ElementOfSeq
    <3>2. raw.wide \in BOOLEAN /\ raw.at \in Nat
      BY <1>2, OffsetsTyped
    <3>3. QED
      BY <1>4, <3>1, <3>2
  <2>2. /\ f \in FrameType /\ f.name = Top(w).name /\ f.depth = Top(w).depth /\ f.off = off
        /\ f.op = Top(w).op /\ f.len = Top(w).len
    <3> HIDE DEF off
    <3>1. QED
      BY <1>2, <2>1 DEF FrameType
  <2>3. SetTop(w, f)
    BY <1>4
  <2>4. ASSUME WellFormed PROVE WorkerTold(in, "entry", stack'[w], mem', cap', result'[w])
    <3>1. PICK said : /\ ChainTold(in, stack[w], said) /\ Untouched(Top(w))
                      /\ Top(w).depth \in 0 .. MaxDeltaDepth + 1
                      /\ said[Level(w)] = Found(in, Top(w).name, Decoded(in)[Top(w).depth])
      BY <1>1, <2>4, SearchStands
    <3>2. /\ off \in 0 .. MaxOffset
          /\ Found(in, in.names[k], Decoded(in)[Top(w).depth]) = Decoded(in)[Top(w).depth][off]
      BY <1>2, <1>4, <2>4, NamePresent
    <3>3. said[Level(w)] = Decoded(in)[Top(w).depth][off] /\ Top(w).depth <= MaxDeltaDepth + 1
      BY <1>1, <3>1, <3>2
    <3> HIDE DEF f, off
    <3>4. TopTold(in, "entry", f, mem', cap', said[Level(w)])
      BY <2>2, <3>1, <3>2, <3>3 DEF TopTold, Untouched
    <3>5. QED
      BY <1>1, <2>2, <2>3, <3>1, <3>4, TopKept
  <2> HIDE DEF f
  <2>5. \A u \in Worker : u # w => stack'[u] = stack[u] /\ result'[u] = result[u]
    BY <1>1, <1>4, <2>2, <2>3, SetTopEffect
  <2>6. QED
    BY <1>1, <1>4, <2>4, <2>5, ArraysKept DEF Label
<1>5. QED
  BY <1>1, <1>3, <1>4

\* The name is not found: the index has not got it.
LEMMA SearchMissTold ==
  ASSUME TypeInv, ToldInv, SearchInv, NEW w \in Worker, SearchMiss(w) PROVE ToldInv'
<1>1. /\ pc[w] = "search" /\ UNCHANGED << in, mem, cap >> /\ Top(w).low >= Top(w).high
      /\ Fail(w, "absent")
  BY DEF SearchMiss, buffers
<1>2. Top(w).low \in Nat /\ Top(w).high \in Nat
  BY <1>1, TopFits DEF FrameType
<1>3. ASSUME WellFormed PROVE WorkerTold(in, "idle", stack'[w], mem', cap', result'[w])
  <2>1. PICK said : /\ ChainTold(in, stack[w], said)
                    /\ said[Level(w)] = Found(in, Top(w).name, Decoded(in)[Top(w).depth])
    BY <1>1, <1>3, SearchStands
  <2>2. \A i \in DOMAIN in.names : in.names[i] # Top(w).name
    BY <1>1, <1>2, <1>3 DEF SearchInv, Encloses
  <2>3. said[Level(w)] = Bad("absent")
    BY <2>1, <2>2, NameAbsent
  <2>4. "absent" \in Error \ {"none"} /\ pc[w] # "idle"
    BY <1>1 DEF Error
  <2>5. QED
    BY <1>1, <2>1, <2>3, <2>4, FailTold
<1>4. /\ pc' = [pc EXCEPT ![w] = "idle"]
      /\ \A u \in Worker : u # w => stack'[u] = stack[u] /\ result'[u] = result[u]
  BY <1>1 DEF Fail, Goto, TypeInv
<1>5. QED
  BY <1>1, <1>3, <1>4, ArraysKept DEF Label

\* What an entry stands for.
LEMMA EntryStands ==
  ASSUME TypeInv, ToldInv, WellFormed, NEW w \in Worker, pc[w] = "entry"
  PROVE  \E said : /\ ChainTold(in, stack[w], said) /\ Untouched(Top(w))
                   /\ Top(w).depth \in 0 .. MaxDeltaDepth + 1 /\ Top(w).off \in 0 .. MaxOffset
                   /\ said[Level(w)] = Decode(in, Decoded(in), Top(w).depth, Top(w).off)
<1>1. PICK said : /\ ChainTold(in, stack[w], said)
                  /\ TopTold(in, "entry", Top(w), mem, cap, said[Level(w)])
  BY InRead
<1>2. Top(w).depth \in Nat
  BY TopFits DEF FrameType
<1>3. /\ Top(w).depth \in 0 .. MaxDeltaDepth + 1 /\ Untouched(Top(w))
      /\ Top(w).off \in 0 .. MaxOffset
      /\ said[Level(w)] = Decoded(in)[Top(w).depth][Top(w).off]
  BY <1>1, <1>2, SizeAssumption DEF TopTold
<1>4. Decoded(in)[Top(w).depth][Top(w).off] = Decode(in, Decoded(in), Top(w).depth, Top(w).off)
  BY <1>3, DecodedFacts
<1>5. QED
  BY <1>1, <1>3, <1>4

\* A frame that is put on a delta stands for the base.
LEMMA PushTold ==
  ASSUME TypeInv, NEW w \in Worker, pc[w] # "idle", NEW said, ChainTold(in, stack[w], said),
         NEW f \in FrameType, Push(w, f), NEW out \in Outcome, Untouched(Top(w)),
         said[Level(w)] = On(in.entries[Top(w).off].delta, out),
         NEW l, l # "idle", TopTold(in, l, f, mem', cap', out)
  PROVE  WorkerTold(in, l, stack'[w], mem', cap', result'[w])
<1>1. PICK more : ChainTold(in, stack'[w], more) /\ more[Level(w) + 1] = out
  BY ChainPushed
<1>2. Len(stack'[w]) = Level(w) + 1 /\ stack'[w][Level(w) + 1] = f
  BY PushEffect DEF Level
<1>3. QED
  BY <1>1, <1>2 DEF WorkerTold

\* An entry says what the object is, or on what it rests.
LEMMA ReadEntryTold ==
  ASSUME TypeInv, ToldInv, NEW w \in Worker, ReadEntry(w) PROVE ToldInv'
<1> DEFINE f == Top(w)
           e == EntryOf(f)
           D == Decoded(in)
<1>1. /\ pc[w] = "entry" /\ UNCHANGED << in, mem, cap >> /\ f \in FrameType /\ pc[w] # "idle"
      /\ Opens
  BY ReadEntryEffect, TopFits DEF buffers
<1>2. e = in.entries[f.off] /\ MaxDeltaDepth \in Nat /\ f.depth \in Nat
  BY <1>1, SizeAssumption DEF EntryOf, FrameType
<1>3. ASSUME WellFormed
      PROVE  \E said : /\ ChainTold(in, stack[w], said) /\ Untouched(f)
                       /\ f.depth \in 0 .. MaxDeltaDepth + 1 /\ f.off \in 0 .. MaxOffset
                       /\ said[Level(w)] = Decode(in, D, f.depth, f.off)
  BY <1>1, <1>3, EntryStands
<1> HIDE DEF f, e, D
<1>4. CASE ~Usable(f) /\ Fail(w, "corrupt")
  <2>1. ASSUME WellFormed PROVE WorkerTold(in, "idle", stack'[w], mem', cap', result'[w])
    <3>1. PICK said : /\ ChainTold(in, stack[w], said) /\ f.off \in 0 .. MaxOffset
                      /\ said[Level(w)] = Decode(in, D, f.depth, f.off)
      BY <1>3, <2>1
    <3>2. Decode(in, D, f.depth, f.off) = Bad("corrupt")
      <4>1. \/ f.depth > MaxDeltaDepth \/ f.off \notin DOMAIN in.entries
            \/ /\ f.depth <= MaxDeltaDepth /\ f.off \in DOMAIN in.entries
               /\ \/ in.entries[f.off].kind = "damaged"
                  \/ in.entries[f.off].kind = "ofs" /\ in.entries[f.off].back \notin 1 .. f.off
        BY <1>2, <1>4 DEF Usable, EntryOf
      <4>2. QED
        BY <1>2, <3>1, <4>1, DecodeFacts
    <3>3. "corrupt" \in Error \ {"none"}
      BY DEF Error
    <3>4. said[Level(w)] = Bad("corrupt")
      BY <3>1, <3>2
    <3>5. QED
      BY <1>1, <1>4, <3>1, <3>3, <3>4, FailTold
  <2>2. /\ pc' = [pc EXCEPT ![w] = "idle"]
        /\ \A u \in Worker : u # w => stack'[u] = stack[u] /\ result'[u] = result[u]
    BY <1>4 DEF Fail, Goto, TypeInv
  <2>3. QED
    BY <1>1, <2>1, <2>2, ArraysKept DEF Label
<1>5. CASE /\ Usable(f) /\ e.kind = "whole" /\ e.data \in Seq(Byte)
           /\ Private(e.data) \in Object /\ Private(e.data).buf = NoBuffer
           /\ Return(w, Private(e.data))
  <2>1. \A u \in Worker : u # w => stack'[u] = stack[u] /\ result'[u] = result[u]
    BY <1>5 DEF Return, TypeInv
  <2>2. \E l \in {"idle", "apply"} :
          /\ pc' = [pc EXCEPT ![w] = l]
          /\ WellFormed => WorkerTold(in, l, stack'[w], mem', cap', result'[w])
    <3>1. CASE WellFormed
      <4>1. PICK said : /\ ChainTold(in, stack[w], said) /\ f.off \in 0 .. MaxOffset
                        /\ said[Level(w)] = Decode(in, D, f.depth, f.off)
        BY <1>3, <3>1
      <4>2. Decode(in, D, f.depth, f.off) = Good(e.data)
        <5>1. f.depth <= MaxDeltaDepth /\ f.off \in DOMAIN in.entries
          BY <1>5 DEF Usable
        <5>2. in.entries[f.off].kind = "whole" /\ in.entries[f.off].data = e.data
          BY <1>2, <1>5
        <5>3. Decode(in, D, f.depth, f.off) = Good(in.entries[f.off].data)
          <6>1. f.depth \in Nat /\ f.off \in 0 .. MaxOffset
            BY <1>2, <4>1
          <6>2. QED
            BY <5>1, <5>2, <6>1, DecodeFacts, Zenon
        <5>4. QED
          BY <5>2, <5>3
      <4>3. Data(Private(e.data), mem') = e.data /\ e.data \in Seq(Item)
        BY <1>5, OutcomeFacts DEF Data, Private
      <4>4. said[Level(w)] = Good(Data(Private(e.data), mem'))
        BY <4>1, <4>2, <4>3
      <4>5. QED
        BY <1>1, <1>5, <4>1, <4>3, <4>4, ReturnTold
    <3>2. CASE ~WellFormed
      <4>1. \E l \in {"idle", "apply"} : pc' = [pc EXCEPT ![w] = l]
        BY <1>5 DEF Return, Goto
      <4>2. QED
        BY <3>2, <4>1
    <3>3. QED
      BY <3>1, <3>2
  <2>3. QED
    BY <1>1, <2>1, <2>2, ArraysKept DEF Label
<1>6. CASE /\ Usable(f) /\ f.off \in DOMAIN in.entries /\ e.kind = "ofs" /\ e.back \in 1 .. f.off
           /\ f.off - e.back \in Nat
           /\ Push(w, FrameAt(f.off - e.back, f.depth + 1))
           /\ pc' = [pc EXCEPT ![w] = "entry"] /\ result' = result
  <2> DEFINE g   == FrameAt(f.off - e.back, f.depth + 1)
             out == D[f.depth + 1][f.off - e.back]
  <2>1. g \in FrameType /\ g.depth = f.depth + 1 /\ g.off = f.off - e.back
    <3>1. f.depth + 1 \in Nat
      BY <1>2
    <3>2. QED
      BY <1>6, <3>1, NewFrameAt
  <2>2. Untouched(g)
    BY NewUntouched
  <2> HIDE DEF g
  <2>3. Push(w, g)
    BY <1>6 DEF g
  <2>4. ASSUME WellFormed PROVE WorkerTold(in, "entry", stack'[w], mem', cap', result'[w])
    <3>1. PICK said : /\ ChainTold(in, stack[w], said) /\ Untouched(f) /\ f.off \in 0 .. MaxOffset
                      /\ said[Level(w)] = Decode(in, D, f.depth, f.off)
      BY <1>3, <2>4
    <3>2. f.off - e.back \in 0 .. MaxOffset /\ said[Level(w)] = On(e.delta, out)
      BY <1>2, <1>6, <3>1, DecodeFacts DEF Usable
    <3>3. f.depth + 1 \in 0 .. MaxDeltaDepth + 1 /\ f.depth + 1 <= MaxDeltaDepth + 1
      BY <1>2, <1>6 DEF Usable
    <3>4. out \in Outcome
      BY <3>2, <3>3, DecodedFacts DEF D
    <3>5. TopTold(in, "entry", g, mem', cap', out)
      BY <2>1, <2>2, <3>2, <3>3 DEF TopTold, D
    <3> HIDE DEF out
    <3>6. Untouched(Top(w)) /\ said[Level(w)] = On(in.entries[Top(w).off].delta, out)
      BY <1>2, <3>1, <3>2 DEF f
    <3>7. QED
      BY <1>1, <2>1, <2>3, <3>1, <3>4, <3>5, <3>6, PushTold
  <2>5. \A u \in Worker : u # w => stack'[u] = stack[u] /\ result'[u] = result[u]
    BY <1>1, <1>6, <2>1, <2>3, PushEffect
  <2>6. QED
    BY <1>1, <1>6, <2>4, <2>5, ArraysKept DEF Label
<1>7. CASE /\ Usable(f) /\ f.off \in DOMAIN in.entries /\ e.kind = "ref" /\ e.base \in Name
           /\ Push(w, FrameFor(e.base, f.depth + 1))
           /\ pc' = [pc EXCEPT ![w] = "search"] /\ result' = result
  <2> DEFINE g   == FrameFor(e.base, f.depth + 1)
             out == Found(in, e.base, D[f.depth + 1])
  <2>1. g \in FrameType /\ g.depth = f.depth + 1 /\ g.name = e.base
    <3>1. f.depth + 1 \in Nat
      BY <1>2
    <3>2. QED
      BY <1>1, <1>7, <3>1, NewFrameFor
  <2>2. Untouched(g)
    BY NewUntouched, Zenon
  <2> HIDE DEF g
  <2>3. Push(w, g)
    BY <1>7 DEF g
  <2>4. ASSUME WellFormed PROVE WorkerTold(in, "search", stack'[w], mem', cap', result'[w])
    <3>1. PICK said : /\ ChainTold(in, stack[w], said) /\ Untouched(f) /\ f.off \in 0 .. MaxOffset
                      /\ said[Level(w)] = Decode(in, D, f.depth, f.off)
      BY <1>3, <2>4
    <3>2. said[Level(w)] = On(e.delta, out)
      BY <1>2, <1>7, <3>1, DecodeFacts DEF Usable
    <3>3. f.depth + 1 \in 0 .. MaxDeltaDepth + 1 /\ f.depth + 1 <= MaxDeltaDepth + 1
      BY <1>2, <1>7 DEF Usable
    <3>4. out \in Outcome
      BY <3>3, DecodedFacts, FoundTyped DEF D
    <3>5. TopTold(in, "search", g, mem', cap', out)
      BY <2>1, <2>2, <3>3 DEF TopTold, D
    <3> HIDE DEF out
    <3>6. Untouched(Top(w)) /\ said[Level(w)] = On(in.entries[Top(w).off].delta, out)
      BY <1>2, <3>1, <3>2 DEF f
    <3>7. QED
      BY <1>1, <2>1, <2>3, <3>1, <3>4, <3>5, <3>6, PushTold
  <2>5. \A u \in Worker : u # w => stack'[u] = stack[u] /\ result'[u] = result[u]
    BY <1>1, <1>7, <2>1, <2>3, PushEffect
  <2>6. QED
    BY <1>1, <1>7, <2>4, <2>5, ArraysKept DEF Label
<1>8. QED
  BY <1>4, <1>5, <1>6, <1>7, ReadEntryEffect DEF f, e

\* What nobody holds is not held elsewhere.
LEMMA NotElsewhere ==
  ASSUME NEW w \in Worker, NEW b, Unheld(stack, b)
  PROVE  ~HeldElsewhere(w, b)
<1> SUFFICES ASSUME NEW u \in Worker, NEW i \in DOMAIN stack[u],
                    stack[u][i].buf = b \/ stack[u][i].base.buf = b
             PROVE  FALSE
  BY DEF HeldElsewhere
<1>1. /\ << u, i, "own" >> \in Slots(stack) /\ << u, i, "base" >> \in Slots(stack)
      /\ At(stack, << u, i, "own" >>) = stack[u][i].buf
      /\ At(stack, << u, i, "base" >>) = stack[u][i].base.buf
  BY SlotsOfFrame
<1>2. QED
  BY <1>1 DEF Unheld

\* The array that a frame decodes into is its own, and not that of its base.
LEMMA OwnAlone ==
  ASSUME TypeInv, OwnInv, NEW w \in Worker, pc[w] # "idle", Top(w).buf \in Buffer
  PROVE  ~HeldElsewhere(w, Top(w).buf) /\ Top(w).base.buf # Top(w).buf
<1> DEFINE h == << w, Level(w), "own" >>
<1>1. h \in Slots(stack) /\ At(stack, h) = Top(w).buf /\ h[1] = w
  BY TopSlots
<1>2. \A g \in Slots(stack) : At(stack, g) = Top(w).buf => g = h
  <2> HIDE DEF h
  <2>1. QED
    BY <1>1 DEF OwnInv, Apart
<1>3. Top(w).base.buf # Top(w).buf
  BY <1>2, TopSlots
<1>4. ASSUME NEW u \in Worker \ {w}, NEW i \in DOMAIN stack[u]
      PROVE  stack[u][i].buf # Top(w).buf /\ stack[u][i].base.buf # Top(w).buf
  <2>1. /\ << u, i, "own" >> \in Slots(stack) /\ << u, i, "base" >> \in Slots(stack)
        /\ At(stack, << u, i, "own" >>) = stack[u][i].buf
        /\ At(stack, << u, i, "base" >>) = stack[u][i].base.buf
    BY SlotsOfFrame
  <2>2. QED
    BY <1>2, <2>1
<1>5. QED
  BY <1>3, <1>4 DEF HeldElsewhere

\* The base of a delta and the delta.
LEMMA BaseFacts ==
  ASSUME TypeInv, NEW w \in Worker, pc[w] \in Applying
  PROVE  /\ Data(Top(w).base, mem) = BytesOf(Top(w).base)
         /\ Data(Top(w).base, mem) \in Seq(Item)
         /\ Len(Data(Top(w).base, mem)) = Top(w).base.len /\ Top(w).base.len \in Nat
         /\ in.entries[Top(w).off].delta = DeltaOf(w) /\ DeltaOf(w) \in Delta
         /\ Top(w).base.buf \in Buffer \cup {NoBuffer}
<1>1. Top(w).base \in Object /\ DeltaOf(w) \in Delta
  BY TopDelta
<1>2. Data(Top(w).base, mem) = BytesOf(Top(w).base)
  BY DEF Data, BytesOf
<1>3. QED
  BY <1>1, <1>2, BytesOfTyped, ObjectFacts DEF DeltaOf, EntryOf

\* The delta begins with an array that holds nothing yet.
LEMMA GetBufferTold ==
  ASSUME TypeInv, OwnInv, ToldInv, NEW w \in Worker, GetBuffer(w) PROVE ToldInv'
<1> DEFINE g    == Top(w)
           d    == DeltaOf(w)
           base == Data(g.base, mem)
<1>1. /\ pc[w] = "apply" /\ pc[w] # "idle" /\ pc[w] \in Applying /\ in' = in /\ result' = result
  BY GetBufferEffect DEF Applying
<1>2. PICK b \in Buffer, m \in [1 .. MaxCap -> Item], c \in 0 .. MaxCap :
        Prepare(w, b, m, c) /\ (pool[b] > 0 \/ b \in Fresh)
  BY GetBufferEffect
<1>3. PICK a \in [1 .. MaxCap -> Item], k \in 0 .. MaxCap :
        /\ mem' = [mem EXCEPT ![b] = a] /\ cap' = [cap EXCEPT ![b] = k]
        /\ Applies(w) => d.target <= k
  BY <1>1, <1>2, PrepareEffect
<1>4. PICK f \in FrameType :
        /\ SetTop(w, f) /\ f = [g EXCEPT !.buf = b, !.ok = Applies(w)]
        /\ f.depth = g.depth /\ f.off = g.off /\ f.buf = b
        /\ f.base = g.base /\ f.ok = Applies(w) /\ f.len = g.len
        /\ f.op = g.op /\ f.name = g.name
  BY <1>1, <1>2, PrepareEffect, Zenon
<1>5. pc' = [pc EXCEPT ![w] = IF Applies(w) THEN "ops" ELSE "putbase"]
  BY <1>1, <1>2, PrepareEffect
<1>6. Unheld(stack, b)
  BY <1>2, TakenUnheld
<1>7. /\ base \in Seq(Item) /\ Len(base) = g.base.len /\ in.entries[g.off].delta = d /\ d \in Delta
      /\ g.base.buf \in Buffer \cup {NoBuffer}
  BY <1>1, BaseFacts
<1>8. /\ mem \in [Buffer -> [1 .. MaxCap -> Item]] /\ cap \in [Buffer -> 0 .. MaxCap]
  BY DEF TypeInv
<1>9. g.base.buf # b
  BY <1>1, <1>6, TopSlots DEF Unheld
<1>10. Data(f.base, mem') = base
  BY <1>3, <1>4, <1>7, <1>8, <1>9 DEF Data
<1>11. mem'[b] = a /\ cap'[b] = k
  BY <1>3, <1>8
<1>12. \A x \in Buffer : HeldElsewhere(w, x) => mem'[x] = mem[x] /\ cap'[x] = cap[x]
  <2>1. ~HeldElsewhere(w, b)
    BY <1>6, NotElsewhere
  <2>2. QED
    BY <1>3, <1>8, <2>1
<1>13. \A u \in Worker : u # w => stack'[u] = stack[u] /\ result'[u] = result[u]
  BY <1>1, <1>4, SetTopEffect
<1> HIDE DEF g, d, base
<1>14. Applies(w) <=> d.header /\ d.base = Len(base)
  BY <1>7 DEF Applies, d, g
<1>15. ASSUME WellFormed
       PROVE  \E said : /\ ChainTold(in, stack[w], said) /\ Untouched(g)
                        /\ said[Level(w)] = Target(d, base)
  <2>1. PICK said : /\ ChainTold(in, stack[w], said)
                    /\ TopTold(in, "apply", g, mem, cap, said[Level(w)])
    BY <1>1, <1>15, InRead DEF g
  <2>2. Untouched(g) /\ said[Level(w)] = Target(d, base)
    BY <1>7, <2>1 DEF TopTold, base
  <2>3. QED
    BY <2>1, <2>2
<1>16. CASE Applies(w)
  <2>1. ASSUME WellFormed PROVE WorkerTold(in, "ops", stack'[w], mem', cap', result'[w])
    <3>1. PICK said : /\ ChainTold(in, stack[w], said) /\ Untouched(g)
                      /\ said[Level(w)] = Target(d, base)
      BY <1>15, <2>1
    <3>2. f.op = 1 /\ f.len = 0 /\ in.entries[f.off].delta = d
      BY <1>4, <1>7, <3>1 DEF Untouched
    <3>3. Built(d, base)[0] = << >> /\ Len(d.ops) \in Nat /\ Len(<< >>) = 0
      BY <1>7, BuiltFacts, DeltaFacts, EmptySeq
    <3>4. SubSeq(a, 1, 0) = << >>
      <4>1. 1 \in Int /\ 0 \in Int /\ 0 < 1
        OBVIOUS
      <4>2. QED
        BY <4>1, SubSeqEmpty
    <3>5. OpsTold(d, f, base, mem', cap')
      <4>1. d.header /\ d.base = Len(base) /\ d.target <= cap'[f.buf]
        BY <1>3, <1>4, <1>11, <1>14, <1>16
      <4>2. f.op - 1 = 0 /\ f.op <= Len(d.ops) + 1
        BY <3>2, <3>3
      <4>3. SubSeq(mem'[f.buf], 1, f.len) = << >>
        BY <1>4, <1>11, <3>2, <3>4
      <4>4. \A i \in 1 .. f.op - 1 : FALSE
        BY <4>2
      <4>5. f.len = Len(Built(d, base)[f.op - 1]) /\ Built(d, base)[f.op - 1] = << >>
        BY <3>2, <3>3, <4>2
      <4>6. QED
        BY <4>1, <4>2, <4>3, <4>4, <4>5, Zenon DEF OpsTold
    <3>6. TopTold(in, "ops", f, mem', cap', said[Level(w)])
      BY <1>10, <3>1, <3>2, <3>5 DEF TopTold
    <3>7. QED
      BY <1>1, <1>4, <3>1, <3>6, TopKept DEF g
  <2>2. pc' = [pc EXCEPT ![w] = "ops"]
    BY <1>5, <1>16
  <2>3. QED
    BY <1>1, <1>12, <1>13, <2>1, <2>2, ToldStep DEF Label
<1>17. CASE ~Applies(w)
  <2>1. ASSUME WellFormed PROVE WorkerTold(in, "putbase", stack'[w], mem', cap', result'[w])
    <3>1. PICK said : /\ ChainTold(in, stack[w], said) /\ Untouched(g)
                      /\ said[Level(w)] = Target(d, base)
      BY <1>15, <2>1
    <3>2. said[Level(w)] = Bad("corrupt")
      BY <1>14, <1>17, <3>1 DEF Target, IsSound
    <3>3. ~f.ok
      BY <1>4, <1>17
    <3>4. TopTold(in, "putbase", f, mem', cap', said[Level(w)])
      BY <3>2, <3>3 DEF TopTold
    <3>5. QED
      BY <1>1, <1>4, <3>1, <3>4, TopKept DEF g
  <2>2. pc' = [pc EXCEPT ![w] = "putbase"]
    BY <1>5, <1>17
  <2>3. QED
    BY <1>1, <1>12, <1>13, <2>1, <2>2, ToldStep DEF Label
<1>18. QED
  BY <1>16, <1>17

\* What an append within the capacity makes of an array.
LEMMA WriteEffect ==
  ASSUME TypeInv, NEW b \in Buffer, NEW from \in Nat, NEW d \in Seq(Item), Write(b, from, d),
         NEW y \in Seq(Item), Len(y) = from
  PROVE  /\ \A x \in Buffer : x # b => mem'[x] = mem[x]
         /\ (from <= cap[b] => SubSeq(mem[b], 1, from) = y) /\ from + Len(d) <= cap[b] =>
              SubSeq(mem'[b], 1, from + Len(d)) = y \o d
<1>1. mem \in [Buffer -> [1 .. MaxCap -> Item]] /\ cap[b] \in 0 .. MaxCap /\ MaxCap \in Nat
  BY SizeAssumption DEF TypeInv
<1>2. Len(d) \in Nat
  BY LenProperties
<1> DEFINE n == from + Len(d)
           a == [i \in DOMAIN mem[b] |-> IF i \in from + 1 .. n THEN d[i - from] ELSE mem[b][i]]
<1>3. mem' = [mem EXCEPT ![b] = IF n > cap[b] THEN @ ELSE a]
  BY DEF Write
<1>4. \A x \in Buffer : x # b => mem'[x] = mem[x]
  BY <1>1, <1>3
<1>5. ASSUME SubSeq(mem[b], 1, from) = y, n <= cap[b]
      PROVE  SubSeq(mem'[b], 1, n) = y \o d
  <2>1. n \in Nat /\ from \in 0 .. MaxCap /\ n <= MaxCap /\ ~(n > cap[b])
    BY <1>1, <1>2, <1>5
  <2>2. mem'[b] = a
    BY <1>1, <1>3, <2>1
  <2>3. mem'[b] \in [1 .. MaxCap -> Item]
    BY WriteTyped
  <2>4. \A i \in 1 .. n : mem'[b][i] \in Item
    BY <1>1, <2>1, <2>3
  <2>5. \A i \in 1 .. n : mem'[b][i] = IF i <= from THEN mem[b][i] ELSE d[i - from]
    <3>1. DOMAIN mem[b] = 1 .. MaxCap
      BY <1>1
    <3>2. \A i \in 1 .. n : i \in 1 .. MaxCap /\ (i \in from + 1 .. n <=> ~(i <= from))
      BY <1>1, <2>1
    <3> HIDE DEF n
    <3>3. QED
      BY <2>2, <3>1, <3>2
  <2>6. \A i \in 1 .. from : y[i] = mem[b][i]
    <3>1. \A i \in 1 .. from : mem[b][i] \in Item
      BY <1>1, <2>1
    <3>2. 1 \in Int /\ from \in Int
      BY <2>1
    <3>3. \A i \in 1 .. from - 1 + 1 : SubSeq(mem[b], 1, from)[i] = mem[b][1 + i - 1]
      BY <3>1, <3>2, SubSeqProperties
    <3>4. from - 1 + 1 = from /\ \A i \in 1 .. from : 1 + i - 1 = i
      BY <2>1
    <3>5. QED
      BY <1>5, <3>3, <3>4
  <2> DEFINE s == SubSeq(mem'[b], 1, n)
             t == y \o d
  <2> HIDE DEF a
  <2>7. s \in Seq(Item) /\ Len(s) = n /\ \A i \in 1 .. n : s[i] = mem'[b][i]
    <3>1. 1 \in Int /\ n \in Int /\ n - 1 + 1 = n /\ (1 <= n \/ n = 0)
      BY <2>1
    <3> HIDE DEF n
    <3>2. /\ SubSeq(mem'[b], 1, n) \in Seq(Item)
          /\ Len(SubSeq(mem'[b], 1, n)) = IF 1 <= n THEN n - 1 + 1 ELSE 0
          /\ \A i \in 1 .. n - 1 + 1 : SubSeq(mem'[b], 1, n)[i] = mem'[b][1 + i - 1]
      BY <2>4, <3>1, SubSeqProperties
    <3>3. \A i \in 1 .. n : 1 + i - 1 = i
      BY <3>1
    <3>4. QED
      BY <3>1, <3>2, <3>3
  <2>8. t \in Seq(Item) /\ Len(t) = n
        /\ \A i \in 1 .. n : t[i] = IF i <= from THEN y[i] ELSE d[i - from]
    BY ConcatProperties
  <2> HIDE DEF s, t, n
  <2>9. \A i \in 1 .. n : s[i] = t[i]
    <3>1. \A i \in 1 .. n : i <= from => i \in 1 .. from
      BY <2>1
    <3>2. QED
      BY <2>5, <2>6, <2>7, <2>8, <3>1
  <2>10. s = t
    BY <2>7, <2>8, <2>9, SeqEqual
  <2>11. QED
    BY <2>10 DEF s, t, n
<1>6. n <= cap[b] => from <= cap[b]
  BY <1>1, <1>2
<1>7. QED
  BY <1>4, <1>5, <1>6

\* An instruction is legal if it may add something to the base, and then it adds that.
LEMMA PieceAdded ==
  ASSUME TypeInv, NEW w \in Worker, pc[w] = "ops", Top(w).op <= Len(DeltaOf(w).ops)
  PROVE  LET op   == DeltaOf(w).ops[Top(w).op]
             base == Data(Top(w).base, mem)
         IN  /\ Legal(w, op) <=> op.kind = "insert" \/ Copies(op, base)
             /\ Legal(w, op) => Piece(w, op) = Added(op, base) /\ Piece(w, op) \in Seq(Item)
<1> DEFINE op   == DeltaOf(w).ops[Top(w).op]
           base == Data(Top(w).base, mem)
<1>1. /\ op.kind \in {"copy", "insert", "zero"} /\ (Legal(w, op) => Piece(w, op) \in Seq(Item))
  BY PieceFacts
<1>2. base = BytesOf(Top(w).base) /\ Len(base) = Top(w).base.len
  BY BaseFacts DEF Applying
<1> HIDE DEF op, base
<1>3. CASE op.kind = "insert"
  <2>1. Legal(w, op) /\ Piece(w, op) = op.data /\ Added(op, base) = op.data
    BY <1>3 DEF Legal, Piece, Added
  <2>2. QED
    BY <1>1, <1>3, <2>1 DEF op, base
<1>4. CASE op.kind = "copy"
  <2>1. Legal(w, op) <=> Copies(op, base)
    BY <1>2, <1>4 DEF Legal, Copies
  <2>2. Copies(op, base) => Piece(w, op) = Added(op, base)
    BY <1>2, <1>4 DEF Piece, Added
  <2>3. QED
    BY <1>1, <1>4, <2>1, <2>2 DEF op, base
<1>5. CASE op.kind = "zero"
  <2>1. ~Legal(w, op) /\ ~Copies(op, base)
    BY <1>5 DEF Legal, Copies
  <2>2. QED
    BY <1>5, <2>1 DEF op, base
<1>6. QED
  BY <1>1, <1>3, <1>4, <1>5

\* What a delta under way stands for, and what it has made so far.
LEMMA OpsStand ==
  ASSUME TypeInv, ToldInv, WellFormed, NEW w \in Worker, pc[w] = "ops"
  PROVE  \E said : /\ ChainTold(in, stack[w], said)
                   /\ said[Level(w)] = Target(DeltaOf(w), Data(Top(w).base, mem))
                   /\ OpsTold(DeltaOf(w), Top(w), Data(Top(w).base, mem), mem, cap)
<1>1. PICK said : /\ ChainTold(in, stack[w], said)
                  /\ TopTold(in, "ops", Top(w), mem, cap, said[Level(w)])
  BY InRead
<1>2. in.entries[Top(w).off].delta = DeltaOf(w)
  BY BaseFacts DEF Applying
<1>3. QED
  BY <1>1, <1>2 DEF TopTold

\* The instructions so far made what the array holds; one more does.
LEMMA OpDone ==
  ASSUME TypeInv, OwnInv, NEW w \in Worker, pc[w] = "ops",
         NEW d, d = DeltaOf(w), NEW base, base = Data(Top(w).base, mem),
         OpsTold(d, Top(w), base, mem, cap),
         Top(w).op <= Len(d.ops), Legal(w, d.ops[Top(w).op]),
         Write(Top(w).buf, Top(w).len, Piece(w, d.ops[Top(w).op])), cap' = cap,
         NEW f, f.buf = Top(w).buf, f.op = Top(w).op + 1,
         f.len = Top(w).len + Len(Piece(w, d.ops[Top(w).op]))
  PROVE  OpsTold(d, f, base, mem', cap')
<1> DEFINE g  == Top(w)
           op == d.ops[g.op]
           B  == Built(d, base)
<1>1. d \in Delta /\ base \in Seq(Item) /\ g.buf \in Buffer /\ g.op \in Nat \ {0} /\ g.len \in Nat
  BY BaseFacts, TopDelta DEF Applying
<1>2. /\ d.header /\ d.base = Len(base) /\ g.op <= Len(d.ops) + 1
      /\ \A i \in 1 .. g.op - 1 : d.ops[i].kind = "insert" \/ Copies(d.ops[i], base)
      /\ g.len = Len(B[g.op - 1]) /\ d.target <= cap[g.buf]
      /\ g.len <= cap[g.buf] => SubSeq(mem[g.buf], 1, g.len) = B[g.op - 1]
  BY DEF OpsTold
<1>3. /\ op.kind = "insert" \/ Copies(op, base)
      /\ Piece(w, op) = Added(op, base) /\ Piece(w, op) \in Seq(Item)
  BY PieceAdded
<1>4. Len(d.ops) \in Nat
  BY <1>1, DeltaFacts
<1>5. B[g.op] = B[g.op - 1] \o Piece(w, op) /\ B[g.op - 1] \in Seq(Item)
  <2>1. g.op \in 1 .. Len(d.ops) /\ g.op - 1 \in 0 .. Len(d.ops)
    BY <1>1, <1>4
  <2>2. B[g.op] = B[g.op - 1] \o Added(op, base) /\ B[g.op - 1] \in Seq(Item)
    BY <1>1, <2>1, BuiltFacts
  <2>3. QED
    BY <1>3, <2>2
<1> DEFINE x == Piece(w, op)
           y == B[g.op - 1]
<1>6. f.buf = g.buf /\ f.op = g.op + 1 /\ f.len = g.len + Len(x) /\ Write(g.buf, g.len, x)
  OBVIOUS
<1> HIDE DEF g, op, B, x, y
<1>7. f.len = Len(B[g.op])
  <2>1. Len(y \o x) = Len(y) + Len(x)
    BY <1>3, <1>5, ConcatProperties DEF x, y
  <2>2. QED
    BY <1>2, <1>5, <1>6, <2>1 DEF x, y
<1>8. f.len <= cap'[f.buf] => SubSeq(mem'[f.buf], 1, f.len) = B[g.op]
  <2>1. x \in Seq(Item) /\ y \in Seq(Item) /\ Len(y) = g.len /\ B[g.op] = y \o x
    BY <1>2, <1>3, <1>5 DEF x, y
  <2>2. (g.len <= cap[g.buf] => SubSeq(mem[g.buf], 1, g.len) = y) /\ g.len + Len(x) <= cap[g.buf] =>
           SubSeq(mem'[g.buf], 1, g.len + Len(x)) = y \o x
    BY <1>1, <1>6, <2>1, WriteEffect
  <2>3. QED
    BY <1>2, <1>6, <2>1, <2>2 DEF y
<1>9. \A i \in 1 .. f.op - 1 : d.ops[i].kind = "insert" \/ Copies(d.ops[i], base)
  <2>1. \A i \in 1 .. f.op - 1 : i \in 1 .. g.op - 1 \/ i = g.op
    BY <1>1, <1>6
  <2>2. QED
    BY <1>2, <1>3, <2>1 DEF op
<1>10. f.op - 1 = g.op /\ f.op <= Len(d.ops) + 1
  <2>1. g.op <= Len(d.ops)
    BY DEF g
  <2>2. QED
    BY <1>1, <1>4, <1>6, <2>1
<1>11. d.target <= cap'[f.buf]
  BY <1>2, <1>6
<1>12. QED
  BY <1>2, <1>7, <1>8, <1>9, <1>10, <1>11 DEF OpsTold, B

\* One instruction: the target grows, or cannot be made.
LEMMA RunOpTold ==
  ASSUME TypeInv, OwnInv, ToldInv, NEW w \in Worker, RunOp(w) PROVE ToldInv'
<1> DEFINE g    == Top(w)
           d    == DeltaOf(w)
           op   == d.ops[g.op]
           base == Data(g.base, mem)
<1>1. /\ pc[w] = "ops" /\ pc[w] # "idle" /\ UNCHANGED << in, pool, cap, result >>
      /\ g.op <= Len(d.ops) /\ pc[w] \in Applying
  BY RunOpEffect DEF Applying
<1>2. PICK f \in FrameType :
        /\ SetTop(w, f) /\ f.off = g.off /\ f.buf = g.buf /\ f.base = g.base /\ f.name = g.name
        /\ \/ /\ Legal(w, op) = TRUE /\ Write(g.buf, g.len, Piece(w, op))
              /\ f.op = g.op + 1 /\ f.len = g.len + Len(Piece(w, op))
              /\ f.ok = g.ok /\ pc' = [pc EXCEPT ![w] = "ops"]
           \/ /\ Legal(w, op) = FALSE /\ f.ok = FALSE /\ mem' = mem
              /\ pc' = [pc EXCEPT ![w] = "putbase"]
  BY RunOpEffect
<1>3. /\ base \in Seq(Item) /\ d \in Delta /\ in.entries[g.off].delta = d
      /\ g.base.buf \in Buffer \cup {NoBuffer} /\ g.buf \in Buffer /\ g.len \in Nat
      /\ g.op \in Nat \ {0}
  BY <1>1, BaseFacts, TopDelta
<1>4. ~HeldElsewhere(w, g.buf) /\ g.base.buf # g.buf
  BY <1>1, <1>3, OwnAlone
<1>5. \A u \in Worker : u # w => stack'[u] = stack[u] /\ result'[u] = result[u]
  BY <1>1, <1>2, SetTopEffect
<1>6. CASE /\ Legal(w, op) /\ Write(g.buf, g.len, Piece(w, op))
           /\ f.op = g.op + 1 /\ f.len = g.len + Len(Piece(w, op))
           /\ pc' = [pc EXCEPT ![w] = "ops"]
  <2>1. \A x \in Buffer : x # g.buf => mem'[x] = mem[x]
    <3>1. mem \in [Buffer -> [1 .. MaxCap -> Item]]
      BY DEF TypeInv
    <3>2. QED
      BY <1>6, <3>1 DEF Write
  <2>2. Data(f.base, mem') = base
    BY <1>2, <1>3, <1>4, <2>1 DEF Data
  <2>3. ASSUME WellFormed PROVE WorkerTold(in, "ops", stack'[w], mem', cap', result'[w])
    <3>1. PICK said : /\ ChainTold(in, stack[w], said) /\ said[Level(w)] = Target(d, base)
                      /\ OpsTold(d, g, base, mem, cap)
      BY <1>1, <2>3, OpsStand
    <3>2. OpsTold(d, f, base, mem', cap')
      BY <1>1, <1>2, <1>6, <3>1, OpDone
    <3> HIDE DEF g, d, base
    <3>3. in.entries[f.off].delta = d
      BY <1>2, <1>3
    <3>4. TopTold(in, "ops", f, mem', cap', said[Level(w)])
      BY <2>2, <3>1, <3>2, <3>3 DEF TopTold
    <3>5. f.name = Top(w).name
      BY <1>2 DEF g
    <3>6. QED
      BY <1>1, <1>2, <3>1, <3>4, <3>5, TopKept
  <2>4. \A x \in Buffer : HeldElsewhere(w, x) => mem'[x] = mem[x] /\ cap'[x] = cap[x]
    BY <1>1, <1>4, <2>1
  <2>5. QED
    BY <1>1, <1>5, <1>6, <2>3, <2>4, ToldStep DEF Label
<1>7. CASE ~Legal(w, op) /\ f.ok = FALSE /\ mem' = mem /\ pc' = [pc EXCEPT ![w] = "putbase"]
  <2>1. ASSUME WellFormed PROVE WorkerTold(in, "putbase", stack'[w], mem', cap', result'[w])
    <3>1. PICK said : ChainTold(in, stack[w], said) /\ said[Level(w)] = Target(d, base)
      BY <1>1, <2>1, OpsStand
    <3>2. ~(op.kind = "insert" \/ Copies(op, base))
      BY <1>1, <1>7, PieceAdded
    <3>3. g.op \in DOMAIN d.ops
      <4>1. DOMAIN d.ops = 1 .. Len(d.ops) /\ Len(d.ops) \in Nat
        BY <1>3, DeltaFacts, LenProperties
      <4>2. QED
        BY <1>1, <1>3, <4>1
    <3>4. said[Level(w)] = Bad("corrupt")
      BY <3>1, <3>2, <3>3 DEF Target, IsSound
    <3>5. TopTold(in, "putbase", f, mem', cap', said[Level(w)])
      BY <1>7, <3>4 DEF TopTold
    <3>6. QED
      BY <1>1, <1>2, <3>1, <3>5, TopKept
  <2>2. UNCHANGED << in, mem, cap >>
    BY <1>1, <1>7
  <2>3. QED
    BY <1>5, <1>7, <2>1, <2>2, ArraysKept DEF Label
<1>8. QED
  BY <1>2, <1>6, <1>7

\* After the last instruction the target is complete; its size decides.
LEMMA EndOpsTold ==
  ASSUME TypeInv, ToldInv, NEW w \in Worker, EndOps(w) PROVE ToldInv'
<1> DEFINE g    == Top(w)
           d    == DeltaOf(w)
           base == Data(g.base, mem)
           N    == Len(d.ops)
<1>1. /\ pc[w] = "ops" /\ pc[w] # "idle" /\ UNCHANGED << in, mem, cap, result >>
      /\ g.op > N /\ pc[w] \in Applying /\ pc' = [pc EXCEPT ![w] = "putbase"]
  BY EndOpsEffect DEF Applying, buffers
<1>2. PICK f \in FrameType :
        /\ SetTop(w, f) /\ f.off = g.off /\ f.buf = g.buf /\ f.base = g.base /\ f.name = g.name
        /\ f.len = g.len /\ (f.ok = TRUE <=> g.len = d.target)
  BY EndOpsEffect
<1>3. /\ base \in Seq(Item) /\ d \in Delta /\ g.len \in Nat /\ g.op \in Nat \ {0}
      /\ f.ok \in BOOLEAN /\ N \in Nat /\ DOMAIN d.ops = 1 .. N
  <2>1. base \in Seq(Item) /\ d \in Delta /\ g.len \in Nat /\ g.op \in Nat \ {0}
    BY <1>1, BaseFacts, TopDelta
  <2>2. N \in Nat /\ DOMAIN d.ops = 1 .. N
    BY <2>1, DeltaFacts, LenProperties
  <2>3. QED
    BY <2>1, <2>2 DEF FrameType
<1>4. ASSUME WellFormed PROVE WorkerTold(in, "putbase", stack'[w], mem', cap', result'[w])
  <2>1. PICK said : /\ ChainTold(in, stack[w], said) /\ said[Level(w)] = Target(d, base)
                    /\ OpsTold(d, g, base, mem, cap)
    BY <1>1, <1>4, OpsStand
  <2> DEFINE B == Built(d, base)
  <2>2. /\ d.header /\ d.base = Len(base) /\ g.op <= N + 1
        /\ \A i \in 1 .. g.op - 1 : d.ops[i].kind = "insert" \/ Copies(d.ops[i], base)
        /\ g.len = Len(B[g.op - 1]) /\ d.target <= cap[g.buf]
        /\ g.len <= cap[g.buf] => SubSeq(mem[g.buf], 1, g.len) = B[g.op - 1]
    BY <2>1 DEF OpsTold
  <2>3. g.op - 1 = N
    BY <1>1, <1>3, <2>2
  <2> HIDE DEF g, d, base, N, B
  <2>4. IsSound(d, base) <=> g.len = d.target
    BY <1>3, <2>2, <2>3 DEF IsSound, N, B
  <2>5. said[Level(w)] = IF f.ok THEN Good(SubSeq(mem'[f.buf], 1, f.len)) ELSE Bad("corrupt")
    <3>1. CASE f.ok
      <4>1. g.len = d.target /\ IsSound(d, base)
        BY <1>2, <1>3, <2>4, <3>1
      <4>2. SubSeq(mem[g.buf], 1, g.len) = B[N]
        BY <2>2, <2>3, <4>1
      <4>3. Target(d, base) = Good(B[N])
        BY <4>1 DEF Target, B, N
      <4>4. QED
        BY <1>1, <1>2, <2>1, <3>1, <4>2, <4>3
    <3>2. CASE ~f.ok
      <4>1. ~IsSound(d, base)
        BY <1>2, <1>3, <2>4, <3>2
      <4>2. QED
        BY <2>1, <3>2, <4>1 DEF Target
    <3>3. QED
      BY <3>1, <3>2
  <2>6. TopTold(in, "putbase", f, mem', cap', said[Level(w)])
    BY <2>5 DEF TopTold
  <2>7. f.name = Top(w).name
    BY <1>2 DEF g
  <2>8. QED
    BY <1>1, <1>2, <2>1, <2>6, <2>7, TopKept
<1>5. \A u \in Worker : u # w => stack'[u] = stack[u] /\ result'[u] = result[u]
  BY <1>1, <1>2, SetTopEffect
<1>6. QED
  BY <1>1, <1>4, <1>5, ArraysKept DEF Label

\* The base is given up: it is not needed any more.
LEMMA PutBaseTold ==
  ASSUME TypeInv, ToldInv, NEW w \in Worker, PutBase(w) PROVE ToldInv'
<1> DEFINE g == Top(w)
           l == IF g.ok THEN "hand" ELSE "discard"
<1>1. /\ pc[w] = "putbase" /\ pc[w] # "idle" /\ UNCHANGED << in, mem, cap, result >>
      /\ \/ g.ok = TRUE /\ pc' = [pc EXCEPT ![w] = "hand"]
         \/ g.ok = FALSE /\ pc' = [pc EXCEPT ![w] = "discard"]
  BY PutBaseEffect
<1>2. PICK f \in FrameType :
        /\ SetTop(w, f) /\ f.off = g.off /\ f.buf = g.buf /\ f.name = g.name /\ f.len = g.len
  BY PutBaseEffect
<1>3. pc' = [pc EXCEPT ![w] = l] /\ l \in {"hand", "discard"}
  BY <1>1
<1>4. ASSUME WellFormed PROVE WorkerTold(in, l, stack'[w], mem', cap', result'[w])
  <2>1. PICK said : /\ ChainTold(in, stack[w], said)
                    /\ TopTold(in, "putbase", g, mem, cap, said[Level(w)])
    BY <1>1, <1>4, InRead
  <2>2. said[Level(w)] = IF g.ok THEN Good(SubSeq(mem[g.buf], 1, g.len)) ELSE Bad("corrupt")
    BY <2>1 DEF TopTold
  <2>3. f.name = Top(w).name
    BY <1>2
  <2> HIDE DEF g
  <2>4. TopTold(in, l, f, mem', cap', said[Level(w)])
    BY <1>1, <1>2, <2>2 DEF TopTold
  <2>5. QED
    BY <1>1, <1>2, <1>3, <2>1, <2>3, <2>4, TopKept
<1>5. \A u \in Worker : u # w => stack'[u] = stack[u] /\ result'[u] = result[u]
  BY <1>1, <1>2, SetTopEffect
<1>6. l \in Label
  BY <1>3 DEF Label
<1> HIDE DEF l
<1>7. QED
  BY <1>1, <1>3, <1>4, <1>5, <1>6, ArraysKept

\* A delta that could not be applied ends the read.
LEMMA DiscardTold ==
  ASSUME TypeInv, ToldInv, NEW w \in Worker, Discard(w) PROVE ToldInv'
<1>1. /\ pc[w] = "discard" /\ pc[w] # "idle" /\ UNCHANGED << in, mem, cap >> /\ Fail(w, "corrupt")
  BY DEF Discard
<1>2. ASSUME WellFormed PROVE WorkerTold(in, "idle", stack'[w], mem', cap', result'[w])
  <2>1. PICK said : /\ ChainTold(in, stack[w], said)
                    /\ TopTold(in, "discard", Top(w), mem, cap, said[Level(w)])
    BY <1>1, <1>2, InRead
  <2>2. said[Level(w)] = Bad("corrupt") /\ "corrupt" \in Error \ {"none"}
    BY <2>1 DEF TopTold, Error
  <2>3. QED
    BY <1>1, <2>1, <2>2, FailTold
<1>3. /\ pc' = [pc EXCEPT ![w] = "idle"]
      /\ \A u \in Worker : u # w => stack'[u] = stack[u] /\ result'[u] = result[u]
  BY <1>1 DEF Fail, Goto, TypeInv
<1>4. QED
  BY <1>1, <1>2, <1>3, ArraysKept DEF Label

\* What a finished delta stands for is what its array holds.
LEMMA TargetStands ==
  ASSUME TypeInv, ToldInv, WellFormed, NEW w \in Worker, pc[w] = "hand"
  PROVE  LET o == Slice(Top(w).buf, Top(w).len)
         IN  /\ \E said : /\ ChainTold(in, stack[w], said)
                          /\ said[Level(w)] = Good(Data(o, mem))
             /\ Data(o, mem) \in Seq(Item) /\ BytesOf(o) = Data(o, mem)
<1> DEFINE g == Top(w)
           o == Slice(g.buf, g.len)
<1>1. g.buf \in Buffer /\ g.len \in 0 .. MaxCap /\ o \in Object
  BY TargetIsObject
<1>2. o.buf # NoBuffer /\ Data(o, mem) = SubSeq(mem[g.buf], 1, g.len) /\ BytesOf(o) = Data(o, mem)
  <2>1. o.buf = g.buf /\ o.len = g.len
    BY DEF Slice
  <2>2. QED
    BY <1>1, <2>1, BufferAssumption DEF Data, BytesOf
<1>3. Data(o, mem) \in Seq(Item)
  BY <1>1, <1>2, BytesOfTyped
<1>4. PICK said : /\ ChainTold(in, stack[w], said)
                  /\ TopTold(in, "hand", g, mem, cap, said[Level(w)])
  BY InRead
<1>5. said[Level(w)] = Good(SubSeq(mem[g.buf], 1, g.len))
  BY <1>4 DEF TopTold
<1>6. QED
  BY <1>2, <1>3, <1>4, <1>5

\* A step that ends a frame with what it stands for.
LEMMA ReturnKept ==
  ASSUME TypeInv, ToldInv, NEW w \in Worker, pc[w] # "idle", UNCHANGED << in, mem, cap >>,
         NEW o \in Object, Return(w, o), Level(w) = 1 => o.buf = NoBuffer,
         WellFormed => /\ Data(o, mem) \in Seq(Item)
                       /\ \E said : ChainTold(in, stack[w], said)
                                    /\ said[Level(w)] = Good(Data(o, mem))
  PROVE  ToldInv'
<1>1. \A u \in Worker : u # w => stack'[u] = stack[u] /\ result'[u] = result[u]
  BY DEF Return, TypeInv
<1>2. \E l \in {"idle", "apply"} :
        /\ pc' = [pc EXCEPT ![w] = l]
        /\ WellFormed => WorkerTold(in, l, stack'[w], mem', cap', result'[w])
  <2>1. CASE WellFormed
    <3>1. PICK said : ChainTold(in, stack[w], said) /\ said[Level(w)] = Good(Data(o, mem'))
      BY <2>1
    <3>2. Data(o, mem') \in Seq(Item)
      BY <2>1
    <3>3. QED
      BY <2>1, <3>1, <3>2, ReturnTold
  <2>2. CASE ~WellFormed
    <3>1. \E l \in {"idle", "apply"} : pc' = [pc EXCEPT ![w] = l]
      BY DEF Return, Goto
    <3>2. QED
      BY <2>2, <3>1
  <2>3. QED
    BY <2>1, <2>2
<1>3. QED
  BY <1>1, <1>2, ArraysKept DEF Label

\* A base goes up in its buffer.
LEMMA HandUpTold ==
  ASSUME TypeInv, ToldInv, NEW w \in Worker, HandUp(w) PROVE ToldInv'
<1> DEFINE o == Slice(Top(w).buf, Top(w).len)
<1>1. /\ pc[w] = "hand" /\ pc[w] # "idle" /\ UNCHANGED << in, mem, cap >> /\ Top(w).depth > 0
      /\ Return(w, o)
  BY DEF HandUp, buffers
<1>2. o \in Object
  BY <1>1, TargetIsObject
<1>3. Level(w) # 1
  BY <1>1, TopFits
<1>4. WellFormed => /\ Data(o, mem) \in Seq(Item)
                    /\ \E said : ChainTold(in, stack[w], said)
                                 /\ said[Level(w)] = Good(Data(o, mem))
  BY <1>1, TargetStands
<1> HIDE DEF o
<1>5. QED
  BY <1>1, <1>2, <1>3, <1>4, ReturnKept

\* The object that was asked for is copied out of its buffer.
LEMMA CopyOutTold ==
  ASSUME TypeInv, ToldInv, NEW w \in Worker, CopyOut(w) PROVE ToldInv'
<1> DEFINE o == Slice(Top(w).buf, Top(w).len)
<1>1. /\ pc[w] = "hand" /\ pc[w] # "idle" /\ UNCHANGED << in, mem, cap, result >>
      /\ pc' = [pc EXCEPT ![w] = "putown"]
  BY CopyOutEffect DEF buffers
<1>2. PICK f \in FrameType :
        SetTop(w, f) /\ f.base = Private(BytesOf(o)) /\ f.name = Top(w).name
  BY CopyOutEffect
<1> HIDE DEF o
<1>3. ASSUME WellFormed PROVE WorkerTold(in, "putown", stack'[w], mem', cap', result'[w])
  <2>1. PICK said : ChainTold(in, stack[w], said) /\ said[Level(w)] = Good(BytesOf(o))
    BY <1>1, <1>3, TargetStands DEF o
  <2>2. f.base.data = BytesOf(o)
    BY <1>2 DEF Private
  <2>3. TopTold(in, "putown", f, mem', cap', said[Level(w)])
    BY <2>1, <2>2 DEF TopTold
  <2>4. QED
    BY <1>1, <1>2, <2>1, <2>3, TopKept
<1>4. \A u \in Worker : u # w => stack'[u] = stack[u] /\ result'[u] = result[u]
  BY <1>1, <1>2, SetTopEffect
<1>5. QED
  BY <1>1, <1>3, <1>4, ArraysKept DEF Label

\* The copy goes to the caller.
LEMMA PutOwnTold ==
  ASSUME TypeInv, ToldInv, NEW w \in Worker, PutOwn(w) PROVE ToldInv'
<1> DEFINE o == Top(w).base
<1>1. /\ pc[w] = "putown" /\ pc[w] # "idle" /\ UNCHANGED << in, mem, cap >> /\ Return(w, o)
  BY DEF PutOwn
<1>2. o \in Object /\ o.buf = NoBuffer
  BY <1>1, TopFits DEF Fits, FrameType
<1>3. Data(o, mem) = o.data /\ Data(o, mem) \in Seq(Item)
  BY <1>2 DEF Data, Object
<1>4. ASSUME WellFormed
      PROVE  \E said : ChainTold(in, stack[w], said) /\ said[Level(w)] = Good(Data(o, mem))
  <2>1. PICK said : /\ ChainTold(in, stack[w], said)
                    /\ TopTold(in, "putown", Top(w), mem, cap, said[Level(w)])
    BY <1>1, <1>4, InRead
  <2>2. said[Level(w)] = Good(o.data)
    BY <2>1 DEF TopTold
  <2>3. QED
    BY <1>3, <2>1, <2>2
<1> HIDE DEF o
<1>5. QED
  BY <1>1, <1>2, <1>3, <1>4, ReturnKept

\* No step of any worker, nor of the garbage collector, makes a read tell
\* anything but what the bytes say.
LEMMA NextToldInv == TypeInv /\ OwnInv /\ SearchInv /\ ToldInv /\ [Next]_vars => ToldInv'
<1> SUFFICES ASSUME TypeInv, OwnInv, SearchInv, ToldInv, [Next]_vars PROVE ToldInv'
  OBVIOUS
<1>1. CASE Collect \/ UNCHANGED vars
  <2>1. UNCHANGED << in, mem, cap, pc, stack, result >>
    BY <1>1 DEF Collect, vars
  <2>2. QED
    BY <2>1 DEF ToldInv, WellFormed
<1>2. QED
  BY <1>1, CallTold, CallWithoutPackTold, SearchStepTold, SearchHitTold, SearchMissTold,
     ReadEntryTold, GetBufferTold, RunOpTold, EndOpsTold, PutBaseTold, DiscardTold,
     HandUpTold, CopyOutTold, PutOwnTold DEF Next

(***************************************************************************)
(* readObjectAt, delta.go and the pool: however many workers read and      *)
(* however their steps and those of the garbage collector interleave, a    *)
(* read of a sound pack that has returned yields the object or the error   *)
(* that the bytes of the pack say.  Packs, chains, deltas, buffers and     *)
(* limits may be of any size.                                              *)
(***************************************************************************)
THEOREM ReadsAreWhatTheBytesSay == Spec => []ReadsTheObject
<1>1. Init => ToldInv
  BY DEF Init, ToldInv, WorkerTold, ResultTold
<1>2. Spec => []ToldInv
  BY <1>1, NextToldInv, AlwaysTypeInv, AlwaysOwnInv, AlwaysSearchInv, PTL DEF Spec
<1>3. TypeInv /\ ToldInv => ReadsTheObject
  <2> SUFFICES ASSUME TypeInv, ToldInv, WellFormed, NEW w \in Worker,
                      pc[w] = "idle", result[w] # NoResult
               PROVE  Meaning(in)[result[w].name] =
                        [err |-> result[w].err, data |-> BytesOf(result[w].obj)]
    BY DEF ReadsTheObject
  <2>1. /\ result[w].name \in in.wanted
        /\ Found(in, result[w].name, Decoded(in)[0]) =
             [err |-> result[w].err, data |-> result[w].obj.data]
    BY DEF ToldInv, WorkerTold, ResultTold
  <2>2. BytesOf(result[w].obj) = result[w].obj.data
    BY DEF TypeInv, WorkerType, BytesOf
  <2>3. Meaning(in)[result[w].name] = Found(in, result[w].name, Decoded(in)[0])
    BY <2>1 DEF Meaning
  <2>4. QED
    BY <2>1, <2>2, <2>3
<1>4. QED
  BY <1>2, <1>3, AlwaysTypeInv, PTL
==============================================================================
