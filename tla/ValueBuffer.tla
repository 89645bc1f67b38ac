---------------------------- MODULE ValueBuffer ----------------------------
(***************************************************************************)
(* ringbuffer2.lua: valuebuffer, the ring buffer of Lua values that grows  *)
(* in place, moving the shorter of its two segments.                       *)
(***************************************************************************)
EXTENDS RingAlgorithm

CONSTANTS
  Values,      \* the values that are pushed
  None,        \* an empty slot (nil or false)
  Sizes,       \* the sizes a buffer is created with
  MaxSize,     \* a buffer that would grow beyond this is not looked at
  GrowsEmpty   \* may the program call checksize(len) on an empty buffer?

ASSUME ValuesAssumption == None \notin Values
ASSUME SizesAssumption  == /\ MaxSize \in Nat \ {0}
                           /\ Sizes \subseteq 1..MaxSize
ASSUME GrowAssumption   == GrowsEmpty \in BOOLEAN

VARIABLES
  data,      \* the table b.data
  start, length, size,
  autogrow,  \* b.autogrow
  io         \* history: the last call and the value that went in or out

vars == <<data, start, length, size, autogrow, io>>

Slots     == 1..MaxSize
Signs     == {1, -1}
Call(op, end, v) == [op |-> op, end |-> end, data |-> v]
\* The end at which a push (a pull) with this sign works.
PushEnd(sign) == IF sign = 1 THEN "tail" ELSE "head"
PullEnd(sign) == IF sign = 1 THEN "head" ELSE "tail"

TypeOK ==
  /\ data     \in [Slots -> Values \cup {None}]
  /\ size     \in Slots
  /\ start    \in 1..size
  /\ length   \in 0..size
  /\ autogrow \in BOOLEAN

\* A new buffer, which may come pre-filled.
Init ==
  /\ size     \in Sizes
  /\ start    \in 1..size
  /\ length   \in 0..size
  /\ autogrow \in BOOLEAN
  /\ data     \in [Slots -> Values \cup {None}]
  /\ \A i \in Slots :
       data[i] # None <=> \E k \in 0..length - 1 : i = OffsetIndex(k, start, length, size)
  /\ io = Call("new", "tail", <<>>)

-----------------------------------------------------------------------------
\* Mutant of Moved: the slots that are left keep their values.
MovedKeeps(n, from, to) ==
  [i \in Slots |-> IF i - to \in 1..n THEN data[from + (i - to)] ELSE data[i]]

\* Move n values from the slots after `from' to those after `to'.
Moved(n, from, to) ==
  [i \in Slots |-> IF i - to \in 1..n THEN data[from + (i - to)]
                   ELSE IF i - from \in 1..n THEN None
                   ELSE data[i]]

\* Mutant of CheckSize: `b.start = o' is missing.
CheckSizeKeepsStart(len) ==
  LET newsize == Greatest(size * 2, length + len)
      segs    == Segments(start, length, size)
  IN [start |-> start,
      size  |-> IF len <= size - length THEN size ELSE newsize,
      data  |-> IF len <= size - length THEN data
                ELSE IF segs.n1 > segs.n2
                THEN Moved(segs.n2, 0, segs.i1 + segs.n1 - 1)
                ELSE Moved(segs.n1, segs.i1 - 1, newsize - segs.n1)]

\* checksize(len): the buffer after it, as (data, start, size).
CheckSize(len) ==
  LET newsize == Greatest(size * 2, length + len)
      segs    == Segments(start, length, size)
  IN IF len <= size - length
     THEN [data |-> data, start |-> start, size |-> size]
     ELSE IF segs.n1 > segs.n2
     THEN \* segment 2 goes right after segment 1
          [data  |-> Moved(segs.n2, 0, segs.i1 + segs.n1 - 1),
           start |-> start, size |-> newsize]
     ELSE \* segment 1 goes to the end of the new buffer
          [data  |-> Moved(segs.n1, segs.i1 - 1, newsize - segs.n1),
           start |-> newsize - segs.n1 + 1, size |-> newsize]

\* push(val, sign).  When the buffer is full it raises.
PushValue(val, sign) ==
  LET b == IF autogrow THEN CheckSize(1)
                       ELSE [data |-> data, start |-> start, size |-> size]
      p == Push(sign, b.start, length, b.size)
  IN /\ b.size <= MaxSize
     /\ IF MayPush(sign, length, b.size)
        THEN /\ data'   = [b.data EXCEPT ![p.segs.i1] = val]
             /\ start'  = p.start
             /\ length' = p.length
             /\ io'     = Call("push", PushEnd(sign), <<val>>)
        ELSE /\ io' = Call("error", PushEnd(sign), <<>>)
             /\ UNCHANGED <<start, length>>
             /\ data' = b.data
     /\ size' = b.size
     /\ UNCHANGED autogrow

\* pull(sign, keep).  When the buffer is empty it raises.
PullValue(sign, keep) ==
  LET p == Pull(sign, start, length, size)
      i == p.segs.i1
  IN /\ IF MayPull(sign, length)
        THEN /\ io' = Call(IF keep THEN "keep" ELSE "pull", PullEnd(sign), <<data[i]>>)
             /\ IF keep
                THEN UNCHANGED <<data, start, length>>
                ELSE /\ data'   = [data EXCEPT ![i] = None]
                     /\ start'  = p.start
                     /\ length' = p.length
        ELSE /\ io' = Call("error", PullEnd(sign), <<>>)
             /\ UNCHANGED <<data, start, length>>
     /\ UNCHANGED <<size, autogrow>>

\* checksize(len) called by the program.
Grow(len) ==
  LET b == CheckSize(len)
  IN /\ length > 0 \/ GrowsEmpty
     /\ b.size <= MaxSize
     /\ data' = b.data /\ start' = b.start /\ size' = b.size
     /\ UNCHANGED <<length, autogrow, io>>

\* The program turns auto-growing on or off.
SetAutogrow ==
  /\ autogrow' = ~autogrow
  /\ UNCHANGED <<data, start, length, size, io>>

Next == \/ \E val \in Values, sign \in Signs : PushValue(val, sign)
        \/ \E sign \in Signs, keep \in BOOLEAN : PullValue(sign, keep)
        \/ \E len \in 1..MaxSize : Grow(len)
        \/ SetAutogrow

Spec == Init /\ [][Next]_vars

-----------------------------------------------------------------------------
\* The values from head to tail.
Contents == [k \in 1..length |-> data[OffsetIndex(k - 1, start, length, size)]]

\* The slots outside the occupied arc are empty: a pulled value is not kept
\* alive ("remove the value but keep the slot").
FreeSlotsEmpty ==
  \A i \in Slots :
    (\A k \in 0..length - 1 : i # OffsetIndex(k, start, length, size)) => data[i] = None

\* ringbuffer2.md: "elements can be added/removed at both ends of the buffer
\* (LIFO/FIFO)", through wraps and the moves of checksize().
D == INSTANCE Deque WITH Batches <- {<<v>> : v \in Values}, contents <- Contents
ImplementsDeque == D!Spec
=============================================================================
