---------------------------- MODULE CDataBuffer ----------------------------
(***************************************************************************)
(* ringbuffer2.lua: cdatabuffer, the ring buffer of a cdata array, which   *)
(* moves elements in bulk through write() and read() and grows by          *)
(* reallocation.  b.start and the array count from 0 here.                 *)
(***************************************************************************)
EXTENDS RingAlgorithm

CONSTANTS
  Values,     \* the elements
  None,       \* an array element that was never written as a whole
  Sizes,      \* the sizes a buffer is created with
  MaxSize,    \* a buffer that would grow beyond this is not looked at
  ElemSize,   \* the size of the ctype, in bytes
  MaxBatch,   \* how many elements are pushed or pulled at most in one call
  HeadBatch   \* how many of them at the end a negative len works on

ASSUME BoundsAssumption == /\ MaxSize \in Nat \ {0}
                           /\ Sizes \subseteq 1..MaxSize
                           /\ MaxBatch \in Nat /\ HeadBatch \in 0..MaxBatch
                           /\ ElemSize \in Nat \ {0}
ASSUME ValuesAssumption == None \notin Values

VARIABLES
  buf,       \* the buffer b
  io         \* history: the last call and the elements that went in or out

vars == <<buf, io>>

Call(op, end, s) == [op |-> op, end |-> end, data |-> s]
Array(n)  == [0..n - 1 -> Values \cup {None}]
Buffer(n) == [data : Array(n), start : 0..n - 1, length : 0..n, size : {n}, autogrow : BOOLEAN]
Batches   == UNION {[1..n -> Values] : n \in 1..MaxBatch}
\* The lengths that push() and pull() are called with.
Lens      == (-HeadBatch)..MaxBatch \ {0}
PushEnd(len) == IF len > 0 THEN "tail" ELSE "head"
PullEnd(len) == IF len > 0 THEN "head" ELSE "tail"

TypeOK == \E n \in 1..MaxSize : buf \in Buffer(n)

\* A new buffer, which may come pre-filled.
Init ==
  /\ \E n \in Sizes : buf \in Buffer(n)
  /\ \A i \in 0..buf.size - 1 :
       buf.data[i] # None <=> \E k \in 0..buf.length - 1 : i = (buf.start + k) % buf.size
  /\ io = Call("new", "tail", <<>>)

-----------------------------------------------------------------------------
\* Segments as write() and read() take them: with positive lengths, and
\* counted from 0.
NormalizeSegs(segs) ==
  IF segs.n1 < 0
  THEN [i1 |-> segs.i1 + segs.n1, n1 |-> -segs.n1,
        i2 |-> segs.i2 + segs.n2, n2 |-> -segs.n2]
  ELSE [i1 |-> segs.i1 - 1, n1 |-> segs.n1, i2 |-> segs.i2 - 1, n2 |-> segs.n2]

\* ffi.copy(dst, src, n) takes n for bytes.  In place of n elements it copies
\* the first ones and, maybe, a part of the next, which is then torn.
Whole(n) == n \div ElemSize
Torn(n)  == IF n % ElemSize = 0 THEN {} ELSE {Whole(n)}

\* write(): the array with the batch in its two segments.
Written(array, segs, batch) ==
  LET k1(i) == i - segs.i1
      k2(i) == i - segs.i2
  IN [i \in DOMAIN array |->
        IF k1(i) \in 0..Whole(segs.n1) - 1 THEN batch[k1(i) + 1]
        ELSE IF k2(i) \in 0..Whole(segs.n2) - 1 THEN batch[segs.n1 + k2(i) + 1]
        ELSE IF k1(i) \in Torn(segs.n1) \/ k2(i) \in Torn(segs.n2) THEN None
        ELSE array[i]]

\* read(): what it makes of the elements of the two segments.
ReadFrom(array, segs) ==
  [k \in 1..segs.n1 + segs.n2 |->
     IF k <= Whole(segs.n1) THEN array[segs.i1 + k - 1]
     ELSE IF k - segs.n1 \in 1..Whole(segs.n2) THEN array[segs.i2 + k - segs.n1 - 1]
     ELSE None]

\* Mutants of CheckSize: segment 2 is not copied; b.start is not reset.
CheckSizeOneSegment(len) ==
  LET newsize == Greatest(buf.size * 2, buf.length + len)
      segs    == NormalizeSegs(Segments(buf.start + 1, buf.length, buf.size))
  IN IF len <= buf.size - buf.length THEN buf
     ELSE [buf EXCEPT
             !.data = [i \in 0..newsize - 1 |->
                         IF i < segs.n1 THEN buf.data[segs.i1 + i] ELSE None],
             !.start = 0, !.size = newsize]
CheckSizeKeepsStart(len) ==
  LET newsize == Greatest(buf.size * 2, buf.length + len)
      old     == ReadFrom(buf.data, NormalizeSegs(Segments(buf.start + 1, buf.length, buf.size)))
  IN IF len <= buf.size - buf.length THEN buf
     ELSE [buf EXCEPT
             !.data = [i \in 0..newsize - 1 |-> IF i < buf.length THEN old[i + 1] ELSE None],
             !.size = newsize]

\* checksize(len): the buffer after it.
CheckSize(len) ==
  LET newsize == Greatest(buf.size * 2, buf.length + len)
      old     == ReadFrom(buf.data, NormalizeSegs(Segments(buf.start + 1, buf.length, buf.size)))
  IN IF len <= buf.size - buf.length THEN buf
     ELSE [buf EXCEPT
             !.data = [i \in 0..newsize - 1 |-> IF i < buf.length THEN old[i + 1] ELSE None],
             !.start = 0, !.size = newsize]

\* push(src, len), with |len| elements in src.  It raises when they do not fit;
\* checksize() passes over a negative len, so that only the tail grows.
PushBatch(batch, len) ==
  LET grown == IF buf.autogrow THEN CheckSize(len) ELSE buf
      p     == Push(len, grown.start + 1, grown.length, grown.size)
  IN /\ grown.size <= MaxSize
     /\ IF MayPush(len, grown.length, grown.size)
        THEN /\ buf' = [grown EXCEPT
                          !.data   = Written(grown.data, NormalizeSegs(p.segs), batch),
                          !.start  = p.start - 1,
                          !.length = p.length]
             /\ io' = Call("push", PushEnd(len), batch)
        ELSE buf' = grown /\ io' = Call("error", PushEnd(len), batch)

\* pull(dst, len, keep).  It raises when there are fewer elements.
PullBatch(len, keep) ==
  LET p == Pull(len, buf.start + 1, buf.length, buf.size)
  IN IF MayPull(len, buf.length)
     THEN /\ buf' = IF keep THEN buf
                    ELSE [buf EXCEPT !.start = p.start - 1, !.length = p.length]
          /\ io' = Call(IF keep THEN "keep" ELSE "pull", PullEnd(len),
                        ReadFrom(buf.data, NormalizeSegs(p.segs)))
     ELSE io' = Call("error", PullEnd(len), <<>>) /\ UNCHANGED buf

\* checksize(len) called by the program.
Grow(len) ==
  /\ CheckSize(len).size <= MaxSize
  /\ buf' = CheckSize(len)
  /\ UNCHANGED io

\* The program turns auto-growing on or off.
SetAutogrow == buf' = [buf EXCEPT !.autogrow = ~@] /\ UNCHANGED io

Next ==
  \/ \E len \in Lens : \E batch \in {s \in Batches : Len(s) = Abs(len)} :
       PushBatch(batch, len)
  \/ \E len \in Lens, keep \in BOOLEAN : PullBatch(len, keep)
  \/ \E len \in 1..MaxBatch : Grow(len)
  \/ SetAutogrow

Spec == Init /\ [][Next]_vars

-----------------------------------------------------------------------------
\* The elements from head to tail.
Contents == [k \in 1..buf.length |->
  buf.data[OffsetIndex(k - 1, buf.start + 1, buf.length, buf.size) - 1]]

\* The occupied arc holds only elements that were written, whatever wraps and
\* reallocations there were.
OccupiedIsWritten == \A k \in 1..buf.length : Contents[k] # None

\* ringbuffer2.md: "add data to tail (or head if len < 0)", "remove data from
\* head (or tail if len < 0)": the elements keep their order, however they lie
\* in the array.
D == INSTANCE Deque WITH contents <- Contents
ImplementsDeque == D!Spec
=============================================================================
