--------------------------- MODULE RingAlgorithm ---------------------------
(***************************************************************************)
(* ringbuffer2.lua: the stateless ring buffer algorithm, on the tuple      *)
(* (start, length, size).  Indices count from 1.  The Lua functions return *)
(* tuples; here they return records.                                       *)
(***************************************************************************)
EXTENDS Integers, Sequences

Least(a, b)    == IF a <= b THEN a ELSE b      \* math.min
Greatest(a, b) == IF a >= b THEN a ELSE b      \* math.max
Abs(n)         == IF n < 0 THEN -n ELSE n      \* math.abs

\* i over the circle 1..size.  Lua's % and TLA+'s agree: the remainder of a
\* division by size is never negative.
Normalize(i, size) == ((i - 1) % size) + 1

\* Mutant of Segments: backwards, the first arc stops a cell too late.
SegmentsOffByOne(start, length, size) ==
  LET i       == Normalize(start, size)
      length1 == IF length > 0 THEN size + 1 - i ELSE -i - 1
  IN IF length > 0
     THEN [i1 |-> i, n1 |-> Least(length, length1),
           i2 |-> 1, n2 |-> Greatest(0, length - length1)]
     ELSE [i1 |-> i,    n1 |-> Greatest(length, length1),
           i2 |-> size, n2 |-> Least(0, length - length1)]

\* The heart of the algorithm: sweep the arc that starts at `start' and is
\* `length' long, backwards if it is negative, over the circle 1..size.  The
\* answer is one or two arcs, (i1, n1) and (i2, n2), that do not wrap.
Segments(start, length, size) ==
  LET i       == Normalize(start, size)
      length1 == IF length > 0 THEN size + 1 - i ELSE -i
  IN IF length > 0
     THEN [i1 |-> i, n1 |-> Least(length, length1),
           i2 |-> 1, n2 |-> Greatest(0, length - length1)]
     ELSE [i1 |-> i,    n1 |-> Greatest(length, length1),
           i2 |-> size, n2 |-> Least(0, length - length1)]

\* Mutant of FreeSegments: the occupied cells are left in.
FreeSegmentsAll(start, length, size) == Segments(start + length, size, size)

FreeSegments(start, length, size) ==
  Segments(start + length, (IF length > 0 THEN size ELSE -size) - length, size)

\* Mutant of OffsetIndex: a negative offset counts from the tail.
OffsetFromTail(offset, start, length, size) ==
  Normalize(start + offset + (IF offset >= 0 THEN 0 ELSE length - 1), size)

\* The index at an offset from the head, or from tail + 1 if it is negative.
OffsetIndex(offset, start, length, size) ==
  Normalize(start + offset + (IF offset >= 0 THEN 0 ELSE length), size)

NoSegments == [i1 |-> 1, n1 |-> 0, i2 |-> 1, n2 |-> 0]

\* The assertions of push and pull.
MayPush(len, length, size) == Abs(len) <= size - length
MayPull(len, length)       == Abs(len) <= length

\* Mutant of Pull: from the tail, the sweep starts at tail + 1.
PullPastTail(len, start, length, size) ==
  [start  |-> IF len > 0 THEN Normalize(start + len, size) ELSE start,
   length |-> length - Abs(len),
   segs   |-> IF len > 0 THEN Segments(start, len, size)
              ELSE IF len < 0 THEN Segments(start + length, len, size)
              ELSE NoSegments]

\* Mutant of Push: the new head is not normalised.
PushUnnormalized(len, start, length, size) ==
  [start  |-> IF len < 0 THEN start + len ELSE start,
   length |-> length + Abs(len),
   segs   |-> IF len > 0 THEN Segments(start + length, len, size)
              ELSE IF len < 0 THEN Segments(start - 1, len, size)
              ELSE NoSegments]

\* push and pull len elements, at the tail and the head, or at the head and
\* the tail if len is negative.  Only a move of the head normalises start.
Push(len, start, length, size) ==
  [start  |-> IF len < 0 THEN Normalize(start + len, size) ELSE start,
   length |-> length + Abs(len),
   segs   |-> IF len > 0 THEN Segments(start + length, len, size)
              ELSE IF len < 0 THEN Segments(start - 1, len, size)
              ELSE NoSegments]

Pull(len, start, length, size) ==
  [start  |-> IF len > 0 THEN Normalize(start + len, size) ELSE start,
   length |-> length - Abs(len),
   segs   |-> IF len > 0 THEN Segments(start, len, size)
              ELSE IF len < 0 THEN Segments(start + length - 1, len, size)
              ELSE NoSegments]

-----------------------------------------------------------------------------
\* The cell that a pair of segments gives to element k = 0, 1, ... of a sweep
\* in direction dir (1 or -1), and the cell that it has to be.
SweptCell(segs, dir, k) == IF k < Abs(segs.n1)
                           THEN segs.i1 + dir * k
                           ELSE segs.i2 + dir * (k - Abs(segs.n1))
ArcCell(start, dir, k, size) == Normalize(start + dir * k, size)

\* The cells of a pair of segments, swept in direction dir.
Cells(segs, dir) ==
  {SweptCell(segs, dir, k) : k \in 0..Abs(segs.n1) + Abs(segs.n2) - 1}
=============================================================================
