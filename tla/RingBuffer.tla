----------------------------- MODULE RingBuffer -----------------------------
(***************************************************************************)
(* ringbuffer2.lua used as an algorithm: the program keeps the tuple       *)
(* (start, length, size) and calls push() and pull() with any lengths that *)
(* their assertions let pass.                                              *)
(***************************************************************************)
EXTENDS RingAlgorithm

CONSTANT RingSizes
ASSUME SizesAssumption == RingSizes \subseteq Nat \ {0}

VARIABLES start, length, size
tuple == <<start, length, size>>

TupleOK == size \in RingSizes /\ start \in 1..size /\ length \in 0..size

TupleInit == size \in RingSizes /\ start = 1 /\ length = 0

PushStep(len) ==
  LET b == Push(len, start, length, size)
  IN /\ MayPush(len, length, size)
     /\ start' = b.start /\ length' = b.length
     /\ UNCHANGED size

PullStep(len) ==
  LET b == Pull(len, start, length, size)
  IN /\ MayPull(len, length)
     /\ start' = b.start /\ length' = b.length
     /\ UNCHANGED size

TupleNext == \E len \in -size..size : PushStep(len) \/ PullStep(len)

TupleSpec == TupleInit /\ [][TupleNext]_tuple

-----------------------------------------------------------------------------
DirOf(len) == IF len < 0 THEN -1 ELSE 1

\* "sweep an arbitrary arc over a circle, returning one or two of the
\* normalized arcs that map the input arc to the circle": element k of the two
\* arcs is the cell k steps away from the start, forwards and backwards.
SweepsArc ==
  \A len \in -size..size :
    LET segs == Segments(start, len, size)
    IN /\ Abs(segs.n1) + Abs(segs.n2) = Abs(len)
       /\ \A k \in 0..Abs(len) - 1 :
            SweptCell(segs, DirOf(len), k) = ArcCell(start, DirOf(len), k, size)

Occupied == {ArcCell(start, 1, k, size) : k \in 0..length - 1}

\* free_segments() gives the cells that the buffer does not occupy (of an
\* empty buffer they are swept backwards).
FreeIsRest ==
  Cells(FreeSegments(start, length, size), IF length = 0 THEN -1 ELSE 1)
    = (1..size) \ Occupied

\* offset(): -k from tail + 1 is length - k from the head.
OffsetsAgree ==
  \A k \in 1..length :
    OffsetIndex(-k, start, length, size) = OffsetIndex(length - k, start, length, size)

\* The segments push() returns are the cells it takes, none of which was
\* occupied, and those of pull() are the cells it gives back: no element is
\* written over and none is read twice.
SegmentsAreTheChange ==
  [][\A len \in -size..size :
       /\ PushStep(len) /\ len # 0 =>
            Cells(Push(len, start, length, size).segs, DirOf(len)) = Occupied' \ Occupied
       /\ PullStep(len) /\ len # 0 =>
            Cells(Pull(len, start, length, size).segs, DirOf(len)) = Occupied \ Occupied']_tuple
=============================================================================
