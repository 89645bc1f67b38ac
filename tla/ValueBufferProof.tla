-------------------------- MODULE ValueBufferProof --------------------------
(***************************************************************************)
(* Proofs about the buffer of Lua values, for any set of values and        *)
(* buffers of every size: it is a deque, and what is pulled out of it is   *)
(* not kept.                                                               *)
(*                                                                         *)
(* The argument.  The head stays in 1..size, so that the cell of an        *)
(* element is at most one turn away (NormalizeNear), and two elements have *)
(* two cells.  push() and pull() then change one cell, the one they        *)
(* compute, next to the occupied arc or at its end.  checksize() moves one *)
(* of the two segments: the second goes where the first ends, or the first *)
(* goes to the end of the larger circle, and each element keeps its place  *)
(* in the order (CheckSizeKeeps).  A buffer that is empty has no segment to*)
(* move, and checksize() sets the head outside of it: hence ~GrowsEmpty.   *)
(***************************************************************************)
EXTENDS ValueBuffer, SequenceTheorems, TLAPS

\* Less than a turn away from the circle 1..n, normalize() goes back a turn.
LEMMA NormalizeNear ==
  ASSUME NEW n \in Nat \ {0}, NEW c \in 1 - n..2 * n
  PROVE  Normalize(c, n) = IF c < 1 THEN c + n ELSE IF c <= n THEN c ELSE c - n
<1> DEFINE q == (c - 1) \div n
<1> DEFINE r == (c - 1) % n
<1>1. q \in Int /\ r \in 0..n - 1 /\ c - 1 = n * q + r
  OBVIOUS
<1>2. Normalize(c, n) = r + 1
  BY DEF Normalize
<1> HIDE DEF q, r
<1>3. CASE q < -1
  <2>1. n * q <= n * (-2)
    BY <1>1, <1>3
  <2> QED
    BY <1>1, <2>1
<1>4. CASE q > 1
  <2>1. n * q >= n * 2
    BY <1>1, <1>4
  <2> QED
    BY <1>1, <2>1
<1>5. CASE q = -1
  <2>1. n * q = -n
    BY <1>5
  <2> QED
    BY <1>1, <1>2, <2>1
<1>6. CASE q = 0
  <2>1. n * q = 0
    BY <1>6
  <2> QED
    BY <1>1, <1>2, <2>1
<1>7. CASE q = 1
  <2>1. n * q = n
    BY <1>7
  <2> QED
    BY <1>1, <1>2, <2>1
<1> QED
  BY <1>1, <1>3, <1>4, <1>5, <1>6, <1>7

\* The cell of element k = 0, 1, ... of a buffer b = (data, start, size).
Cell(b, k) == Normalize(b.start + k, b.size)
Turn(s, n, k) == IF s + k <= n THEN s + k ELSE (s + k) - n

\* Buffers: a circle in the slots, whose head is one of its cells.
Buffers == [data : [Slots -> Values \cup {None}], start : Slots, size : Slots]
IsBuffer(b) == b \in Buffers /\ b.start \in 1..b.size

\* The cells of a turn are those of the circle, each once.
LEMMA CellsOfTurn ==
  ASSUME NEW b, IsBuffer(b)
  PROVE  /\ \A k \in 0..b.size : Cell(b, k) = Turn(b.start, b.size, k)
         /\ \A k \in 0..b.size : Cell(b, k) \in 1..b.size /\ Cell(b, k) \in Slots
         /\ \A j, k \in 0..b.size - 1 : Cell(b, j) = Cell(b, k) => j = k
<1> DEFINE s == b.start
<1> DEFINE n == b.size
<1>1. n \in Nat \ {0} /\ s \in 1..n /\ n <= MaxSize /\ MaxSize \in Nat
  BY SizesAssumption DEF IsBuffer, Buffers, Slots
<1> HIDE DEF s, n
<1>2. \A k \in 0..n : Normalize(s + k, n) = Turn(s, n, k)
  <2> SUFFICES ASSUME NEW k \in 0..n PROVE Normalize(s + k, n) = Turn(s, n, k)
    OBVIOUS
  <2>1. s + k \in 1 - n..2 * n /\ s + k >= 1
    BY <1>1
  <2> DEFINE c == s + k
  <2>2. c \in 1 - n..2 * n /\ c >= 1
    BY <2>1
  <2> HIDE DEF c
  <2>3. Normalize(c, n) = IF c < 1 THEN c + n ELSE IF c <= n THEN c ELSE c - n
    BY <1>1, <2>2, NormalizeNear
  <2>4. Normalize(c, n) = IF c <= n THEN c ELSE c - n
    BY <1>1, <2>2, <2>3
  <2> QED
    BY <2>4 DEF c, Turn
<1>3. \A k \in 0..n : Turn(s, n, k) \in 1..n
  BY <1>1 DEF Turn
<1>4. \A j, k \in 0..n - 1 : Turn(s, n, j) = Turn(s, n, k) => j = k
  BY <1>1 DEF Turn
<1>5. 1..n \subseteq Slots
  BY <1>1 DEF Slots
<1>6. 0..n - 1 \subseteq 0..n
  BY <1>1
<1> QED
  BY <1>2, <1>3, <1>4, <1>5, <1>6 DEF Cell, s, n

-----------------------------------------------------------------------------
\* A buffer of n elements, and nothing else.
HoldsOnly(b, n) ==
  /\ IsBuffer(b) /\ n \in 0..b.size
  /\ \A i \in Slots : (\A k \in 0..n - 1 : i # Cell(b, k)) => b.data[i] = None

\* The buffer as it is, and one that holds the same elements in the same order.
Here == [data |-> data, start |-> start, size |-> size]
HoldsTheSame(b) ==
  /\ HoldsOnly(b, length)
  /\ \A k \in 0..length - 1 : b.data[Cell(b, k)] = data[Cell(Here, k)]

\* An offset from the head names the cell.
LEMMA OffsetCell ==
  ASSUME NEW s \in Int, NEW l, NEW n
  PROVE  \A k \in Nat : OffsetIndex(k, s, l, n) = Normalize(s + k, n)
<1>1. \A k \in Nat : s + k + (IF k >= 0 THEN 0 ELSE l) = s + k
  OBVIOUS
<1> QED
  BY <1>1 DEF OffsetIndex

\* The numbers of a state, and what its offsets and properties say in cells.
LEMMA Numbers ==
  ASSUME TypeOK
  PROVE  /\ MaxSize \in Nat \ {0} /\ size \in Nat \ {0} /\ size <= MaxSize
         /\ start \in 1..size /\ length \in 0..size
         /\ start \in Slots /\ size \in Slots
         /\ 1..size \subseteq Slots
         /\ IsBuffer(Here)
         /\ Here.start = start /\ Here.size = size /\ Here.data = data
         /\ \A k \in Nat : OffsetIndex(k, start, length, size) = Cell(Here, k)
<1>1. /\ MaxSize \in Nat \ {0} /\ size \in Nat \ {0} /\ size <= MaxSize
      /\ start \in 1..size /\ length \in 0..size
  BY SizesAssumption DEF TypeOK, Slots
<1>2. 1..size \subseteq Slots /\ start \in Slots /\ size \in Slots
  BY <1>1 DEF Slots
<1>3. IsBuffer(Here)
  BY <1>1, <1>2 DEF IsBuffer, Buffers, Here, TypeOK
<1>4. Here.start = start /\ Here.size = size /\ Here.data = data
  BY DEF Here
<1>5. \A k \in Nat : OffsetIndex(k, start, length, size) = Cell(Here, k)
  BY <1>1, <1>4, OffsetCell DEF Cell
<1> QED
  BY <1>1, <1>2, <1>3, <1>4, <1>5

\* The two segments of the occupied cells, when there are any.
LEMMA TwoSegments ==
  ASSUME TypeOK, length > 0
  PROVE  LET segs == Segments(start, length, size) IN
         /\ segs.i1 = start
         /\ segs.n1 = IF length <= size + 1 - start THEN length ELSE size + 1 - start
         /\ segs.n2 = length - segs.n1
         /\ segs.n1 \in 1..size + 1 - start
         /\ segs.n2 \in 0..start - 1
         /\ segs.n2 > 0 => segs.n1 = size + 1 - start
<1>1. size \in Nat \ {0} /\ start \in 1..size /\ length \in 1..size
  BY Numbers
<1>2. Normalize(start, size) = start
  <2>1. start \in 1 - size..2 * size
    BY <1>1
  <2> QED
    BY <1>1, <2>1, NormalizeNear
<1> DEFINE segs == Segments(start, length, size)
<1>3. segs = [i1 |-> start, n1 |-> Least(length, size + 1 - start),
              i2 |-> 1, n2 |-> Greatest(0, length - (size + 1 - start))]
  BY <1>2 DEF Segments
<1> HIDE DEF segs
<1>4. /\ segs.i1 = start
      /\ segs.n1 = IF length <= size + 1 - start THEN length ELSE size + 1 - start
      /\ segs.n2 = IF 0 >= length - (size + 1 - start) THEN 0
                   ELSE length - (size + 1 - start)
  BY <1>3 DEF Least, Greatest
<1>5. segs.n2 = length - segs.n1
  BY <1>1, <1>4
<1>6. /\ segs.n1 \in 1..size + 1 - start
      /\ segs.n2 \in 0..start - 1
      /\ segs.n2 > 0 => segs.n1 = size + 1 - start
  BY <1>1, <1>4
<1> QED
  BY <1>4, <1>5, <1>6 DEF segs

\* What Moved does, slot by slot.
LEMMA MovedSlot ==
  ASSUME TypeOK, NEW n \in Int, NEW from \in Int, NEW to \in Int, NEW i \in Slots
  PROVE  /\ i - to \in 1..n => Moved(n, from, to)[i] = data[from + (i - to)]
         /\ i - to \notin 1..n /\ i - from \in 1..n => Moved(n, from, to)[i] = None
         /\ i - to \notin 1..n /\ i - from \notin 1..n => Moved(n, from, to)[i] = data[i]
BY DEF Moved

\* Moved from slots to slots gives a table.
LEMMA MovedTable ==
  ASSUME TypeOK, NEW n \in Nat, NEW from \in Nat, NEW to \in Nat, from + n <= MaxSize
  PROVE  Moved(n, from, to) \in [Slots -> Values \cup {None}]
<1> SUFFICES ASSUME NEW i \in Slots
             PROVE  Moved(n, from, to)[i] \in Values \cup {None}
  BY DEF Moved
<1>1. i - to \in 1..n => from + (i - to) \in Slots
  BY SizesAssumption DEF Slots
<1> QED
  BY <1>1, MovedSlot DEF TypeOK

\* checksize() where segment 1 is the longer one: segment 2 goes after it.
LEMMA SecondAfterFirst ==
  ASSUME TypeOK, FreeSlotsEmpty, length > 0, NEW m \in Slots, m >= 2 * size,
         Segments(start, length, size).n1 > Segments(start, length, size).n2
  PROVE  LET segs == Segments(start, length, size) IN
         HoldsTheSame([data  |-> Moved(segs.n2, 0, segs.i1 + segs.n1 - 1),
                       start |-> start, size |-> m])
<1> DEFINE n1 == Segments(start, length, size).n1
<1> DEFINE n2 == Segments(start, length, size).n2
<1> DEFINE to == start + n1 - 1
<1> DEFINE b == [data |-> Moved(n2, 0, to), start |-> start, size |-> m]
<1>1. /\ MaxSize \in Nat \ {0} /\ size \in Nat \ {0} /\ m \in 1..MaxSize /\ m >= 2 * size
      /\ start \in 1..size /\ length \in 1..size
  BY Numbers DEF Slots
<1>2. /\ Segments(start, length, size).i1 = start
      /\ n2 = length - n1 /\ n1 \in 1..size + 1 - start /\ n2 \in 0..start - 1
      /\ n2 > 0 => n1 = size + 1 - start
      /\ n1 > n2
  BY TwoSegments
<1> HIDE DEF n1, n2
<1>3. /\ to \in Nat /\ to < m
      /\ n2 > 0 => to = size
  BY <1>1, <1>2
<1>4. n2 \in Nat /\ 0 + n2 <= MaxSize
  BY <1>1, <1>2
<1> HIDE DEF to
<1>5. b.data = Moved(n2, 0, to) /\ b.start = start /\ b.size = m
  OBVIOUS
<1>6. b.data \in [Slots -> Values \cup {None}]
  BY <1>3, <1>4, <1>5, MovedTable
<1>7. IsBuffer(b)
  <2>1. start \in Slots /\ start \in 1..m
    BY <1>1 DEF Slots
  <2> QED
    BY <1>5, <1>6, <2>1 DEF IsBuffer, Buffers
<1> HIDE DEF b
<1>8. \A k \in 0..length - 1 : Cell(b, k) = start + k /\ start + k \in Slots
  <2> SUFFICES ASSUME NEW k \in 0..length - 1
               PROVE  Cell(b, k) = start + k /\ start + k \in Slots
    OBVIOUS
  <2>1. k \in 0..m /\ start + k <= m /\ start + k >= 1
    BY <1>1, <1>2
  <2>2. Cell(b, k) = Turn(start, m, k)
    BY <1>5, <1>7, <2>1, CellsOfTurn
  <2> QED
    BY <1>1, <2>1, <2>2 DEF Turn, Slots
<1>9. \A k \in 0..length - 1 : Cell(Here, k) = Turn(start, size, k)
  BY <1>1, Numbers, CellsOfTurn
<1>10. ASSUME NEW k \in 0..length - 1
       PROVE  b.data[Cell(b, k)] = data[Cell(Here, k)]
  <2>1. CASE start + k <= size
    <3>1. (start + k) - to \notin 1..n2 /\ (start + k) - 0 \notin 1..n2
      BY <1>1, <1>2, <1>3, <2>1
    <3>2. Moved(n2, 0, to)[start + k] = data[start + k]
      BY <1>2, <1>3, <1>8, <3>1, MovedSlot
    <3> QED
      BY <1>5, <1>8, <1>9, <2>1, <3>2 DEF Turn
  <2>2. CASE start + k > size
    <3>1. n2 > 0 /\ to = size /\ (start + k) - to \in 1..n2
      BY <1>1, <1>2, <1>3, <2>2
    <3>2. Moved(n2, 0, to)[start + k] = data[0 + ((start + k) - to)]
      BY <1>2, <1>3, <1>8, <3>1, MovedSlot
    <3>3. 0 + ((start + k) - to) = Turn(start, size, k)
      BY <1>1, <2>2, <3>1 DEF Turn
    <3> QED
      BY <1>5, <1>8, <1>9, <3>2, <3>3
  <2> QED
    BY <1>1, <2>1, <2>2
<1>11. ASSUME NEW i \in Slots, \A k \in 0..length - 1 : i # Cell(b, k)
       PROVE  b.data[i] = None
  <2>1. i \notin start..(start + length) - 1
    <3> SUFFICES ASSUME i \in start..(start + length) - 1
                 PROVE  FALSE
      OBVIOUS
    <3>1. i - start \in 0..length - 1 /\ start + (i - start) = i
      BY <1>1
    <3> QED
      BY <1>8, <1>11, <3>1
  <2>2. i \in Nat
    BY DEF Slots
  <2>3. i - to \notin 1..n2
    BY <1>1, <1>2, <1>3, <2>1, <2>2
  <2>4. CASE i - 0 \in 1..n2
    BY <1>2, <1>3, <1>5, <2>3, <2>4, MovedSlot
  <2>5. CASE i - 0 \notin 1..n2
    <3>1. \A k \in 0..length - 1 : i # Turn(start, size, k)
      BY <1>1, <1>2, <2>1, <2>2, <2>5 DEF Turn
    <3>2. \A k \in 0..length - 1 : i # OffsetIndex(k, start, length, size)
      BY <1>1, <1>9, <3>1, Numbers
    <3>3. data[i] = None
      BY <3>2 DEF FreeSlotsEmpty
    <3> QED
      BY <1>2, <1>3, <1>5, <2>3, <2>5, <3>3, MovedSlot
  <2> QED
    BY <2>4, <2>5
<1>12. length \in 0..b.size
  BY <1>1, <1>5
<1>13. HoldsTheSame(b)
  BY <1>7, <1>10, <1>11, <1>12 DEF HoldsTheSame, HoldsOnly
<1> QED
  BY <1>2, <1>13 DEF b, to, n1, n2

\* checksize() where segment 1 is not the longer one: it goes to the end of
\* the larger circle, and the head with it.
LEMMA FirstToTheEnd ==
  ASSUME TypeOK, FreeSlotsEmpty, length > 0, NEW m \in Slots, m >= 2 * size,
         ~(Segments(start, length, size).n1 > Segments(start, length, size).n2)
  PROVE  LET segs == Segments(start, length, size) IN
         HoldsTheSame([data  |-> Moved(segs.n1, segs.i1 - 1, m - segs.n1),
                       start |-> m - segs.n1 + 1, size |-> m])
<1> DEFINE n1 == Segments(start, length, size).n1
<1> DEFINE n2 == Segments(start, length, size).n2
<1> DEFINE from == start - 1
<1> DEFINE to   == m - n1
<1> DEFINE head == m - n1 + 1
<1> DEFINE b == [data |-> Moved(n1, from, to), start |-> head, size |-> m]
<1>1. /\ MaxSize \in Nat \ {0} /\ size \in Nat \ {0} /\ m \in 1..MaxSize /\ m >= 2 * size
      /\ start \in 1..size /\ length \in 1..size
  BY Numbers DEF Slots
<1>2. /\ Segments(start, length, size).i1 = start
      /\ n2 = length - n1 /\ n1 = size + 1 - start /\ n2 \in 1..start - 1
      /\ n1 \in 1..size
  <2>1. /\ Segments(start, length, size).i1 = start
        /\ n2 = length - n1 /\ n1 \in 1..size + 1 - start /\ n2 \in 0..start - 1
        /\ n2 > 0 => n1 = size + 1 - start
        /\ ~(n1 > n2)
    BY TwoSegments
  <2> HIDE DEF n1, n2
  <2> QED
    BY <1>1, <2>1
<1> HIDE DEF n1, n2
<1>3. /\ from = start - 1 /\ to = m - n1 /\ head = to + 1
      /\ from \in Nat /\ to \in Nat /\ n1 \in Nat /\ from + n1 <= MaxSize
  BY <1>1, <1>2
<1> HIDE DEF from, to, head
<1>4. b.data = Moved(n1, from, to) /\ b.start = head /\ b.size = m
  OBVIOUS
<1>5. b.data \in [Slots -> Values \cup {None}]
  BY <1>3, <1>4, MovedTable
<1>6. IsBuffer(b)
  <2>1. head \in Slots /\ head \in 1..m
    BY <1>1, <1>2, <1>3 DEF Slots
  <2> QED
    BY <1>4, <1>5, <2>1 DEF IsBuffer, Buffers
<1> HIDE DEF b
<1>7. ASSUME NEW k \in 0..length - 1
      PROVE  /\ k < n1 => Cell(b, k) = head + k /\ head + k \in Slots
             /\ ~(k < n1) => Cell(b, k) = (k - n1) + 1 /\ (k - n1) + 1 \in Slots
  <2>1. k \in 0..m /\ head \in 1..m
    BY <1>1, <1>2, <1>3
  <2>2. Cell(b, k) = Turn(head, m, k)
    BY <1>4, <1>6, <2>1, CellsOfTurn
  <2> QED
    BY <1>1, <1>2, <1>3, <2>1, <2>2 DEF Turn, Slots
<1>8. \A k \in 0..length - 1 : Cell(Here, k) = Turn(start, size, k)
  BY <1>1, Numbers, CellsOfTurn
<1>9. ASSUME NEW k \in 0..length - 1
      PROVE  b.data[Cell(b, k)] = data[Cell(Here, k)]
  <2>1. CASE k < n1
    <3>1. (head + k) - to \in 1..n1 /\ from + ((head + k) - to) = start + k /\ start + k <= size
      BY <1>1, <1>2, <1>3, <2>1
    <3>2. Moved(n1, from, to)[head + k] = data[from + ((head + k) - to)]
      BY <1>3, <1>7, <2>1, <3>1, MovedSlot
    <3> QED
      BY <1>4, <1>7, <1>8, <2>1, <3>1, <3>2 DEF Turn
  <2>2. CASE ~(k < n1)
    <3> DEFINE i == (k - n1) + 1
    <3>1. i - to \notin 1..n1 /\ i - from \notin 1..n1 /\ Turn(start, size, k) = i
      BY <1>1, <1>2, <1>3, <2>2 DEF Turn
    <3>2. i \in Slots /\ Cell(b, k) = i
      BY <1>7, <2>2
    <3> HIDE DEF i
    <3>3. Moved(n1, from, to)[i] = data[i]
      BY <1>3, <3>1, <3>2, MovedSlot
    <3> QED
      BY <1>4, <1>8, <3>1, <3>2, <3>3
  <2> QED
    BY <2>1, <2>2
<1>10. ASSUME NEW i \in Slots, \A k \in 0..length - 1 : i # Cell(b, k)
       PROVE  b.data[i] = None
  <2>1. i \in 1..MaxSize
    BY DEF Slots
  <2>2. i - to \notin 1..n1
    <3> SUFFICES ASSUME i - to \in 1..n1
                 PROVE  FALSE
      OBVIOUS
    <3>1. i - head \in 0..length - 1 /\ i - head < n1 /\ head + (i - head) = i
      BY <1>1, <1>2, <1>3, <2>1
    <3> QED
      BY <1>7, <1>10, <3>1
  <2>3. i \notin 1..n2
    <3> SUFFICES ASSUME i \in 1..n2
                 PROVE  FALSE
      OBVIOUS
    <3>1. (i + n1) - 1 \in 0..length - 1 /\ ~((i + n1) - 1 < n1) /\ (((i + n1) - 1) - n1) + 1 = i
      BY <1>1, <1>2, <2>1
    <3> QED
      BY <1>7, <1>10, <3>1
  <2>4. CASE i - from \in 1..n1
    BY <1>3, <1>4, <2>2, <2>4, MovedSlot
  <2>5. CASE i - from \notin 1..n1
    <3>1. \A k \in 0..length - 1 : i # Turn(start, size, k)
      BY <1>1, <1>2, <1>3, <2>1, <2>3, <2>5 DEF Turn
    <3>2. \A k \in 0..length - 1 : i # OffsetIndex(k, start, length, size)
      BY <1>1, <1>8, <3>1, Numbers
    <3>3. data[i] = None
      BY <3>2 DEF FreeSlotsEmpty
    <3> QED
      BY <1>3, <1>4, <2>2, <2>5, <3>3, MovedSlot
  <2> QED
    BY <2>4, <2>5
<1>11. length \in 0..b.size
  BY <1>1, <1>4
<1>12. HoldsTheSame(b)
  BY <1>6, <1>9, <1>10, <1>11 DEF HoldsTheSame, HoldsOnly
<1> QED
  BY <1>2, <1>12 DEF b, from, to, head, n1, n2

\* checksize(): a buffer that is not empty, or has room, keeps its elements.
LEMMA CheckSizeKeeps ==
  ASSUME TypeOK, FreeSlotsEmpty, NEW len \in 1..MaxSize,
         length > 0 \/ len <= size - length, CheckSize(len).size <= MaxSize
  PROVE  HoldsTheSame(CheckSize(len))
<1>1. CASE len <= size - length
  <2>1. CheckSize(len) = Here
    BY <1>1 DEF CheckSize, Here
  <2>2. length \in 0..Here.size /\ \A k \in 0..length - 1 : k \in Nat
    BY Numbers
  <2>3. HoldsOnly(Here, length)
    BY <2>2, Numbers DEF HoldsOnly, FreeSlotsEmpty
  <2> QED
    BY <2>1, <2>3, Numbers DEF HoldsTheSame
<1>2. CASE ~(len <= size - length)
  <2> DEFINE m == Greatest(size * 2, length + len)
  <2> DEFINE segs == Segments(start, length, size)
  <2>1. CheckSize(len).size = m
    BY <1>2 DEF CheckSize
  <2>2. m \in Slots /\ m >= 2 * size /\ length > 0
    BY <1>2, <2>1, Numbers DEF Greatest, Slots
  <2> HIDE DEF m
  <2>3. CASE segs.n1 > segs.n2
    <3>1. CheckSize(len) = [data  |-> Moved(segs.n2, 0, segs.i1 + segs.n1 - 1),
                            start |-> start, size |-> m]
      BY <1>2, <2>3 DEF CheckSize, m
    <3> QED
      BY <2>2, <2>3, <3>1, SecondAfterFirst
  <2>4. CASE ~(segs.n1 > segs.n2)
    <3>1. CheckSize(len) = [data  |-> Moved(segs.n1, segs.i1 - 1, m - segs.n1),
                            start |-> m - segs.n1 + 1, size |-> m]
      BY <1>2, <2>4 DEF CheckSize, m
    <3> QED
      BY <2>2, <2>4, <3>1, FirstToTheEnd
  <2> QED
    BY <2>3, <2>4
<1> QED
  BY <1>1, <1>2

-----------------------------------------------------------------------------
\* The n elements of a buffer, from head to tail.
Elements  == Values \cup {None}
Row(b, n) == [k \in 1..n |-> b.data[Cell(b, k - 1)]]

\* They are a sequence.
LEMMA RowIsSeq ==
  ASSUME NEW b, NEW n, HoldsOnly(b, n)
  PROVE  /\ n \in Nat
         /\ Row(b, n) \in Seq(Elements)
         /\ Len(Row(b, n)) = n
         /\ \A k \in 1..n : Row(b, n)[k] = b.data[Cell(b, k - 1)]
<1>1. b.size \in Nat \ {0} /\ n \in 0..b.size
  BY SizesAssumption DEF HoldsOnly, IsBuffer, Buffers, Slots
<1>2. \A k \in 1..n : b.data[Cell(b, k - 1)] \in Elements
  <2>1. \A k \in 1..n : k - 1 \in 0..b.size
    BY <1>1
  <2>2. \A k \in 1..n : Cell(b, k - 1) \in Slots
    BY <2>1, CellsOfTurn DEF HoldsOnly
  <2> QED
    BY <2>2 DEF HoldsOnly, IsBuffer, Buffers, Elements
<1>3. Row(b, n) \in [1..n -> Elements]
  BY <1>2 DEF Row
<1>4. Row(b, n) \in Seq(Elements)
  BY <1>1, <1>3, SeqDef
<1>5. DOMAIN Row(b, n) = 1..n
  BY <1>3
<1>6. Len(Row(b, n)) = n
  <2>1. Len(Row(b, n)) \in Nat /\ DOMAIN Row(b, n) = 1..Len(Row(b, n))
    BY <1>4, LenProperties
  <2> QED
    BY <1>1, <1>5, <2>1
<1> QED
  BY <1>1, <1>4, <1>6 DEF Row

\* The same fact, under a name.
IsRow(b, n) ==
  /\ Row(b, n) \in Seq(Elements) /\ Len(Row(b, n)) = n
  /\ \A k \in 1..n : Row(b, n)[k] = b.data[Cell(b, k - 1)]

\* The elements of a buffer in order are a sequence of elements.
LEMMA RowOfBuffer ==
  ASSUME NEW b, NEW n, HoldsOnly(b, n)
  PROVE  IsRow(b, n)
BY RowIsSeq DEF IsRow

\* Where the cells are when the head moves by one.
LEMMA HeadMoves ==
  ASSUME NEW b, NEW c, IsBuffer(b), IsBuffer(c), b.size = c.size,
         c.start = Normalize(b.start + 1, b.size) \/ b.start = Normalize(c.start - 1, c.size)
  PROVE  \A k \in 0..b.size - 1 : Cell(c, k) = Cell(b, k + 1)
<1> DEFINE n == b.size
<1> DEFINE s == b.start
<1> DEFINE h == c.start
<1>1. n \in Nat \ {0} /\ s \in 1..n /\ h \in 1..n
  BY SizesAssumption DEF IsBuffer, Buffers, Slots
<1> HIDE DEF n, s, h
<1>2. h = IF s = n THEN 1 ELSE s + 1
  <2>1. ASSUME h = Normalize(s + 1, n)
        PROVE  h = IF s = n THEN 1 ELSE s + 1
    <3> DEFINE d == s + 1
    <3>1. d \in 1 - n..2 * n /\ d >= 1
      BY <1>1
    <3> HIDE DEF d
    <3>2. Normalize(d, n) = IF d < 1 THEN d + n ELSE IF d <= n THEN d ELSE d - n
      BY <1>1, <3>1, NormalizeNear
    <3>3. h = Normalize(d, n)
      BY <2>1 DEF d
    <3> QED
      BY <1>1, <3>2, <3>3 DEF d
  <2>2. ASSUME s = Normalize(h - 1, n)
        PROVE  h = IF s = n THEN 1 ELSE s + 1
    <3> DEFINE d == h - 1
    <3>1. d \in 1 - n..2 * n /\ d < n
      BY <1>1
    <3> HIDE DEF d
    <3>2. Normalize(d, n) = IF d < 1 THEN d + n ELSE IF d <= n THEN d ELSE d - n
      BY <1>1, <3>1, NormalizeNear
    <3>3. s = Normalize(d, n)
      BY <2>2 DEF d
    <3> QED
      BY <1>1, <3>2, <3>3 DEF d
  <2> QED
    BY <2>1, <2>2 DEF n, s, h
<1> SUFFICES ASSUME NEW k \in 0..n - 1
             PROVE  Cell(c, k) = Cell(b, k + 1)
  BY DEF n
<1>3. k \in 0..n /\ k + 1 \in 0..n
  BY <1>1
<1>4. Cell(c, k) = Turn(h, n, k) /\ Cell(b, k + 1) = Turn(s, n, k + 1)
  BY <1>3, CellsOfTurn DEF n, s, h
<1>5. Turn(h, n, k) = Turn(s, n, k + 1)
  BY <1>1, <1>2 DEF Turn
<1> QED
  BY <1>4, <1>5

\* push() at the tail: the cell after the last one.
LEMMA PushTail ==
  ASSUME NEW b, NEW n, HoldsOnly(b, n), n < b.size, NEW val \in Values,
         NEW c, IsBuffer(c), c.start = b.start, c.size = b.size,
         c.data = [b.data EXCEPT ![Cell(b, n)] = val]
  PROVE  HoldsOnly(c, n + 1) /\ Row(c, n + 1) = Row(b, n) \o <<val>>
<1>1. /\ b.size \in Nat \ {0} /\ n \in 0..b.size - 1
      /\ IsBuffer(b) /\ b.data \in [Slots -> Elements]
  BY SizesAssumption DEF HoldsOnly, IsBuffer, Buffers, Slots, Elements
<1>2. \A k \in 0..n : Cell(c, k) = Cell(b, k) /\ Cell(b, k) \in Slots
  <2>1. \A k \in 0..n : k \in 0..b.size
    BY <1>1
  <2> QED
    BY <1>1, <2>1, CellsOfTurn DEF Cell
<1>3. \A k \in 0..n - 1 : Cell(b, k) # Cell(b, n)
  <2>1. \A k \in 0..n - 1 : k \in 0..b.size - 1 /\ k # n
    BY <1>1
  <2> QED
    BY <1>1, <2>1, CellsOfTurn
<1>4. n \in 0..n /\ \A k \in 0..n - 1 : k \in 0..n
  BY <1>1
<1>5. c.data[Cell(c, n)] = val /\ \A k \in 0..n - 1 : c.data[Cell(c, k)] = b.data[Cell(b, k)]
  BY <1>1, <1>2, <1>3, <1>4
<1>6. HoldsOnly(c, n + 1)
  <2>1. n + 1 \in 0..c.size /\ (n + 1) - 1 = n
    BY <1>1
  <2>2. ASSUME NEW i \in Slots, \A k \in 0..n : i # Cell(c, k)
        PROVE  c.data[i] = None
    <3>1. i # Cell(b, n) /\ \A k \in 0..n - 1 : i # Cell(b, k)
      BY <1>2, <1>4, <2>2
    <3>2. b.data[i] = None
      BY <3>1 DEF HoldsOnly
    <3> QED
      BY <1>1, <3>1, <3>2
  <2> QED
    BY <2>1, <2>2 DEF HoldsOnly
<1>7. Row(c, n + 1) = Row(b, n) \o <<val>>
  <2> DEFINE r == Row(b, n)
  <2> DEFINE v == <<val>>
  <2>1. r \in Seq(Elements) /\ Len(r) = n /\ \A k \in 1..n : r[k] = b.data[Cell(b, k - 1)]
    BY RowIsSeq
  <2>2. v \in Seq(Elements) /\ Len(v) = 1 /\ v[1] = val
    BY DEF Elements
  <2> DEFINE m == n + 1
  <2>3. /\ Row(c, m) \in Seq(Elements) /\ Len(Row(c, m)) = m
        /\ \A k \in 1..m : Row(c, m)[k] = c.data[Cell(c, k - 1)]
    <3>1. HoldsOnly(c, m)
      BY <1>6
    <3> HIDE DEF m
    <3>2. IsRow(c, m)
      BY <3>1, RowOfBuffer
    <3> QED
      BY <3>2 DEF IsRow
  <2> HIDE DEF r, v
  <2>4. /\ r \o v \in Seq(Elements) /\ Len(r \o v) = n + 1
        /\ \A k \in 1..n + 1 : (r \o v)[k] = IF k <= n THEN r[k] ELSE v[k - n]
    <3>1. /\ r \o v \in Seq(Elements) /\ Len(r \o v) = Len(r) + Len(v)
          /\ \A k \in 1..Len(r) + Len(v) :
               (r \o v)[k] = IF k <= Len(r) THEN r[k] ELSE v[k - Len(r)]
      <4>1. r \in Seq(Elements) /\ v \in Seq(Elements)
        BY <2>1, <2>2
      <4> QED
        BY <4>1, ConcatProperties
    <3> QED
      BY <2>1, <2>2, <3>1
  <2>5. ASSUME NEW k \in 1..n + 1
        PROVE  Row(c, n + 1)[k] = (r \o v)[k]
    <3>1. CASE k <= n
      <4>1. k \in 1..n /\ k - 1 \in 0..n - 1
        BY <1>1, <3>1
      <4>2. c.data[Cell(c, k - 1)] = b.data[Cell(b, k - 1)]
        BY <1>5, <4>1
      <4>3. (r \o v)[k] = r[k] /\ r[k] = b.data[Cell(b, k - 1)]
        BY <2>1, <2>4, <3>1, <4>1
      <4> QED
        BY <2>3, <4>2, <4>3
    <3>2. CASE ~(k <= n)
      <4>1. k = n + 1 /\ k - 1 = n /\ k - n = 1
        BY <1>1, <3>2
      <4>2. (r \o v)[k] = v[1]
        BY <2>4, <3>2, <4>1
      <4>3. c.data[Cell(c, k - 1)] = val
        BY <1>5, <4>1
      <4> QED
        BY <2>2, <2>3, <4>2, <4>3
    <3> QED
      BY <3>1, <3>2
  <2>6. Row(c, n + 1) = r \o v
    BY <2>3, <2>4, <2>5, SeqEqual
  <2> QED
    BY <2>6 DEF r, v
<1> QED
  BY <1>6, <1>7

\* push() at the head: the cell before the first one.
LEMMA PushHead ==
  ASSUME NEW b, NEW n, HoldsOnly(b, n), n < b.size, NEW val \in Values,
         NEW c, IsBuffer(c), c.start = Normalize(b.start - 1, b.size), c.size = b.size,
         c.data = [b.data EXCEPT ![c.start] = val]
  PROVE  HoldsOnly(c, n + 1) /\ Row(c, n + 1) = <<val>> \o Row(b, n)
<1>1. /\ b.size \in Nat \ {0} /\ n \in 0..b.size - 1
      /\ IsBuffer(b) /\ b.data \in [Slots -> Elements]
      /\ c.start \in 1..c.size /\ c.start \in Slots
  BY SizesAssumption DEF HoldsOnly, IsBuffer, Buffers, Slots, Elements
<1>2. Cell(c, 0) = c.start
  <2>1. Cell(c, 0) = Turn(c.start, c.size, 0) /\ c.size \in Nat
    BY <1>1, CellsOfTurn
  <2> QED
    BY <1>1, <2>1 DEF Turn
<1>3. \A k \in 0..n - 1 : Cell(c, k + 1) = Cell(b, k) /\ Cell(b, k) \in Slots
  <2>1. \A k \in 0..n - 1 : k \in 0..b.size - 1 /\ k \in 0..b.size
    BY <1>1
  <2>2. \A k \in 0..c.size - 1 : Cell(b, k) = Cell(c, k + 1)
    BY <1>1, HeadMoves
  <2> QED
    BY <1>1, <2>1, <2>2, CellsOfTurn
<1>4. \A k \in 0..n - 1 : Cell(b, k) # c.start
  <2>1. \A k \in 0..n - 1 : k + 1 \in 0..c.size - 1 /\ 0 \in 0..c.size - 1 /\ k + 1 # 0
    BY <1>1
  <2>2. \A k \in 0..n - 1 : Cell(c, k + 1) # Cell(c, 0)
    BY <2>1, CellsOfTurn
  <2> QED
    BY <1>2, <1>3, <2>2
<1>5. c.data[Cell(c, 0)] = val /\ \A k \in 0..n - 1 : c.data[Cell(c, k + 1)] = b.data[Cell(b, k)]
  BY <1>1, <1>2, <1>3, <1>4
<1>6. HoldsOnly(c, n + 1)
  <2>1. n + 1 \in 0..c.size /\ (n + 1) - 1 = n
    BY <1>1
  <2>2. ASSUME NEW i \in Slots, \A k \in 0..n : i # Cell(c, k)
        PROVE  c.data[i] = None
    <3>1. 0 \in 0..n /\ \A k \in 0..n - 1 : k + 1 \in 0..n
      BY <1>1
    <3>2. i # c.start /\ \A k \in 0..n - 1 : i # Cell(b, k)
      BY <1>2, <1>3, <2>2, <3>1
    <3>3. b.data[i] = None
      BY <3>2 DEF HoldsOnly
    <3> QED
      BY <1>1, <3>2, <3>3
  <2> QED
    BY <2>1, <2>2 DEF HoldsOnly
<1>7. Row(c, n + 1) = <<val>> \o Row(b, n)
  <2> DEFINE r == Row(b, n)
  <2> DEFINE v == <<val>>
  <2>1. r \in Seq(Elements) /\ Len(r) = n /\ \A k \in 1..n : r[k] = b.data[Cell(b, k - 1)]
    BY RowIsSeq
  <2>2. v \in Seq(Elements) /\ Len(v) = 1 /\ v[1] = val
    BY DEF Elements
  <2> DEFINE m == n + 1
  <2>3. /\ Row(c, m) \in Seq(Elements) /\ Len(Row(c, m)) = m
        /\ \A k \in 1..m : Row(c, m)[k] = c.data[Cell(c, k - 1)]
    <3>1. HoldsOnly(c, m)
      BY <1>6
    <3> HIDE DEF m
    <3>2. IsRow(c, m)
      BY <3>1, RowOfBuffer
    <3> QED
      BY <3>2 DEF IsRow
  <2> HIDE DEF r, v
  <2>4. /\ v \o r \in Seq(Elements) /\ Len(v \o r) = n + 1
        /\ \A k \in 1..n + 1 : (v \o r)[k] = IF k <= 1 THEN v[k] ELSE r[k - 1]
    <3>1. /\ v \o r \in Seq(Elements) /\ Len(v \o r) = Len(v) + Len(r)
          /\ \A k \in 1..Len(v) + Len(r) :
               (v \o r)[k] = IF k <= Len(v) THEN v[k] ELSE r[k - Len(v)]
      <4>1. r \in Seq(Elements) /\ v \in Seq(Elements)
        BY <2>1, <2>2
      <4> QED
        BY <4>1, ConcatProperties
    <3>2. 1 + n = n + 1
      BY <1>1
    <3> QED
      BY <2>1, <2>2, <3>1, <3>2
  <2>5. ASSUME NEW k \in 1..n + 1
        PROVE  Row(c, n + 1)[k] = (v \o r)[k]
    <3>1. CASE k <= 1
      <4>1. k = 1 /\ k - 1 = 0
        BY <1>1, <3>1
      <4>2. (v \o r)[k] = v[1]
        BY <2>4, <3>1, <4>1
      <4> QED
        BY <1>5, <2>2, <2>3, <4>1, <4>2
    <3>2. CASE ~(k <= 1)
      <4> DEFINE j == k - 1
      <4>1. j \in 1..n /\ j - 1 \in 0..n - 1 /\ (j - 1) + 1 = j
        BY <1>1, <3>2
      <4>2. (v \o r)[k] = r[j]
        BY <2>4, <3>2
      <4>3. Row(c, n + 1)[k] = c.data[Cell(c, j)]
        BY <2>3
      <4> HIDE DEF j
      <4>4. r[j] = b.data[Cell(b, j - 1)]
        BY <2>1, <4>1
      <4>5. c.data[Cell(c, j)] = b.data[Cell(b, j - 1)]
        BY <1>5, <4>1
      <4> QED
        BY <4>2, <4>3, <4>4, <4>5
    <3> QED
      BY <3>1, <3>2
  <2>6. Row(c, n + 1) = v \o r
    BY <2>3, <2>4, <2>5, SeqEqual
  <2> QED
    BY <2>6 DEF r, v
<1> QED
  BY <1>6, <1>7

\* pull() at the head: its cell is emptied, and the next one is the head.
LEMMA PullHead ==
  ASSUME NEW b, NEW n, HoldsOnly(b, n), n > 0,
         NEW c, IsBuffer(c), c.start = Normalize(b.start + 1, b.size), c.size = b.size,
         c.data = [b.data EXCEPT ![b.start] = None]
  PROVE  /\ HoldsOnly(c, n - 1) /\ Row(c, n - 1) = SubSeq(Row(b, n), 2, n)
         /\ b.data[b.start] = Row(b, n)[1]
<1>1. /\ b.size \in Nat \ {0} /\ n \in 1..b.size
      /\ IsBuffer(b) /\ b.data \in [Slots -> Elements]
      /\ b.start \in 1..b.size /\ b.start \in Slots
  BY SizesAssumption DEF HoldsOnly, IsBuffer, Buffers, Slots, Elements
<1>2. Cell(b, 0) = b.start
  <2>1. Cell(b, 0) = Turn(b.start, b.size, 0)
    BY <1>1, CellsOfTurn
  <2> QED
    BY <1>1, <2>1 DEF Turn
<1>3. \A k \in 0..n - 2 : Cell(c, k) = Cell(b, k + 1) /\ Cell(c, k) \in Slots
  <2>1. \A k \in 0..n - 2 : k \in 0..b.size - 1 /\ k \in 0..b.size
    BY <1>1
  <2>2. \A k \in 0..b.size - 1 : Cell(c, k) = Cell(b, k + 1)
    BY <1>1, HeadMoves
  <2> QED
    BY <2>1, <2>2, CellsOfTurn
<1>4. \A k \in 0..n - 2 : Cell(b, k + 1) # b.start
  <2>1. \A k \in 0..n - 2 : k + 1 \in 0..b.size - 1 /\ 0 \in 0..b.size - 1 /\ k + 1 # 0
    BY <1>1
  <2>2. \A k \in 0..n - 2 : Cell(b, k + 1) # Cell(b, 0)
    BY <1>1, <2>1, CellsOfTurn
  <2> QED
    BY <1>2, <2>2
<1>5. \A k \in 0..n - 2 : c.data[Cell(c, k)] = b.data[Cell(b, k + 1)]
  BY <1>1, <1>3, <1>4
<1>6. HoldsOnly(c, n - 1)
  <2>1. n - 1 \in 0..c.size /\ (n - 1) - 1 = n - 2
    BY <1>1
  <2>2. ASSUME NEW i \in Slots, \A k \in 0..n - 2 : i # Cell(c, k)
        PROVE  c.data[i] = None
    <3>1. CASE i = b.start
      BY <1>1, <3>1
    <3>2. CASE i # b.start
      <4>1. ASSUME NEW k \in 0..n - 1
            PROVE  i # Cell(b, k)
        <5>1. CASE k = 0
          BY <1>2, <3>2, <5>1
        <5>2. CASE k # 0
          <6>1. k - 1 \in 0..n - 2 /\ (k - 1) + 1 = k
            BY <1>1, <5>2
          <6> QED
            BY <1>3, <2>2, <6>1
        <5> QED
          BY <5>1, <5>2
      <4>2. b.data[i] = None
        BY <4>1 DEF HoldsOnly
      <4> QED
        BY <1>1, <3>2, <4>2
    <3> QED
      BY <3>1, <3>2
  <2> QED
    BY <2>1, <2>2 DEF HoldsOnly
<1>7. /\ Row(b, n) \in Seq(Elements)
      /\ \A k \in 1..n : Row(b, n)[k] = b.data[Cell(b, k - 1)] /\ Row(b, n)[k] \in Elements
  <2>1. /\ Row(b, n) \in Seq(Elements) /\ Len(Row(b, n)) = n
        /\ \A k \in 1..n : Row(b, n)[k] = b.data[Cell(b, k - 1)]
    BY RowIsSeq
  <2> QED
    BY <2>1, ElementOfSeq
<1>8. b.data[b.start] = Row(b, n)[1]
  <2>1. 1 \in 1..n /\ 1 - 1 = 0
    BY <1>1
  <2> QED
    BY <1>2, <1>7, <2>1
<1>9. Row(c, n - 1) = SubSeq(Row(b, n), 2, n)
  <2> DEFINE r == Row(b, n)
  <2> DEFINE m == n - 1
  <2> DEFINE q == Row(c, m)
  <2>1. q \in Seq(Elements) /\ Len(q) = m /\ \A k \in 1..m : q[k] = c.data[Cell(c, k - 1)]
    <3>1. HoldsOnly(c, m)
      BY <1>6
    <3> HIDE DEF m
    <3>2. IsRow(c, m)
      BY <3>1, RowOfBuffer
    <3> QED
      BY <3>2 DEF IsRow
  <2>2. \A k \in 2..n : r[k] \in Elements
    <3>1. \A k \in 2..n : k \in 1..n
      BY <1>1
    <3> QED
      BY <1>7, <3>1
  <2>3. \A k \in 1..n : r[k] = b.data[Cell(b, k - 1)]
    BY <1>7
  <2> HIDE DEF r, q
  <2>4. /\ SubSeq(r, 2, n) \in Seq(Elements)
        /\ Len(SubSeq(r, 2, n)) = IF 2 <= n THEN n - 2 + 1 ELSE 0
        /\ \A k \in 1..n - 2 + 1 : SubSeq(r, 2, n)[k] = r[2 + k - 1]
    <3>1. 2 \in Int /\ n \in Int
      BY <1>1
    <3> QED
      BY <2>2, <3>1, SubSeqProperties
  <2>5. Len(SubSeq(r, 2, n)) = n - 1
    BY <1>1, <2>4
  <2>6. ASSUME NEW k \in 1..n - 1
        PROVE  q[k] = SubSeq(r, 2, n)[k]
    <3>1. k \in 1..n - 2 + 1 /\ 2 + k - 1 = k + 1 /\ k + 1 \in 1..n /\ (k + 1) - 1 = k
      BY <1>1
    <3>2. SubSeq(r, 2, n)[k] = b.data[Cell(b, k)]
      BY <2>3, <2>4, <3>1
    <3>3. k - 1 \in 0..n - 2 /\ (k - 1) + 1 = k
      BY <1>1
    <3>4. c.data[Cell(c, k - 1)] = b.data[Cell(b, k)]
      BY <1>5, <3>3
    <3> QED
      BY <2>1, <3>2, <3>4
  <2>7. q = SubSeq(r, 2, n)
    BY <2>1, <2>4, <2>5, <2>6, SeqEqual
  <2> QED
    BY <2>7 DEF r, q
<1> QED
  BY <1>6, <1>8, <1>9

\* pull() at the tail: the last cell is emptied.
LEMMA PullTail ==
  ASSUME NEW b, NEW n, HoldsOnly(b, n), n > 0,
         NEW c, IsBuffer(c), c.start = b.start, c.size = b.size,
         c.data = [b.data EXCEPT ![Cell(b, n - 1)] = None]
  PROVE  /\ HoldsOnly(c, n - 1) /\ Row(c, n - 1) = SubSeq(Row(b, n), 1, n - 1)
         /\ b.data[Cell(b, n - 1)] = Row(b, n)[n]
<1>1. /\ b.size \in Nat \ {0} /\ n \in 1..b.size
      /\ IsBuffer(b) /\ b.data \in [Slots -> Elements]
  BY SizesAssumption DEF HoldsOnly, IsBuffer, Buffers, Slots, Elements
<1>2. \A k \in 0..n - 1 : Cell(c, k) = Cell(b, k) /\ Cell(b, k) \in Slots
  <2>1. \A k \in 0..n - 1 : k \in 0..b.size
    BY <1>1
  <2> QED
    BY <1>1, <2>1, CellsOfTurn DEF Cell
<1>3. \A k \in 0..n - 2 : Cell(b, k) # Cell(b, n - 1)
  <2>1. \A k \in 0..n - 2 : k \in 0..b.size - 1 /\ n - 1 \in 0..b.size - 1 /\ k # n - 1
    BY <1>1
  <2> QED
    BY <1>1, <2>1, CellsOfTurn
<1>4. n - 1 \in 0..n - 1 /\ \A k \in 0..n - 2 : k \in 0..n - 1
  BY <1>1
<1>5. \A k \in 0..n - 2 : c.data[Cell(c, k)] = b.data[Cell(b, k)]
  BY <1>1, <1>2, <1>3, <1>4
<1>6. HoldsOnly(c, n - 1)
  <2>1. n - 1 \in 0..c.size /\ (n - 1) - 1 = n - 2
    BY <1>1
  <2>2. ASSUME NEW i \in Slots, \A k \in 0..n - 2 : i # Cell(c, k)
        PROVE  c.data[i] = None
    <3>1. CASE i = Cell(b, n - 1)
      BY <1>1, <3>1
    <3>2. CASE i # Cell(b, n - 1)
      <4>1. ASSUME NEW k \in 0..n - 1
            PROVE  i # Cell(b, k)
        <5>1. CASE k = n - 1
          BY <3>2, <5>1
        <5>2. CASE k # n - 1
          <6>1. k \in 0..n - 2
            BY <1>1, <5>2
          <6> QED
            BY <1>2, <1>4, <2>2, <6>1
        <5> QED
          BY <5>1, <5>2
      <4>2. b.data[i] = None
        BY <4>1 DEF HoldsOnly
      <4> QED
        BY <1>1, <3>2, <4>2
    <3> QED
      BY <3>1, <3>2
  <2> QED
    BY <2>1, <2>2 DEF HoldsOnly
<1>7. /\ Row(b, n) \in Seq(Elements)
      /\ \A k \in 1..n : Row(b, n)[k] = b.data[Cell(b, k - 1)] /\ Row(b, n)[k] \in Elements
  <2>1. /\ Row(b, n) \in Seq(Elements) /\ Len(Row(b, n)) = n
        /\ \A k \in 1..n : Row(b, n)[k] = b.data[Cell(b, k - 1)]
    BY RowIsSeq
  <2> QED
    BY <2>1, ElementOfSeq
<1>8. b.data[Cell(b, n - 1)] = Row(b, n)[n]
  <2>1. n \in 1..n
    BY <1>1
  <2> QED
    BY <1>7, <2>1
<1>9. Row(c, n - 1) = SubSeq(Row(b, n), 1, n - 1)
  <2> DEFINE r == Row(b, n)
  <2> DEFINE m == n - 1
  <2> DEFINE q == Row(c, m)
  <2>1. q \in Seq(Elements) /\ Len(q) = m /\ \A k \in 1..m : q[k] = c.data[Cell(c, k - 1)]
    <3>1. HoldsOnly(c, m)
      BY <1>6
    <3> HIDE DEF m
    <3>2. IsRow(c, m)
      BY <3>1, RowOfBuffer
    <3> QED
      BY <3>2 DEF IsRow
  <2>2. \A k \in 1..n - 1 : k \in 1..n /\ k - 1 \in 0..n - 2
    BY <1>1
  <2>3. \A k \in 1..n - 1 : r[k] = b.data[Cell(b, k - 1)] /\ r[k] \in Elements
    BY <1>7, <2>2
  <2> HIDE DEF r, q
  <2>4. /\ SubSeq(r, 1, n - 1) \in Seq(Elements)
        /\ Len(SubSeq(r, 1, n - 1)) = IF 1 <= n - 1 THEN (n - 1) - 1 + 1 ELSE 0
        /\ \A k \in 1..(n - 1) - 1 + 1 : SubSeq(r, 1, n - 1)[k] = r[1 + k - 1]
    <3>1. 1 \in Int /\ m \in Int
      BY <1>1
    <3>2. \A k \in 1..m : r[k] \in Elements
      BY <2>3
    <3> HIDE DEF m
    <3>3. /\ SubSeq(r, 1, m) \in Seq(Elements)
          /\ Len(SubSeq(r, 1, m)) = IF 1 <= m THEN m - 1 + 1 ELSE 0
          /\ \A k \in 1..m - 1 + 1 : SubSeq(r, 1, m)[k] = r[1 + k - 1]
      BY <3>1, <3>2, SubSeqProperties
    <3> QED
      BY <3>3 DEF m
  <2>5. Len(SubSeq(r, 1, n - 1)) = n - 1
    BY <1>1, <2>4
  <2>6. ASSUME NEW k \in 1..n - 1
        PROVE  q[k] = SubSeq(r, 1, n - 1)[k]
    <3>1. k \in 1..(n - 1) - 1 + 1 /\ 1 + k - 1 = k
      BY <1>1
    <3>2. SubSeq(r, 1, n - 1)[k] = b.data[Cell(b, k - 1)]
      BY <2>3, <2>4, <3>1
    <3>3. c.data[Cell(c, k - 1)] = b.data[Cell(b, k - 1)]
      BY <1>5, <2>2
    <3> QED
      BY <2>1, <3>2, <3>3
  <2>7. q = SubSeq(r, 1, n - 1)
    BY <2>1, <2>4, <2>5, <2>6, SeqEqual
  <2> QED
    BY <2>7 DEF r, q
<1> QED
  BY <1>6, <1>8, <1>9

-----------------------------------------------------------------------------
\* One element of a sequence, as the deque takes it or looks at it.
LEMMA OneElement ==
  ASSUME NEW s \in Seq(Elements), NEW i \in 1..Len(s)
  PROVE  SubSeq(s, i, i) = <<s[i]>>
<1>1. Len(s) \in Nat /\ i \in Int /\ \A j \in i..i : s[j] \in Elements
  <2>1. Len(s) \in Nat
    BY LenProperties
  <2>2. s[i] \in Elements
    BY ElementOfSeq
  <2> QED
    BY <2>1, <2>2
<1>2. /\ SubSeq(s, i, i) \in Seq(Elements)
      /\ Len(SubSeq(s, i, i)) = IF i <= i THEN i - i + 1 ELSE 0
      /\ \A j \in 1..i - i + 1 : SubSeq(s, i, i)[j] = s[i + j - 1]
  BY <1>1, SubSeqProperties
<1>3. Len(SubSeq(s, i, i)) = 1 /\ SubSeq(s, i, i)[1] = s[i]
  BY <1>1, <1>2
<1>4. <<s[i]>> \in Seq(Elements) /\ Len(<<s[i]>>) = 1 /\ <<s[i]>>[1] = s[i]
  BY <1>1
<1>5. \A j \in 1..Len(SubSeq(s, i, i)) : SubSeq(s, i, i)[j] = <<s[i]>>[j]
  BY <1>3, <1>4
<1> QED
  BY <1>2, <1>3, <1>4, <1>5, SeqEqual

\* The contents are the row of the buffer as it is, and of one that holds the
\* same.
LEMMA ContentsRow ==
  ASSUME TypeOK, FreeSlotsEmpty
  PROVE  /\ HoldsOnly(Here, length) /\ HoldsTheSame(Here)
         /\ \A b : HoldsTheSame(b) => HoldsOnly(b, length) /\ Row(b, length) = Contents
<1>1. /\ length \in 0..size /\ length \in Nat
      /\ \A k \in 0..length - 1 : k \in Nat
      /\ \A k \in 1..length : k - 1 \in 0..length - 1
  BY Numbers
<1>2. \A k \in 0..length - 1 : OffsetIndex(k, start, length, size) = Cell(Here, k)
  BY <1>1, Numbers
<1>3. HoldsOnly(Here, length)
  BY <1>1, <1>2, Numbers DEF HoldsOnly, FreeSlotsEmpty
<1>4. HoldsTheSame(Here)
  BY <1>3, Numbers DEF HoldsTheSame
<1>5. ASSUME NEW b, HoldsTheSame(b)
      PROVE  Row(b, length) = Contents
  BY <1>1, <1>2, <1>5 DEF HoldsTheSame, Row, Contents
<1> QED
  BY <1>3, <1>4, <1>5 DEF HoldsTheSame

\* The state after a step, from the buffer after it.
LEMMA AfterStep ==
  ASSUME HoldsOnly(Here', length'), autogrow' \in BOOLEAN
  PROVE  TypeOK' /\ FreeSlotsEmpty' /\ Contents' = Row(Here', length')
<1>1. /\ Here'.data = data' /\ Here'.start = start' /\ Here'.size = size'
      /\ IsBuffer(Here') /\ length' \in 0..size'
  BY DEF Here, HoldsOnly
<1>2. TypeOK'
  BY <1>1 DEF TypeOK, IsBuffer, Buffers
<1>3. start' \in Int /\ length' \in Nat /\ size' \in Nat
  BY <1>1, SizesAssumption DEF IsBuffer, Buffers, Slots
<1>4. /\ \A k \in 0..length' - 1 : k \in Nat
      /\ \A k \in 1..length' : k - 1 \in Nat
  <2>1. \A l \in Nat : (\A k \in 0..l - 1 : k \in Nat) /\ (\A k \in 1..l : k - 1 \in Nat)
    OBVIOUS
  <2> QED
    BY <1>3, <2>1
<1>5. \A k \in Nat : OffsetIndex(k, start', length', size') = Cell(Here', k)
  BY <1>1, <1>3, OffsetCell DEF Cell
<1>6. FreeSlotsEmpty'
  BY <1>1, <1>4, <1>5 DEF FreeSlotsEmpty, HoldsOnly
<1>7. Contents' = Row(Here', length')
  BY <1>1, <1>4, <1>5 DEF Contents, Row
<1> QED
  BY <1>2, <1>6, <1>7

\* One element is pushed or pulled at a time.
LEMMA SignIsOne == \A sign \in Signs : Abs(sign) = 1
<1>1. \A i \in Int : i + 1 = 0 => -i = 1
  OBVIOUS
<1>2. ASSUME NEW sign \in Signs, sign = -1
      PROVE  Abs(sign) = 1
  <2>1. sign \in Int /\ sign + 1 = 0 /\ sign < 0
    BY <1>2
  <2> QED
    BY <1>1, <2>1 DEF Abs
<1>3. ASSUME NEW sign \in Signs, sign = 1
      PROVE  Abs(sign) = 1
  BY <1>3 DEF Abs
<1> QED
  BY <1>2, <1>3 DEF Signs

\* The first cell of a sweep.
LEMMA FirstCell ==
  ASSUME NEW s, NEW len, NEW n
  PROVE  Segments(s, len, n).i1 = Normalize(s, n)
BY DEF Segments

\* A step of the buffer: the invariant is kept, and it is a step of the deque.
Good == TypeOK /\ FreeSlotsEmpty
Steps == D!Next \/ UNCHANGED D!vars

\* push()
LEMMA PushStep ==
  ASSUME Good, NEW val \in Values, NEW sign \in Signs, PushValue(val, sign)
  PROVE  Good' /\ Steps
<1> DEFINE b == IF autogrow THEN CheckSize(1) ELSE [data |-> data, start |-> start, size |-> size]
<1>1. b.size <= MaxSize
  BY DEF PushValue
<1>2. HoldsTheSame(b)
  <2>1. CASE autogrow
    <3>1. 1 \in 1..MaxSize /\ (length > 0 \/ 1 <= size - length)
      BY Numbers DEF Good
    <3> QED
      BY <1>1, <2>1, <3>1, CheckSizeKeeps DEF Good
  <2>2. CASE ~autogrow
    BY <2>2, ContentsRow DEF Good, Here
  <2> QED
    BY <2>1, <2>2
<1>3. /\ HoldsOnly(b, length) /\ Row(b, length) = Contents
      /\ IsBuffer(b) /\ b.size \in Nat \ {0} /\ length \in 0..b.size
  BY <1>2, ContentsRow, SizesAssumption DEF Good, HoldsOnly, IsBuffer, Buffers, Slots
<1>4. autogrow' \in BOOLEAN /\ size' = b.size
  BY DEF PushValue, Good, TypeOK
<1> DEFINE p == Push(sign, b.start, length, b.size)
<1>5. CASE ~MayPush(sign, length, b.size)
  <2>1. /\ io' = Call("error", PushEnd(sign), <<>>)
        /\ start' = start /\ length' = length /\ data' = b.data
    BY <1>5 DEF PushValue
  <2>2. ~(1 <= b.size - length)
    BY <1>5, SignIsOne DEF MayPush
  <2>3. ~autogrow
    <3> SUFFICES ASSUME autogrow
                 PROVE  FALSE
      OBVIOUS
    <3>1. b.size = IF 1 <= size - length THEN size ELSE Greatest(size * 2, length + 1)
      BY DEF CheckSize
    <3> QED
      BY <2>2, <3>1, Numbers DEF Good, Greatest
  <2>4. b = Here
    BY <2>3 DEF Here
  <2>5. Here' = b
    BY <1>4, <2>1, <2>3 DEF Here
  <2>6. Good' /\ Contents' = Contents
    BY <1>3, <1>4, <2>1, <2>5, AfterStep DEF Good
  <2>7. D!Fail
    BY <2>1, <2>6 DEF D!Fail, Call
  <2>8. D!Next
    BY <2>7 DEF D!Next
  <2> QED
    BY <2>6, <2>8 DEF Steps
<1>6. CASE MayPush(sign, length, b.size)
  <2>1. length < b.size
    BY <1>3, <1>6, SignIsOne DEF MayPush, IsBuffer
  <2>2. /\ data' = [b.data EXCEPT ![p.segs.i1] = val]
        /\ start' = p.start /\ length' = p.length
        /\ io' = Call("push", PushEnd(sign), <<val>>)
    BY <1>6 DEF PushValue
  <2>3. Here'.data = data' /\ Here'.start = start' /\ Here'.size = size'
    BY DEF Here
  <2>4. CASE sign = 1
    <3>1. p = [start |-> b.start, length |-> length + 1,
               segs |-> Segments(b.start + length, 1, b.size)]
      BY <1>3, <2>4 DEF Push, Abs
    <3>2. p.segs.i1 = Cell(b, length)
      BY <3>1, FirstCell DEF Cell
    <3>3. p.start = b.start /\ p.length = length + 1
      BY <3>1
    <3> HIDE DEF b, p
    <3>4. IsBuffer(Here')
      <4>1. Cell(b, length) \in Slots
        BY <1>3, CellsOfTurn
      <4> QED
        BY <1>3, <1>4, <2>2, <2>3, <3>2, <3>3, <4>1 DEF IsBuffer, Buffers, Here
    <3>5. /\ Here'.start = b.start /\ Here'.size = b.size
          /\ Here'.data = [b.data EXCEPT ![Cell(b, length)] = val]
      BY <1>4, <2>2, <2>3, <3>2, <3>3
    <3>6. HoldsOnly(Here', length + 1) /\ Row(Here', length + 1) = Contents \o <<val>>
      BY <1>3, <2>1, <3>4, <3>5, PushTail
    <3>7. Good' /\ Contents' = Contents \o <<val>>
      BY <1>4, <2>2, <3>3, <3>6, AfterStep DEF Good
    <3>8. D!Add("tail", <<val>>)
      BY <2>2, <2>4, <3>7 DEF D!Add, D!Call, Call, PushEnd
    <3>9. D!Next
      BY <3>8 DEF D!Next
    <3> QED
      BY <3>7, <3>9 DEF Steps
  <2>5. CASE sign = -1
    <3>1. b.start + sign = b.start - 1
      <4>1. b.start \in Int
        BY <1>3 DEF IsBuffer
      <4> HIDE DEF b
      <4> QED
        BY <2>5, <4>1
    <3>2. p = [start |-> Normalize(b.start + sign, b.size), length |-> length + Abs(sign),
               segs |-> Segments(b.start - 1, sign, b.size)]
      BY <2>5 DEF Push
    <3>3. Abs(sign) = 1
      BY SignIsOne
    <3>4. /\ p.segs.i1 = Normalize(b.start - 1, b.size)
          /\ p.start = Normalize(b.start - 1, b.size) /\ p.length = length + 1
      BY <2>5, <3>1, <3>2, <3>3, FirstCell
    <3> HIDE DEF b, p
    <3>5. Normalize(b.start - 1, b.size) \in 1..b.size
      BY <1>3 DEF Normalize, IsBuffer
    <3>6. IsBuffer(Here')
      <4>1. b.size \in 1..MaxSize /\ 1..b.size \subseteq Slots
        BY <1>3, SizesAssumption DEF IsBuffer, Buffers, Slots
      <4> QED
        BY <1>3, <1>4, <2>2, <2>3, <3>4, <3>5, <4>1 DEF IsBuffer, Buffers, Here
    <3>7. /\ Here'.start = Normalize(b.start - 1, b.size) /\ Here'.size = b.size
          /\ Here'.data = [b.data EXCEPT ![Here'.start] = val]
      BY <1>4, <2>2, <2>3, <3>4
    <3>8. HoldsOnly(Here', length + 1) /\ Row(Here', length + 1) = <<val>> \o Contents
      BY <1>3, <2>1, <3>6, <3>7, PushHead
    <3>9. Good' /\ Contents' = <<val>> \o Contents
      BY <1>4, <2>2, <3>4, <3>8, AfterStep DEF Good
    <3>10. D!Add("head", <<val>>)
      BY <2>2, <2>5, <3>9 DEF D!Add, D!Call, Call, PushEnd
    <3>11. D!Next
      BY <3>10 DEF D!Next
    <3> QED
      BY <3>9, <3>11 DEF Steps
  <2> QED
    BY <2>4, <2>5 DEF Signs
<1> QED
  BY <1>5, <1>6

\* pull()
LEMMA PullStep ==
  ASSUME Good, NEW sign \in Signs, NEW keep \in BOOLEAN, PullValue(sign, keep)
  PROVE  Good' /\ Steps
<1> DEFINE b == Here
<1> DEFINE p == Pull(sign, start, length, size)
<1>1. /\ b.start = start /\ b.size = size /\ b.data = data
      /\ HoldsOnly(b, length) /\ Row(b, length) = Contents
      /\ IsBuffer(b) /\ size \in Nat \ {0} /\ length \in 0..size /\ start \in 1..size
      /\ 1..size \subseteq Slots
  BY ContentsRow, Numbers DEF Good
<1>2. /\ Here'.data = data' /\ Here'.start = start' /\ Here'.size = size'
      /\ size' = size /\ autogrow' \in BOOLEAN
  BY DEF Here, PullValue, Good, TypeOK
<1>3. MayPull(sign, length) <=> length > 0
  BY <1>1, SignIsOne DEF MayPull
<1> HIDE DEF b
<1>4. CASE ~MayPull(sign, length)
  <2>1. /\ io' = Call("error", PullEnd(sign), <<>>)
        /\ start' = start /\ length' = length /\ data' = data
    BY <1>4 DEF PullValue
  <2>2. Here' = b
    BY <1>2, <2>1 DEF b, Here
  <2>3. Good' /\ Contents' = Contents
    BY <1>1, <1>2, <2>1, <2>2, AfterStep DEF Good
  <2>4. D!Fail
    BY <2>1, <2>3 DEF D!Fail, Call
  <2>5. D!Next
    BY <2>4 DEF D!Next
  <2> QED
    BY <2>3, <2>5 DEF Steps
<1>5. CASE MayPull(sign, length)
  <2>1. /\ length > 0 /\ 1 \in 1..length /\ length \in 1..length
        /\ length - 1 \in 0..b.size
    BY <1>1, <1>3, <1>5
  <2>2. Contents \in Seq(Elements) /\ Len(Contents) = length
    BY <1>1, RowIsSeq
  <2> DEFINE i == IF sign = 1 THEN start ELSE Cell(b, length - 1)
  <2>3. p.segs.i1 = i
    <3>1. CASE sign = 1
      <4>1. p.segs.i1 = Normalize(start, size)
        BY <3>1, FirstCell DEF Pull
      <4>2. start \in 1 - size..2 * size
        BY <1>1
      <4>3. Normalize(start, size) = start
        BY <1>1, <4>2, NormalizeNear
      <4> QED
        BY <3>1, <4>1, <4>3
    <3>2. CASE sign = -1
      <4>1. p.segs.i1 = Normalize(start + length - 1, size)
        BY <3>2, FirstCell DEF Pull
      <4>2. start + length - 1 = start + (length - 1)
        BY <1>1
      <4> QED
        BY <1>1, <3>2, <4>1, <4>2 DEF Cell
    <3> QED
      BY <3>1, <3>2 DEF Signs
  <2>4. /\ sign = 1 => data[i] = Contents[1]
        /\ sign = -1 => data[i] = Contents[length]
    <3>1. 1 - 1 = 0 /\ Row(b, length)[1] = b.data[Cell(b, 1 - 1)]
             /\ Row(b, length)[length] = b.data[Cell(b, length - 1)]
      BY <1>1, <2>1, RowIsSeq
    <3>2. Cell(b, 0) = start
      <4>1. Cell(b, 0) = Turn(start, size, 0)
        BY <1>1, CellsOfTurn
      <4> QED
        BY <1>1, <4>1 DEF Turn
    <3> QED
      BY <1>1, <3>1, <3>2
  <2>5. io' = Call(IF keep THEN "keep" ELSE "pull", PullEnd(sign), <<data[i]>>)
    BY <1>5, <2>3 DEF PullValue
  <2>6. /\ sign = 1 => D!First(1) = <<data[i]>>
        /\ sign = -1 => D!Last(1) = <<data[i]>>
    <3>1. SubSeq(Contents, 1, 1) = <<Contents[1]>>
      BY <2>1, <2>2, OneElement
    <3>2. SubSeq(Contents, length, length) = <<Contents[length]>>
      BY <2>1, <2>2, OneElement
    <3>3. Len(Contents) - 1 + 1 = length
      BY <1>1, <2>2
    <3> QED
      BY <2>2, <2>4, <3>1, <3>2, <3>3 DEF D!First, D!Last
  <2>7. PullEnd(sign) = IF sign = 1 THEN "head" ELSE "tail"
    BY DEF PullEnd
  <2>8. 1 \in 1..Len(Contents)
    BY <2>1, <2>2
  <2> HIDE DEF i, p
  <2>9. CASE keep
    <3>1. data' = data /\ start' = start /\ length' = length
      BY <1>5, <2>9 DEF PullValue
    <3>2. Here' = b
      BY <1>2, <3>1 DEF b, Here
    <3>3. Good' /\ Contents' = Contents
      BY <1>1, <1>2, <3>1, <3>2, AfterStep DEF Good
    <3>4. D!Look(PullEnd(sign), 1)
      BY <2>5, <2>6, <2>7, <2>9, <3>3 DEF D!Look, D!Call, Call, Signs
    <3>5. D!Next
      BY <2>7, <2>8, <3>4 DEF D!Next
    <3> QED
      BY <3>3, <3>5 DEF Steps
  <2>10. CASE ~keep
    <3>1. data' = [data EXCEPT ![i] = None] /\ start' = p.start /\ length' = p.length
      BY <1>5, <2>3, <2>10 DEF PullValue, p
    <3>2. p.length = length - 1
      BY SignIsOne DEF p, Pull
    <3>3. data' \in [Slots -> Values \cup {None}]
      BY <3>1 DEF Good, TypeOK
    <3>4. ASSUME start' \in 1..size
          PROVE  IsBuffer(Here')
      BY <1>1, <1>2, <3>3, <3>4 DEF IsBuffer, Buffers, Here
    <3>5. CASE sign = 1
      <4>1. start' = Normalize(start + 1, size)
        BY <3>1, <3>5 DEF p, Pull
      <4>2. Normalize(start + 1, size) \in 1..size
        BY <1>1 DEF Normalize
      <4>3. i = start
        BY <3>5 DEF i
      <4>4. IsBuffer(Here')
        BY <3>4, <4>1, <4>2
      <4>5. /\ HoldsOnly(Here', length - 1)
            /\ Row(Here', length - 1) = SubSeq(Contents, 2, length)
        <5>1. /\ Here'.start = Normalize(b.start + 1, b.size) /\ Here'.size = b.size
              /\ Here'.data = [b.data EXCEPT ![b.start] = None]
          BY <1>1, <1>2, <3>1, <4>1, <4>3
        <5>2. /\ HoldsOnly(Here', length - 1)
              /\ Row(Here', length - 1) = SubSeq(Row(b, length), 2, length)
          BY <1>1, <2>1, <4>4, <5>1, PullHead
        <5> QED
          BY <1>1, <5>2
      <4>6. Good' /\ Contents' = SubSeq(Contents, 2, length)
        BY <1>2, <3>1, <3>2, <4>5, AfterStep DEF Good
      <4>7. D!Take("head", 1)
        BY <2>2, <2>5, <2>6, <2>7, <2>10, <3>5, <4>6 DEF D!Take, D!AllBut, D!Call, Call
      <4>8. D!Next
        BY <2>8, <4>7 DEF D!Next
      <4> QED
        BY <4>6, <4>8 DEF Steps
    <3>6. CASE sign = -1
      <4>1. start' = start
        BY <3>1, <3>6 DEF p, Pull
      <4>2. i = Cell(b, length - 1)
        BY <3>6 DEF i
      <4>3. IsBuffer(Here')
        BY <1>1, <3>4, <4>1
      <4>4. /\ HoldsOnly(Here', length - 1)
            /\ Row(Here', length - 1) = SubSeq(Contents, 1, length - 1)
        <5>1. /\ Here'.start = b.start /\ Here'.size = b.size
              /\ Here'.data = [b.data EXCEPT ![Cell(b, length - 1)] = None]
          BY <1>1, <1>2, <3>1, <4>1, <4>2
        <5>2. /\ HoldsOnly(Here', length - 1)
              /\ Row(Here', length - 1) = SubSeq(Row(b, length), 1, length - 1)
          BY <1>1, <2>1, <4>3, <5>1, PullTail
        <5> QED
          BY <1>1, <5>2
      <4>5. Good' /\ Contents' = SubSeq(Contents, 1, length - 1)
        BY <1>2, <3>1, <3>2, <4>4, AfterStep DEF Good
      <4>6. D!Take("tail", 1)
        BY <2>2, <2>5, <2>6, <2>7, <2>10, <3>6, <4>5 DEF D!Take, D!AllBut, D!Call, Call
      <4>7. D!Next
        BY <2>8, <4>6 DEF D!Next
      <4> QED
        BY <4>5, <4>7 DEF Steps
    <3> QED
      BY <3>5, <3>6 DEF Signs
  <2> QED
    BY <2>9, <2>10
<1> QED
  BY <1>4, <1>5

\* checksize() called by the program.
LEMMA GrowStep ==
  ASSUME Good, ~GrowsEmpty, NEW len \in 1..MaxSize, Grow(len)
  PROVE  Good' /\ Steps
<1> DEFINE b == CheckSize(len)
<1>1. /\ length > 0 /\ b.size <= MaxSize
      /\ data' = b.data /\ start' = b.start /\ size' = b.size
      /\ length' = length /\ autogrow' = autogrow /\ io' = io
  BY DEF Grow
<1>2. HoldsTheSame(b)
  BY <1>1, CheckSizeKeeps DEF Good
<1>3. HoldsOnly(b, length) /\ Row(b, length) = Contents
  BY <1>2, ContentsRow DEF Good
<1>4. b = [data |-> b.data, start |-> b.start, size |-> b.size]
  BY DEF CheckSize
<1>5. Here' = b
  BY <1>1, <1>4 DEF Here
<1> HIDE DEF b
<1>6. Good' /\ Contents' = Contents
  BY <1>1, <1>3, <1>5, AfterStep DEF Good, TypeOK
<1> QED
  BY <1>1, <1>6 DEF Steps, D!vars

\* Every step of a program that does not call checksize() on an empty buffer.
LEMMA GoodStep ==
  ASSUME Good, ~GrowsEmpty, [Next]_vars
  PROVE  Good' /\ Steps
<1>1. ASSUME SetAutogrow \/ UNCHANGED vars
      PROVE  Good' /\ Steps
  <2>1. UNCHANGED <<data, start, length, size, io>> /\ autogrow' \in BOOLEAN
    BY <1>1 DEF SetAutogrow, vars, Good, TypeOK
  <2>2. Good'
    BY <2>1 DEF Good, TypeOK, FreeSlotsEmpty
  <2>3. Contents' = Contents
    BY <2>1 DEF Contents
  <2> QED
    BY <2>1, <2>2, <2>3 DEF Steps, D!vars
<1> QED
  BY <1>1, PushStep, PullStep, GrowStep DEF Next

\* A new buffer holds what it was filled with, and nothing else.
LEMMA GoodInit == ASSUME Init PROVE Good
<1>1. TypeOK
  BY SizesAssumption DEF Init, TypeOK, Slots
<1>2. FreeSlotsEmpty
  BY DEF Init, FreeSlotsEmpty
<1> QED
  BY <1>1, <1>2 DEF Good

\* The invariant of the buffer.
LEMMA AlwaysGood == ~GrowsEmpty => (Spec => []Good)
<1> SUFFICES ASSUME ~GrowsEmpty
             PROVE  Spec => []Good
  OBVIOUS
<1>1. Init => Good
  BY GoodInit
<1>2. Good /\ [Next]_vars => Good'
  BY GoodStep
<1> QED
  BY <1>1, <1>2, PTL DEF Spec

\* Type correctness: through wraps and moves, the head stays on the circle,
\* the length within it and the circle within the table.
THEOREM TypeCorrect == ~GrowsEmpty => (Spec => []TypeOK)
<1>1. Good => TypeOK
  BY DEF Good
<1> QED
  BY <1>1, AlwaysGood, PTL

\* A value that was pulled, or moved by checksize(), is not kept in its slot.
THEOREM NothingKept == ~GrowsEmpty => (Spec => []FreeSlotsEmpty)
<1>1. Good => FreeSlotsEmpty
  BY DEF Good
<1> QED
  BY <1>1, AlwaysGood, PTL

\* The buffer is a deque: push(), pull() and their variants with keep and
\* from the other end work on one sequence, which wraps and the moves of
\* checksize() leave as it is.
THEOREM BufferIsDeque == ~GrowsEmpty => (Spec => ImplementsDeque)
<1> SUFFICES ASSUME ~GrowsEmpty
             PROVE  Spec => ImplementsDeque
  OBVIOUS
<1>1. Init => D!Init
  BY DEF Init, D!Init, D!Call, Call
<1>2. Good /\ [Next]_vars => [D!Next]_(D!vars)
  BY GoodStep DEF Steps
<1> QED
  BY <1>1, <1>2, AlwaysGood, PTL DEF Spec, ImplementsDeque, D!Spec
=============================================================================
