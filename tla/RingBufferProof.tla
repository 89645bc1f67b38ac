--------------------------- MODULE RingBufferProof ---------------------------
(***************************************************************************)
(* Proofs about the ring buffer algorithm for buffers of every size, and   *)
(* about cdatabuffer, which moves its elements by the segments that the    *)
(* algorithm returns.                                                      *)
(*                                                                         *)
(* The argument.  The remainder of a division is the only number below the *)
(* divisor that differs from the dividend by a multiple of it (ModUnique). *)
(* So a walk of j cells over the circle, with j less than a whole turn,    *)
(* either stays in 1..size or leaves it on one side, and is then brought   *)
(* back by exactly one turn (NormalizeWalk).  The two arcs of segments()   *)
(* are the part of the sweep that stays and the part that is brought back. *)
(* The cells of less than a turn are all different (ArcInjective), so what *)
(* push() and pull() do to the occupied cells is arithmetic on the two     *)
(* ends of an arc (ArcParts, ArcMoved).                                    *)
(*                                                                         *)
(* Counted from 0 and with positive lengths, two segments are a list of    *)
(* cells: the arc's in order if they were swept forwards (SegsForwards),   *)
(* the arc's in some order if backwards (SegsBackwards).  write() and      *)
(* read() move a batch over these cells (WrittenCells, ReadCells), so that *)
(* push(), pull() and checksize() are known by the elements from head to   *)
(* tail that they keep, add and return (TailPushed ... CheckSizeKeeps),    *)
(* and these by sequences (RowAppended ... RowWithoutLast).                *)
(***************************************************************************)
EXTENDS RingBuffer, CDataBuffer, SequenceTheorems, TLAPS

\* The remainder is unique.
LEMMA ModUnique ==
  ASSUME NEW n \in Nat \ {0}, NEW q \in Int, NEW r \in 0..n - 1
  PROVE  (n * q + r) % n = r
<1> DEFINE a == n * q + r
<1> DEFINE p == a \div n
<1>1. a \in Int /\ p \in Int /\ a % n \in 0..n - 1
  OBVIOUS
<1>2. a = n * p + (a % n)
  OBVIOUS
<1>3. n * (q - p) = (a % n) - r
  BY <1>1, <1>2
<1>4. CASE q = p
  BY <1>2, <1>4
<1>5. CASE q > p
  <2>1. n * (q - p) >= n
    BY <1>1, <1>5
  <2> QED
    BY <1>1, <1>3, <2>1
<1>6. CASE q < p
  <2>1. n * (q - p) <= -n
    BY <1>1, <1>6
  <2> QED
    BY <1>1, <1>3, <2>1
<1> QED
  BY <1>1, <1>4, <1>5, <1>6

\* normalize() gives a cell, a number of turns away.
LEMMA NormalizeCell ==
  ASSUME NEW n \in Nat \ {0}, NEW s \in Int
  PROVE  /\ Normalize(s, n) \in 1..n
         /\ \E q \in Int : s = n * q + Normalize(s, n)
<1> DEFINE q == (s - 1) \div n
<1> DEFINE r == (s - 1) % n
<1>1. q \in Int /\ r \in 0..n - 1 /\ s - 1 = n * q + r
  OBVIOUS
<1>2. n * q \in Int
  BY <1>1
<1>3. Normalize(s, n) = r + 1
  BY DEF Normalize
<1> HIDE DEF q, r
<1>4. s = n * q + (r + 1)
  BY <1>1, <1>2
<1> QED
  BY <1>1, <1>3, <1>4

\* A cell is the normal form of what is a number of turns away from it.
LEMMA NormalizeTurns ==
  ASSUME NEW n \in Nat \ {0}, NEW q \in Int, NEW c \in 1..n
  PROVE  Normalize(n * q + c, n) = c
<1>1. c - 1 \in 0..n - 1
  OBVIOUS
<1>2. (n * q + (c - 1)) % n = c - 1
  BY <1>1, ModUnique
<1>3. n * q \in Int
  OBVIOUS
<1>4. n * q + c - 1 = n * q + (c - 1)
  BY <1>3
<1> QED
  BY <1>2, <1>4 DEF Normalize

\* A walk of j cells, less than a turn, from the cell i of s.
LEMMA NormalizeWalk ==
  ASSUME NEW n \in Nat \ {0}, NEW s \in Int, NEW j \in Int,
         NEW i \in 1..n, i = Normalize(s, n)
  PROVE  Normalize(s + j, n) = IF i + j \in 1..n THEN i + j
                               ELSE IF i + j \in n + 1..2 * n THEN i + j - n
                               ELSE IF i + j \in 1 - n..0 THEN i + j + n
                               ELSE Normalize(s + j, n)
<1>1. PICK q \in Int : s = n * q + i
  BY NormalizeCell
<1>2. /\ n * q \in Int
      /\ n * (q + 1) = n * q + n
      /\ n * (q - 1) = n * q - n
  OBVIOUS
<1>3. /\ s + j = n * q + (i + j)
      /\ s + j = n * (q + 1) + (i + j - n)
      /\ s + j = n * (q - 1) + (i + j + n)
  BY <1>1, <1>2
<1>4. ASSUME i + j \in 1..n
      PROVE  Normalize(s + j, n) = i + j
  BY <1>3, <1>4, NormalizeTurns
<1>5. ASSUME i + j \in n + 1..2 * n
      PROVE  Normalize(s + j, n) = i + j - n
  <2>1. i + j - n \in 1..n /\ q + 1 \in Int
    BY <1>5
  <2> QED
    BY <1>3, <2>1, NormalizeTurns
<1>6. ASSUME i + j \in 1 - n..0
      PROVE  Normalize(s + j, n) = i + j + n
  <2>1. i + j + n \in 1..n /\ q - 1 \in Int
    BY <1>6
  <2> QED
    BY <1>3, <2>1, NormalizeTurns
<1> QED
  BY <1>4, <1>5, <1>6

\* segments() forwards: the two arcs sweep the cells of the arc, in order.
LEMMA SweepForwards ==
  ASSUME NEW n \in Nat \ {0}, NEW s \in Int, NEW len \in 1..n
  PROVE  LET segs == Segments(s, len, n) IN
         /\ Abs(segs.n1) + Abs(segs.n2) = len
         /\ \A k \in 0..len - 1 : SweptCell(segs, 1, k) = ArcCell(s, 1, k, n)
<1> DEFINE i == Normalize(s, n)
<1> DEFINE segs == Segments(s, len, n)
<1>1. i \in 1..n
  BY NormalizeCell
<1>2. /\ segs.i1 = i /\ segs.n1 = Least(len, n + 1 - i)
      /\ segs.i2 = 1 /\ segs.n2 = Greatest(0, len - (n + 1 - i))
  BY DEF Segments
<1>3. \A k \in 0..len - 1 :
        Normalize(s + k, n) = IF i + k <= n THEN i + k ELSE i + k - n
  <2> TAKE k \in 0..len - 1
  <2>1. k \in Int /\ i + k \in 1..2 * n
    BY <1>1
  <2>2. i = Normalize(s, n)
    OBVIOUS
  <2> HIDE DEF i
  <2>3. Normalize(s + k, n) = IF i + k \in 1..n THEN i + k
                              ELSE IF i + k \in n + 1..2 * n THEN i + k - n
                              ELSE IF i + k \in 1 - n..0 THEN i + k + n
                              ELSE Normalize(s + k, n)
    BY <1>1, <2>1, <2>2, NormalizeWalk
  <2> QED
    BY <1>1, <2>1, <2>3
<1> HIDE DEF i, segs
<1>4. Abs(segs.n1) + Abs(segs.n2) = len
  BY <1>1, <1>2 DEF Abs, Least, Greatest
<1>5. \A k \in 0..len - 1 : SweptCell(segs, 1, k) = IF i + k <= n THEN i + k ELSE i + k - n
  BY <1>1, <1>2 DEF SweptCell, Abs, Least, Greatest
<1>6. \A k \in 0..len - 1 : ArcCell(s, 1, k, n) = Normalize(s + k, n)
  <2> TAKE k \in 0..len - 1
  <2>1. s + 1 * k = s + k
    OBVIOUS
  <2> QED
    BY <2>1 DEF ArcCell
<1> QED
  BY <1>3, <1>4, <1>5, <1>6 DEF segs

\* segments() backwards.
LEMMA SweepBackwards ==
  ASSUME NEW n \in Nat \ {0}, NEW s \in Int, NEW len \in -n..0
  PROVE  LET segs == Segments(s, len, n) IN
         /\ Abs(segs.n1) + Abs(segs.n2) = -len
         /\ \A k \in 0..-len - 1 : SweptCell(segs, -1, k) = ArcCell(s, -1, k, n)
<1> DEFINE i == Normalize(s, n)
<1> DEFINE segs == Segments(s, len, n)
<1>1. i \in 1..n
  BY NormalizeCell
<1>2. /\ segs.i1 = i /\ segs.n1 = Greatest(len, -i)
      /\ segs.i2 = n /\ segs.n2 = Least(0, len - (-i))
  BY DEF Segments
<1>3. \A k \in 0..-len - 1 :
        Normalize(s - k, n) = IF i - k >= 1 THEN i - k ELSE i - k + n
  <2> TAKE k \in 0..-len - 1
  <2> DEFINE j == -k
  <2>1. j \in Int /\ i + j \in 1 - n..n
    BY <1>1
  <2>2. i = Normalize(s, n)
    OBVIOUS
  <2>3. s - k = s + j /\ i - k = i + j
    BY <1>1
  <2> HIDE DEF i, j
  <2>4. Normalize(s + j, n) = IF i + j \in 1..n THEN i + j
                              ELSE IF i + j \in n + 1..2 * n THEN i + j - n
                              ELSE IF i + j \in 1 - n..0 THEN i + j + n
                              ELSE Normalize(s + j, n)
    BY <1>1, <2>1, <2>2, NormalizeWalk
  <2> QED
    BY <1>1, <2>1, <2>3, <2>4
<1> HIDE DEF i, segs
<1>4. Abs(segs.n1) + Abs(segs.n2) = -len
  BY <1>1, <1>2 DEF Abs, Least, Greatest
<1>5. \A k \in 0..-len - 1 : SweptCell(segs, -1, k) = IF i - k >= 1 THEN i - k ELSE i - k + n
  BY <1>1, <1>2 DEF SweptCell, Abs, Least, Greatest
<1>6. \A k \in 0..-len - 1 : ArcCell(s, -1, k, n) = Normalize(s - k, n)
  <2> TAKE k \in 0..-len - 1
  <2>1. s + (-1) * k = s - k
    OBVIOUS
  <2> QED
    BY <2>1 DEF ArcCell
<1> QED
  BY <1>3, <1>4, <1>5, <1>6 DEF segs

-----------------------------------------------------------------------------
\* push() and pull() keep the tuple in range: the head in 1..size although
\* only its moves are normalised, the length within the buffer.
THEOREM TupleCorrect == TupleSpec => []TupleOK
<1>1. TupleInit => TupleOK
  BY SizesAssumption DEF TupleInit, TupleOK
<1>2. TupleOK /\ [TupleNext]_tuple => TupleOK'
  <2> SUFFICES ASSUME TupleOK, [TupleNext]_tuple
               PROVE  TupleOK'
    OBVIOUS
  <2>1. /\ size \in Nat \ {0} /\ size \in RingSizes
        /\ start \in 1..size /\ length \in 0..size
    BY SizesAssumption DEF TupleOK
  <2>2. \A j \in Int : Normalize(start + j, size) \in 1..size
    <3> TAKE j \in Int
    <3>1. start + j \in Int
      BY <2>1
    <3> QED
      BY <2>1, <3>1, NormalizeCell
  <2>3. ASSUME NEW len \in -size..size, PushStep(len)
        PROVE  TupleOK'
    BY <2>1, <2>2, <2>3 DEF TupleOK, PushStep, Push, MayPush, Abs
  <2>4. ASSUME NEW len \in -size..size, PullStep(len)
        PROVE  TupleOK'
    BY <2>1, <2>2, <2>4 DEF TupleOK, PullStep, Pull, MayPull, Abs
  <2>5. CASE UNCHANGED tuple
    BY <2>5 DEF tuple, TupleOK
  <2> QED
    BY <2>3, <2>4, <2>5 DEF TupleNext
<1> QED
  BY <1>1, <1>2, PTL DEF TupleSpec

\* segments() maps any arc of at most a turn to its cells, in order, in a
\* buffer of any size.
THEOREM SweepsEveryArc == TupleSpec => []SweepsArc
<1>1. TupleOK => SweepsArc
  <2> SUFFICES ASSUME TupleOK, NEW len \in -size..size
               PROVE  LET segs == Segments(start, len, size) IN
                      /\ Abs(segs.n1) + Abs(segs.n2) = Abs(len)
                      /\ \A k \in 0..Abs(len) - 1 :
                           SweptCell(segs, DirOf(len), k) = ArcCell(start, DirOf(len), k, size)
    BY DEF SweepsArc
  <2>1. size \in Nat \ {0} /\ start \in Int
    BY SizesAssumption DEF TupleOK
  <2>2. CASE len > 0
    <3>1. len \in 1..size /\ Abs(len) = len /\ DirOf(len) = 1
      BY <2>1, <2>2 DEF Abs, DirOf
    <3> QED
      BY <2>1, <3>1, SweepForwards
  <2>3. CASE len < 0
    <3>1. len \in -size..0 /\ Abs(len) = -len /\ DirOf(len) = -1
      BY <2>1, <2>3 DEF Abs, DirOf
    <3> QED
      BY <2>1, <3>1, SweepBackwards
  <2>4. CASE len = 0
    <3>1. Abs(len) = 0 /\ 0..Abs(len) - 1 = {}
      BY <2>4 DEF Abs
    <3>2. 0 \in -size..0
      BY <2>1
    <3>3. LET segs == Segments(start, 0, size) IN Abs(segs.n1) + Abs(segs.n2) = -0
      BY <2>1, <3>2, SweepBackwards
    <3> QED
      BY <2>4, <3>1, <3>3
  <2> QED
    BY <2>1, <2>2, <2>3, <2>4
<1> QED
  BY <1>1, TupleCorrect, PTL

-----------------------------------------------------------------------------
(***************************************************************************)
(* The cells from an offset to another, in whatever turn.  Less than a     *)
(* turn of them are all different (ArcInjective), so that what push() adds *)
(* to the buffer and what pull() takes from it can be told by offsets.     *)
(***************************************************************************)
Arc(s, from, to, n) == {Normalize(s + m, n) : m \in from..to - 1}

\* The hypotheses of ArcMoved and ArcParts, by name.
Moved(a, b, by) == a \in Int /\ by \in Int /\ b = a + by
Nested(c, d, n) == n \in Nat \ {0} /\ d \in 0..n /\ c \in 0..d

\* Whole turns do not matter.
LEMMA NormalizeShift ==
  ASSUME NEW n \in Nat \ {0}, NEW q \in Int, NEW s \in Int
  PROVE  Normalize(n * q + s, n) = Normalize(s, n)
<1>1. PICK p \in Int : s = n * p + Normalize(s, n)
  BY NormalizeCell
<1>2. Normalize(s, n) \in 1..n
  BY NormalizeCell
<1> DEFINE c == Normalize(s, n)
<1> HIDE DEF c
<1>3. n * q + (n * p + c) = n * (q + p) + c /\ q + p \in Int
  BY <1>1, <1>2 DEF c
<1>4. Normalize(n * (q + p) + c, n) = c
  BY <1>2, <1>3, NormalizeTurns DEF c
<1> QED
  BY <1>1, <1>3, <1>4 DEF c

\* A head that was normalised is as good as one that was not.
LEMMA NormalizeAgain ==
  ASSUME NEW n \in Nat \ {0}, NEW s \in Int, NEW k \in Int
  PROVE  Normalize(Normalize(s, n) + k, n) = Normalize(s + k, n)
<1> DEFINE c == Normalize(s, n)
<1>1. PICK q \in Int : s = n * q + c
  BY NormalizeCell
<1>2. c \in 1..n
  BY NormalizeCell
<1> HIDE DEF c
<1>3. s + k = n * q + (c + k) /\ c + k \in Int
  BY <1>1, <1>2
<1>4. Normalize(n * q + (c + k), n) = Normalize(c + k, n)
  BY <1>3, NormalizeShift
<1> QED
  BY <1>3, <1>4 DEF c

\* The cell at an offset of less than a turn.
LEMMA CellAt ==
  ASSUME NEW n \in Nat \ {0}, NEW s \in Int, NEW m \in 0..n - 1
  PROVE  LET i == Normalize(s, n) IN
         Normalize(s + m, n) = IF i + m <= n THEN i + m ELSE i + m - n
<1> DEFINE i == Normalize(s, n)
<1>1. i \in 1..n
  BY NormalizeCell
<1>2. Normalize(s + m, n) = IF i + m \in 1..n THEN i + m
                            ELSE IF i + m \in n + 1..2 * n THEN i + m - n
                            ELSE IF i + m \in 1 - n..0 THEN i + m + n
                            ELSE Normalize(s + m, n)
  <2>1. m \in Int /\ i = Normalize(s, n)
    OBVIOUS
  <2> HIDE DEF i
  <2> QED
    BY <1>1, <2>1, NormalizeWalk
<1> HIDE DEF i
<1>3. i + m \in 1..2 * n
  BY <1>1
<1>4. Normalize(s + m, n) = IF i + m <= n THEN i + m ELSE i + m - n
  BY <1>1, <1>2, <1>3
<1> QED
  BY <1>4 DEF i

\* Different offsets within a turn are different cells, and every cell has one.
LEMMA ArcInjective ==
  ASSUME NEW n \in Nat \ {0}, NEW s \in Int
  PROVE  /\ \A l, m \in 0..n - 1 : Normalize(s + l, n) = Normalize(s + m, n) => l = m
         /\ \A c \in 1..n : \E m \in 0..n - 1 : c = Normalize(s + m, n)
<1> DEFINE i == Normalize(s, n)
<1>1. i \in 1..n
  BY NormalizeCell
<1>2. \A m \in 0..n - 1 : Normalize(s + m, n) = IF i + m <= n THEN i + m ELSE i + m - n
  BY CellAt
<1> HIDE DEF i
<1>3. ASSUME NEW l \in 0..n - 1, NEW m \in 0..n - 1, Normalize(s + l, n) = Normalize(s + m, n)
      PROVE  l = m
  BY <1>1, <1>2, <1>3
<1>4. ASSUME NEW c \in 1..n
      PROVE  \E m \in 0..n - 1 : c = Normalize(s + m, n)
  <2>1. CASE c >= i
    <3>1. c - i \in 0..n - 1 /\ i + (c - i) = c
      BY <1>1, <2>1
    <3> QED
      BY <1>2, <3>1
  <2>2. CASE c < i
    <3>1. c - i + n \in 0..n - 1 /\ i + (c - i + n) > n /\ i + (c - i + n) - n = c
      BY <1>1, <2>2
    <3> DEFINE m == c - i + n
    <3>2. m \in 0..n - 1 /\ i + m > n /\ i + m - n = c
      BY <3>1
    <3> HIDE DEF m
    <3>3. Normalize(s + m, n) = IF i + m <= n THEN i + m ELSE i + m - n
      BY <1>2, <3>2
    <3>4. Normalize(s + m, n) = c
      BY <1>1, <3>2, <3>3
    <3> QED
      BY <3>2, <3>4
  <2> QED
    BY <1>1, <2>1, <2>2
<1> QED
  BY <1>3, <1>4

\* Two arcs of a turn that follow each other share no cell.
LEMMA ArcParts ==
  ASSUME NEW n, NEW s \in Int, NEW d, NEW c, Nested(c, d, n)
  PROVE  /\ Arc(s, 0, d, n) \ Arc(s, 0, c, n) = Arc(s, c, d, n)
         /\ Arc(s, 0, d, n) \ Arc(s, c, d, n) = Arc(s, 0, c, n)
         /\ Arc(s, 0, n, n) = 1..n
<1>0. n \in Nat \ {0} /\ d \in 0..n /\ c \in 0..d
  BY DEF Nested
<1>1. \A l, m \in 0..n - 1 : Normalize(s + l, n) = Normalize(s + m, n) => l = m
  BY <1>0, ArcInjective
<1>2. /\ 0..d - 1 \subseteq 0..n - 1 /\ 0..c - 1 \subseteq 0..d - 1 /\ c..d - 1 \subseteq 0..d - 1
      /\ \A m \in 0..d - 1 : m \in 0..c - 1 <=> m \notin c..d - 1
  BY <1>0
<1>3. /\ Arc(s, 0, d, n) \ Arc(s, 0, c, n) = Arc(s, c, d, n)
      /\ Arc(s, 0, d, n) \ Arc(s, c, d, n) = Arc(s, 0, c, n)
  <2> DEFINE P(m) == Normalize(s + m, n)
  <2>1. /\ Arc(s, 0, d, n) = {P(m) : m \in 0..d - 1} /\ Arc(s, 0, c, n) = {P(m) : m \in 0..c - 1}
        /\ Arc(s, c, d, n) = {P(m) : m \in c..d - 1}
    BY DEF Arc
  <2>2. \A l, m \in 0..d - 1 : P(l) = P(m) => l = m
    BY <1>1, <1>2
  <2> HIDE DEF P
  <2> QED
    BY <1>2, <2>1, <2>2
<1>4. Arc(s, 0, n, n) = 1..n
  <2>1. \A m \in 0..n - 1 : Normalize(s + m, n) \in 1..n
    <3> TAKE m \in 0..n - 1
    <3>1. s + m \in Int
      BY <1>0
    <3> QED
      BY <1>0, <3>1, NormalizeCell
  <2>2. \A x \in 1..n : \E m \in 0..n - 1 : x = Normalize(s + m, n)
    BY <1>0, ArcInjective
  <2> QED
    BY <2>1, <2>2 DEF Arc
<1> QED
  BY <1>3, <1>4

\* What is left of an arc without its end is its beginning.
LEMMA ArcBeginning ==
  ASSUME NEW n, NEW s \in Int, NEW d, NEW c, Nested(c, d, n)
  PROVE  Arc(s, 0, d, n) \ Arc(s, c, d, n) = Arc(s, 0, c, n)
<1>1. /\ Arc(s, 0, d, n) \ Arc(s, 0, c, n) = Arc(s, c, d, n)
      /\ Arc(s, 0, d, n) \ Arc(s, c, d, n) = Arc(s, 0, c, n)
      /\ Arc(s, 0, n, n) = 1..n
  BY ArcParts, Zenon
<1> QED
  BY <1>1, Zenon

\* An arc that begins somewhere else is an arc with other offsets.
LEMMA ArcMoved ==
  ASSUME NEW n \in Nat \ {0}, NEW by,
         NEW s, NEW b, Moved(s, b, by),
         NEW from, NEW f, Moved(from, f, by),
         NEW to, NEW t, Moved(to, t, by)
  PROVE  Arc(b, from, to, n) = Arc(s, f, t, n)
<1> USE DEF Moved
<1>1. \A m \in from..to - 1 : m + by \in f..t - 1 /\ b + m = s + (m + by)
  OBVIOUS
<1>2. \A m \in f..t - 1 : m - by \in from..to - 1 /\ s + m = b + (m - by)
  OBVIOUS
<1>3. Arc(b, from, to, n) \subseteq Arc(s, f, t, n)
  BY <1>1 DEF Arc
<1>4. Arc(s, f, t, n) \subseteq Arc(b, from, to, n)
  <2> SUFFICES ASSUME NEW m \in f..t - 1 PROVE Normalize(s + m, n) \in Arc(b, from, to, n)
    BY DEF Arc
  <2> QED
    BY <1>2 DEF Arc
<1> QED
  BY <1>3, <1>4

\* Two arcs of len cells together are swept at the steps 0..len - 1.
LEMMA CellsSwept ==
  ASSUME NEW n \in Nat \ {0}, NEW s \in Int, NEW len \in Int, NEW dir, NEW t \in Nat,
         Abs(Segments(s, len, n).n1) + Abs(Segments(s, len, n).n2) = t
  PROVE  Cells(Segments(s, len, n), dir) = {SweptCell(Segments(s, len, n), dir, k) : k \in 0..t - 1}
<1> DEFINE segs == Segments(s, len, n)
<1> DEFINE a == Abs(segs.n1)
<1> DEFINE b == Abs(segs.n2)
<1>1. a \in Int /\ b \in Int
  <2> DEFINE i == Normalize(s, n)
  <2>1. i \in 1..n
    BY NormalizeCell
  <2>2. /\ segs.n1 = IF len > 0 THEN Least(len, n + 1 - i) ELSE Greatest(len, -i)
        /\ segs.n2 = IF len > 0 THEN Greatest(0, len - (n + 1 - i)) ELSE Least(0, len - (-i))
    BY DEF Segments
  <2> HIDE DEF i, segs
  <2> QED
    BY <2>1, <2>2 DEF Abs, Least, Greatest
<1>2. Cells(segs, dir) = {SweptCell(segs, dir, k) : k \in 0..a + b - 1}
  BY Zenon DEF Cells
<1>3. a + b = t
  OBVIOUS
<1> HIDE DEF a, b, segs
<1>4. a + b - 1 = t - 1
  BY <1>1, <1>3
<1>5. Cells(segs, dir) = {SweptCell(segs, dir, k) : k \in 0..t - 1}
  BY <1>2, <1>4
<1> QED
  BY <1>5 DEF segs

\* segments() returns the cells of the arc.
LEMMA CellsForwards ==
  ASSUME NEW n \in Nat \ {0}, NEW s \in Int, NEW len \in 1..n
  PROVE  Cells(Segments(s, len, n), 1) = Arc(s, 0, len, n)
<1> DEFINE segs == Segments(s, len, n)
<1>1. /\ Abs(segs.n1) + Abs(segs.n2) = len
      /\ \A k \in 0..len - 1 : SweptCell(segs, 1, k) = ArcCell(s, 1, k, n)
  BY SweepForwards
<1> HIDE DEF segs
<1>2. \A k \in 0..len - 1 : ArcCell(s, 1, k, n) = Normalize(s + k, n)
  <2> TAKE k \in 0..len - 1
  <2>1. s + 1 * k = s + k
    OBVIOUS
  <2> QED
    BY <2>1 DEF ArcCell
<1>3. Cells(segs, 1) = {SweptCell(segs, 1, k) : k \in 0..len - 1}
  <2>1. len \in Int /\ len \in Nat
    OBVIOUS
  <2> QED
    BY <1>1, <2>1, CellsSwept DEF segs
<1>4. Cells(segs, 1) = Arc(s, 0, len, n)
  BY <1>1, <1>2, <1>3 DEF Arc
<1> QED
  BY <1>4 DEF segs

\* And backwards.
LEMMA CellsBackwards ==
  ASSUME NEW n \in Nat \ {0}, NEW s \in Int, NEW len \in -n..0
  PROVE  Cells(Segments(s, len, n), -1) = Arc(s, len + 1, 1, n)
<1> DEFINE segs == Segments(s, len, n)
<1>1. /\ Abs(segs.n1) + Abs(segs.n2) = -len
      /\ \A k \in 0..-len - 1 : SweptCell(segs, -1, k) = ArcCell(s, -1, k, n)
  BY SweepBackwards
<1> HIDE DEF segs
<1>2. \A k \in 0..-len - 1 : ArcCell(s, -1, k, n) = Normalize(s + (-k), n)
  <2> TAKE k \in 0..-len - 1
  <2>1. s + (-1) * k = s + (-k)
    OBVIOUS
  <2> QED
    BY <2>1 DEF ArcCell
<1>3. Cells(segs, -1) = {SweptCell(segs, -1, k) : k \in 0..-len - 1}
  <2>1. len \in Int /\ -len \in Nat
    OBVIOUS
  <2> QED
    BY <1>1, <2>1, CellsSwept DEF segs
<1>4. /\ \A k \in 0..-len - 1 : -k \in len + 1..0
      /\ \A m \in len + 1..0 : -m \in 0..-len - 1 /\ m = -(-m)
  OBVIOUS
<1>5. Arc(s, len + 1, 1, n) = {Normalize(s + m, n) : m \in len + 1..0}
  BY DEF Arc
<1>6. Cells(segs, -1) = {Normalize(s + (-k), n) : k \in 0..-len - 1}
  BY <1>1, <1>2, <1>3
<1>7. Cells(segs, -1) \subseteq Arc(s, len + 1, 1, n)
  BY <1>4, <1>5, <1>6
<1>8. Arc(s, len + 1, 1, n) \subseteq Cells(segs, -1)
  <2> SUFFICES ASSUME NEW m \in len + 1..0 PROVE Normalize(s + m, n) \in Cells(segs, -1)
    BY <1>5
  <2>1. -m \in 0..-len - 1 /\ s + m = s + (-(-m))
    BY <1>4
  <2> QED
    BY <1>6, <2>1
<1> QED
  BY <1>7, <1>8 DEF segs

-----------------------------------------------------------------------------
\* The occupied cells are the arc of the length from the head.
LEMMA OccupiedArc ==
  ASSUME TupleOK
  PROVE  Occupied = Arc(start, 0, length, size)
<1>1. size \in Nat \ {0} /\ start \in Int /\ length \in Nat
  BY SizesAssumption DEF TupleOK
<1>2. \A k \in 0..length - 1 : start + 1 * k = start + k
  BY <1>1
<1> QED
  BY <1>2 DEF Occupied, Arc, ArcCell

\* offset() of an offset from the tail is offset() of the one from the head.
THEOREM Offsets == TupleSpec => []OffsetsAgree
<1>1. TupleOK => OffsetsAgree
  <2> SUFFICES ASSUME TupleOK, NEW k \in 1..length
               PROVE  OffsetIndex(-k, start, length, size)
                        = OffsetIndex(length - k, start, length, size)
    BY DEF OffsetsAgree
  <2>1. start \in Int /\ length \in Nat
    BY SizesAssumption DEF TupleOK
  <2>2. /\ start + (-k) + (IF -k >= 0 THEN 0 ELSE length) = start + (length - k)
        /\ start + (length - k) + (IF length - k >= 0 THEN 0 ELSE length) = start + (length - k)
    BY <2>1
  <2> QED
    BY <2>2 DEF OffsetIndex
<1> QED
  BY <1>1, TupleCorrect, PTL

\* free_segments() gives exactly the cells that are not occupied, also of an
\* empty and of a full buffer.
THEOREM Free == TupleSpec => []FreeIsRest
<1>1. TupleOK => FreeIsRest
  <2> SUFFICES ASSUME TupleOK
               PROVE  FreeIsRest
    OBVIOUS
  <2>1. size \in Nat \ {0} /\ start \in Int /\ length \in 0..size
    BY SizesAssumption DEF TupleOK
  <2>2. Occupied = Arc(start, 0, length, size)
    BY OccupiedArc
  <2>3. /\ Arc(start, 0, size, size) \ Arc(start, 0, length, size) = Arc(start, length, size, size)
        /\ Arc(start, 0, size, size) = 1..size
    <3>1. Nested(length, size, size) /\ start \in Int
      BY <2>1 DEF Nested
    <3>2. Arc(start, 0, size, size) \ Arc(start, 0, length, size) = Arc(start, length, size, size)
      BY <3>1, ArcParts
    <3>3. Arc(start, 0, size, size) = 1..size
      BY <3>1, ArcParts
    <3> QED
      BY <3>2, <3>3
  <2>4. CASE length = 0
    <3>1. FreeSegments(start, length, size) = Segments(start, -size, size)
      BY <2>1, <2>4 DEF FreeSegments
    <3>2. Cells(Segments(start, -size, size), -1) = Arc(start, -size + 1, 1, size)
      <4>1. -size \in -size..0
        BY <2>1
      <4> QED
        BY <2>1, <4>1, CellsBackwards
    <3>3. Arc(start, -size + 1, 1, size) = 1..size
      <4> DEFINE b == start + (1 - size)
      <4> DEFINE by == 1 - size
      <4>1. /\ Moved(start, b, by) /\ Moved(0, -size + 1, by) /\ Moved(size, 1, by)
            /\ Nested(0, size, size) /\ b \in Int
        BY <2>1 DEF Moved, Nested
      <4> HIDE DEF b, by
      <4>2. Arc(b, 0, size, size) = Arc(start, -size + 1, 1, size)
        BY <2>1, <4>1, ArcMoved
      <4>3. Arc(b, 0, size, size) = 1..size
        BY <2>1, <4>1, ArcParts
      <4> QED
        BY <4>2, <4>3
    <3>4. Occupied = {}
      <4>1. 0..length - 1 = {}
        BY <2>4
      <4> QED
        BY <4>1 DEF Occupied
    <3>5. Cells(FreeSegments(start, length, size), -1) = (1..size) \ Occupied
      <4>1. (1..size) \ {} = 1..size
        OBVIOUS
      <4> QED
        BY <3>1, <3>2, <3>3, <3>4, <4>1, Zenon
    <3>6. (IF length = 0 THEN -1 ELSE 1) = -1
      BY <2>4
    <3> QED
      BY <3>5, <3>6, Zenon DEF FreeIsRest
  <2>5. CASE length > 0
    <3>1. FreeSegments(start, length, size) = Segments(start + length, size - length, size)
      BY <2>1, <2>5 DEF FreeSegments
    <3>2. Cells(Segments(start + length, size - length, size), 1) = Arc(start + length, 0, size - length, size)
      <4>1. CASE length < size
        <5>1. size - length \in 1..size /\ start + length \in Int
          BY <2>1, <2>5, <4>1
        <5> QED
          BY <2>1, <5>1, CellsForwards
      <4>2. CASE length = size
        <5>1. size - length = 0 /\ start + length \in Int
          BY <2>1, <4>2
        <5>2. 0 \in -size..0
          BY <2>1
        <5>3. Arc(start + length, 0, 0, size) = {}
          <6>1. 0..0 - 1 = {}
            OBVIOUS
          <6> QED
            BY <6>1 DEF Arc
        <5>4. Cells(Segments(start + length, 0, size), 1) = {}
          <6> DEFINE b == start + length
          <6> HIDE DEF b
          <6>1. b \in Int /\ 0 \in Int /\ 0 \in Nat
            BY <5>1 DEF b
          <6>2. Abs(Segments(b, 0, size).n1) + Abs(Segments(b, 0, size).n2) = 0
            <7>1. Abs(Segments(b, 0, size).n1) + Abs(Segments(b, 0, size).n2) = -0
              BY <2>1, <5>2, <6>1, SweepBackwards
            <7> QED
              BY <7>1
          <6>3. Cells(Segments(b, 0, size), 1) = {SweptCell(Segments(b, 0, size), 1, k) : k \in 0..0 - 1}
            BY <2>1, <6>1, <6>2, CellsSwept
          <6>4. 0..0 - 1 = {}
            OBVIOUS
          <6> QED
            BY <6>3, <6>4 DEF b
        <5> QED
          BY <5>1, <5>3, <5>4
      <4> QED
        BY <2>1, <4>1, <4>2
    <3>3. Arc(start + length, 0, size - length, size) = Arc(start, length, size, size)
      <4> DEFINE b == start + length
      <4> DEFINE to == size - length
      <4>1. Moved(start, b, length) /\ Moved(0, length, length) /\ Moved(to, size, length)
        BY <2>1 DEF Moved
      <4> HIDE DEF b, to
      <4>2. Arc(b, 0, to, size) = Arc(start, length, size, size)
        BY <2>1, <4>1, ArcMoved
      <4> QED
        BY <4>2 DEF b, to
    <3>4. Cells(FreeSegments(start, length, size), 1) = (1..size) \ Occupied
      BY <2>2, <2>3, <3>1, <3>2, <3>3, Zenon
    <3>5. (IF length = 0 THEN -1 ELSE 1) = 1
      BY <2>5
    <3> QED
      BY <3>4, <3>5, Zenon DEF FreeIsRest
  <2> QED
    BY <2>1, <2>4, <2>5
<1> QED
  BY <1>1, TupleCorrect, PTL

\* A head moved over the circle is normalised: its arc is the moved one.
LEMMA ArcOfNewHead ==
  ASSUME NEW n \in Nat \ {0}, NEW s \in Int, NEW by \in Int, NEW to \in Int
  PROVE  Arc(Normalize(s + by, n), 0, to, n) = Arc(s, by, to + by, n)
<1>1. \A m \in 0..to - 1 : Normalize(Normalize(s + by, n) + m, n) = Normalize((s + by) + m, n)
  <2> TAKE m \in 0..to - 1
  <2>1. s + by \in Int /\ m \in Int
    OBVIOUS
  <2> QED
    BY <2>1, NormalizeAgain
<1>2. Arc(Normalize(s + by, n), 0, to, n) = Arc(s + by, 0, to, n)
  BY <1>1 DEF Arc
<1>3. Arc(s + by, 0, to, n) = Arc(s, by, to + by, n)
  <2> DEFINE b == s + by
  <2> DEFINE t == to + by
  <2>1. Moved(s, b, by) /\ Moved(0, by, by) /\ Moved(to, t, by)
    BY DEF Moved
  <2> HIDE DEF b, t
  <2>2. Arc(b, 0, to, n) = Arc(s, by, t, n)
    BY <2>1, ArcMoved
  <2> QED
    BY <2>2 DEF b, t
<1> QED
  BY <1>2, <1>3

\* push() at the tail returns the cells that it adds.
LEMMA PushAtTail ==
  ASSUME TupleOK, NEW len \in -size..size, PushStep(len), len > 0
  PROVE  Cells(Push(len, start, length, size).segs, DirOf(len)) = Occupied' \ Occupied
<1>1. size \in Nat \ {0} /\ start \in Int /\ length \in 0..size
  BY SizesAssumption DEF TupleOK
<1>2. /\ start' = start /\ length' = length + len /\ size' = size
      /\ len \in 1..size /\ length + len \in 0..size /\ length \in 0..length + len
      /\ Push(len, start, length, size).segs = Segments(start + length, len, size)
      /\ DirOf(len) = 1
  BY <1>1 DEF PushStep, Push, MayPush, Abs, DirOf
<1>3. Cells(Segments(start + length, len, size), 1) = Arc(start, length, length + len, size)
  <2> DEFINE b == start + length
  <2> DEFINE t == length + len
  <2>1. /\ Moved(start, b, length) /\ Moved(0, length, length) /\ Moved(len, t, length)
        /\ b \in Int
    BY <1>1, <1>2 DEF Moved
  <2> HIDE DEF b, t
  <2>2. Cells(Segments(b, len, size), 1) = Arc(b, 0, len, size)
    BY <1>1, <1>2, <2>1, CellsForwards
  <2>3. Arc(b, 0, len, size) = Arc(start, length, t, size)
    BY <1>1, <2>1, ArcMoved
  <2> QED
    BY <2>2, <2>3 DEF b, t
<1>4. Occupied = Arc(start, 0, length, size)
  BY OccupiedArc
<1>5. Occupied' = Arc(start, 0, length + len, size)
  <2>1. \A k \in 0..length + len - 1 : start + 1 * k = start + k
    BY <1>1, <1>2
  <2> QED
    BY <1>2, <2>1 DEF Occupied, Arc, ArcCell
<1>6. Arc(start, 0, length + len, size) \ Arc(start, 0, length, size) = Arc(start, length, length + len, size)
  <2> DEFINE d == length + len
  <2>1. Nested(length, d, size)
    BY <1>1, <1>2 DEF Nested
  <2> HIDE DEF d
  <2>2. Arc(start, 0, d, size) \ Arc(start, 0, length, size) = Arc(start, length, d, size)
    BY <1>1, <2>1, ArcParts
  <2> QED
    BY <2>2 DEF d
<1> QED
  BY <1>2, <1>3, <1>4, <1>5, <1>6

\* push() at the head returns the cells that it adds.
LEMMA PushAtHead ==
  ASSUME TupleOK, NEW len \in -size..size, PushStep(len), len < 0
  PROVE  Cells(Push(len, start, length, size).segs, DirOf(len)) = Occupied' \ Occupied
<1> DEFINE b == start + len
<1>1. size \in Nat \ {0} /\ start \in Int /\ length \in 0..size
  BY SizesAssumption DEF TupleOK
<1>2. /\ start' = Normalize(start + len, size) /\ length' = length - len /\ size' = size
      /\ len \in -size..0 /\ length - len \in 0..size /\ -len \in 0..length - len
      /\ Push(len, start, length, size).segs = Segments(start - 1, len, size)
      /\ DirOf(len) = -1
  BY <1>1 DEF PushStep, Push, MayPush, Abs, DirOf
<1>3. /\ b \in Int /\ len \in Int /\ -len \in Int /\ length \in Int
      /\ start = b + (-len) /\ start - 1 = b + (-len - 1) /\ -len - 1 \in Int
      /\ start - 1 \in Int
      /\ (len + 1) + (-len - 1) = 0 /\ 1 + (-len - 1) = -len
      /\ 0 + (-len) = -len /\ length + (-len) = length - len
      /\ len + 1 \in Int /\ 1 \in Int /\ 0 \in Int
  BY <1>1
<1>4. Cells(Segments(start - 1, len, size), -1) = Arc(b, 0, -len, size)
  <2>1. Cells(Segments(start - 1, len, size), -1) = Arc(start - 1, len + 1, 1, size)
    BY <1>1, <1>2, <1>3, CellsBackwards
  <2> DEFINE a == start - 1
  <2> DEFINE by == -len - 1
  <2> DEFINE f == len + 1
  <2> DEFINE t == -len
  <2>2. Moved(b, a, by) /\ Moved(f, 0, by) /\ Moved(1, t, by)
    BY <1>1 DEF Moved
  <2> HIDE DEF a, b, by, f, t
  <2>3. Arc(a, f, 1, size) = Arc(b, 0, t, size)
    BY <1>1, <1>3, <2>2, ArcMoved
  <2> QED
    BY <2>1, <2>3 DEF a, f, t
<1>5. Occupied = Arc(b, -len, length - len, size)
  <2>1. Occupied = Arc(start, 0, length, size)
    BY OccupiedArc
  <2> DEFINE by == -len
  <2> DEFINE t == length - len
  <2>2. Moved(b, start, by) /\ Moved(0, by, by) /\ Moved(length, t, by)
    BY <1>1 DEF Moved
  <2> HIDE DEF b, by, t
  <2>3. Arc(start, 0, length, size) = Arc(b, by, t, size)
    BY <1>1, <1>3, <2>2, ArcMoved
  <2> QED
    BY <2>1, <2>3 DEF by, t
<1>6. Occupied' = Arc(b, 0, length - len, size)
  <2> DEFINE h == Normalize(b, size)
  <2>1. h \in 1..size
    BY <1>1, <1>3, NormalizeCell
  <2>2. start' = h /\ length' = length - len /\ size' = size
    BY <1>2
  <2> HIDE DEF h
  <2>3. \A k \in 0..length - len - 1 : h + 1 * k = h + k
    BY <1>1, <2>1
  <2>4. Occupied' = Arc(h, 0, length - len, size)
    BY <2>2, <2>3 DEF Occupied, Arc, ArcCell
  <2>5. \A m \in 0..length - len - 1 : Normalize(h + m, size) = Normalize(b + m, size)
    <3> TAKE m \in 0..length - len - 1
    <3>1. m \in Int /\ b \in Int
      BY <1>1
    <3> HIDE DEF b
    <3> QED
      BY <1>1, <3>1, NormalizeAgain DEF h
  <2> QED
    BY <2>4, <2>5 DEF Arc
<1>7. Arc(b, 0, length - len, size) \ Arc(b, -len, length - len, size) = Arc(b, 0, -len, size)
  <2> DEFINE c == -len
  <2> DEFINE d == length - len
  <2>1. Nested(c, d, size) /\ b \in Int
    BY <1>1, <1>2 DEF Nested
  <2> HIDE DEF b, c, d
  <2>2. Arc(b, 0, d, size) \ Arc(b, c, d, size) = Arc(b, 0, c, size)
    BY <2>1, ArcBeginning, Zenon
  <2> QED
    BY <2>2 DEF c, d
<1> HIDE DEF b
<1> QED
  BY <1>2, <1>4, <1>5, <1>6, <1>7

\* pull() at the head returns the cells that it gives back.
LEMMA PullAtHead ==
  ASSUME TupleOK, NEW len \in -size..size, PullStep(len), len > 0
  PROVE  Cells(Pull(len, start, length, size).segs, DirOf(len)) = Occupied \ Occupied'
<1>1. size \in Nat \ {0} /\ start \in Int /\ length \in 0..size
  BY SizesAssumption DEF TupleOK
<1>2. /\ start' = Normalize(start + len, size) /\ length' = length - len /\ size' = size
      /\ len \in 1..size /\ len \in 0..length /\ len \in Int /\ length - len \in Int
      /\ Pull(len, start, length, size).segs = Segments(start, len, size)
      /\ DirOf(len) = 1 /\ (length - len) + len = length
  BY <1>1 DEF PullStep, Pull, MayPull, Abs, DirOf
<1>3. Cells(Segments(start, len, size), 1) = Arc(start, 0, len, size)
  BY <1>1, <1>2, CellsForwards
<1>4. Occupied = Arc(start, 0, length, size)
  BY OccupiedArc
<1>5. Occupied' = Arc(start, len, length, size)
  <2> DEFINE h == Normalize(start + len, size)
  <2>1. start + len \in Int
    BY <1>1, <1>2
  <2>2. h \in 1..size
    BY <1>1, <2>1, NormalizeCell
  <2>3. start' = h /\ length' = length - len /\ size' = size
    BY <1>2
  <2>4. Arc(h, 0, length - len, size) = Arc(start, len, (length - len) + len, size)
    BY <1>1, <1>2, ArcOfNewHead
  <2> HIDE DEF h
  <2>5. \A k \in 0..length - len - 1 : h + 1 * k = h + k
    BY <1>1, <2>2
  <2>6. Occupied' = Arc(h, 0, length - len, size)
    BY <2>3, <2>5 DEF Occupied, Arc, ArcCell
  <2> QED
    BY <1>2, <2>4, <2>6
<1>6. Arc(start, 0, length, size) \ Arc(start, len, length, size) = Arc(start, 0, len, size)
  <2>1. Nested(len, length, size) /\ start \in Int
    BY <1>1, <1>2 DEF Nested
  <2> QED
    BY <2>1, ArcBeginning, Zenon
<1> QED
  BY <1>2, <1>3, <1>4, <1>5, <1>6

\* pull() at the tail returns the cells that it gives back.
LEMMA PullAtTail ==
  ASSUME TupleOK, NEW len \in -size..size, PullStep(len), len < 0
  PROVE  Cells(Pull(len, start, length, size).segs, DirOf(len)) = Occupied \ Occupied'
<1>1. size \in Nat \ {0} /\ start \in Int /\ length \in 0..size
  BY SizesAssumption DEF TupleOK
<1>2. /\ start' = start /\ length' = length + len /\ size' = size
      /\ len \in -size..0 /\ length + len \in 0..length /\ length + len \in Int
      /\ Pull(len, start, length, size).segs = Segments(start + length - 1, len, size)
      /\ DirOf(len) = -1
  BY <1>1 DEF PullStep, Pull, MayPull, Abs, DirOf
<1>3. /\ start + length - 1 = start + (length - 1) /\ start + (length - 1) \in Int
      /\ length - 1 \in Int /\ len + 1 \in Int /\ 1 \in Int
      /\ (len + 1) + (length - 1) = length + len /\ 1 + (length - 1) = length
  BY <1>1
<1>4. Cells(Segments(start + (length - 1), len, size), -1) = Arc(start, length + len, length, size)
  <2> DEFINE by == length - 1
  <2> DEFINE b == start + by
  <2> DEFINE f == len + 1
  <2> DEFINE e == length + len
  <2>1. /\ Moved(start, b, by) /\ Moved(f, e, by) /\ Moved(1, length, by)
        /\ b \in Int
    BY <1>1, <1>2 DEF Moved
  <2>2. Cells(Segments(b, len, size), -1) = Arc(b, len + 1, 1, size)
    <3> HIDE DEF b
    <3> QED
      BY <1>1, <1>2, <2>1, CellsBackwards
  <2> HIDE DEF b, by, f, e
  <2>3. Arc(b, f, 1, size) = Arc(start, e, length, size)
    BY <1>1, <2>1, ArcMoved
  <2> QED
    BY <2>2, <2>3 DEF b, by, f, e
<1>5. Occupied = Arc(start, 0, length, size)
  BY OccupiedArc
<1>6. Occupied' = Arc(start, 0, length + len, size)
  <2>1. \A k \in 0..length + len - 1 : start + 1 * k = start + k
    BY <1>1, <1>2
  <2> QED
    BY <1>2, <2>1 DEF Occupied, Arc, ArcCell
<1>7. Arc(start, 0, length, size) \ Arc(start, 0, length + len, size) = Arc(start, length + len, length, size)
  <2> DEFINE c == length + len
  <2>1. Nested(c, length, size)
    BY <1>1, <1>2 DEF Nested
  <2> HIDE DEF c
  <2>2. Arc(start, 0, length, size) \ Arc(start, 0, c, size) = Arc(start, c, length, size)
    BY <1>1, <2>1, ArcParts
  <2> QED
    BY <2>2 DEF c
<1> QED
  BY <1>2, <1>3, <1>4, <1>5, <1>6, <1>7

\* The segments of push() and pull() are the cells that the buffer gains and
\* loses: nothing is written over and nothing is read twice, in a buffer of any
\* size, over any number of turns.
THEOREM Changes == TupleSpec => SegmentsAreTheChange
<1> DEFINE Change == \A len \in -size..size :
       /\ PushStep(len) /\ len # 0 =>
            Cells(Push(len, start, length, size).segs, DirOf(len)) = Occupied' \ Occupied
       /\ PullStep(len) /\ len # 0 =>
            Cells(Pull(len, start, length, size).segs, DirOf(len)) = Occupied \ Occupied'
<1>1. TupleOK => Change
  <2> SUFFICES ASSUME TupleOK, NEW len \in -size..size, len # 0
               PROVE  /\ PushStep(len) =>
                           Cells(Push(len, start, length, size).segs, DirOf(len)) = Occupied' \ Occupied
                      /\ PullStep(len) =>
                           Cells(Pull(len, start, length, size).segs, DirOf(len)) = Occupied \ Occupied'
    BY Zenon
  <2>1. len > 0 \/ len < 0
    BY SizesAssumption DEF TupleOK
  <2> QED
    BY <2>1, PushAtTail, PushAtHead, PullAtHead, PullAtTail, Zenon
<1> HIDE DEF Change
<1>2. SegmentsAreTheChange <=> [][Change]_tuple
  BY PTL DEF SegmentsAreTheChange, Change
<1> QED
  BY <1>1, <1>2, TupleCorrect, PTL

-----------------------------------------------------------------------------
\* The cell of element k = 0, 1, ... of a pair of segments that count from 0.
SegCell(g, k) == IF k < g.n1 THEN g.i1 + k ELSE g.i2 + (k - g.n1)

\* Segments that lie in an array of n, and do not overlap.
Inside(g, n) ==
  /\ g.n1 \in Nat /\ g.n2 \in Nat /\ g.i1 \in Int /\ g.i2 \in Int
  /\ \A k \in 0..(g.n1 + g.n2) - 1 : SegCell(g, k) \in 0..n - 1
  /\ \A j, k \in 0..(g.n1 + g.n2) - 1 : SegCell(g, j) = SegCell(g, k) => j = k

\* Segments of len elements: the cells of the arc from s, in order.
Sweeps(g, s, len, n) ==
  /\ Inside(g, n) /\ g.n1 + g.n2 = len
  /\ \A k \in 0..len - 1 : SegCell(g, k) = Normalize(s + k, n) - 1

\* The same cells, in the order in which they lie in the array.
Covers(g, s, len, n) ==
  /\ Inside(g, n) /\ g.n1 + g.n2 = len
  /\ \A k \in 0..len - 1 : \E m \in 0..len - 1 : SegCell(g, k) = Normalize(s + m, n) - 1
  /\ \A m \in 0..len - 1 : \E k \in 0..len - 1 : SegCell(g, k) = Normalize(s + m, n) - 1

\* write() and read() take the segments of a positive length as they are.
LEMMA SegsForwards ==
  ASSUME NEW n \in Nat \ {0}, NEW s \in Int, NEW len \in 0..n
  PROVE  Sweeps(NormalizeSegs(Segments(s, len, n)), s, len, n)
<1> DEFINE i == Normalize(s, n)
<1> DEFINE g == NormalizeSegs(Segments(s, len, n))
<1>1. i \in 1..n
  BY NormalizeCell
<1>2. \A m \in 0..n - 1 : Normalize(s + m, n) = IF i + m <= n THEN i + m ELSE i + m - n
  BY CellAt
<1>3. CASE len = 0
  <2>1. Segments(s, len, n) = [i1 |-> i, n1 |-> Greatest(len, -i),
                               i2 |-> n, n2 |-> Least(0, len - (-i))]
    BY <1>3 DEF Segments
  <2> HIDE DEF i
  <2>2. Greatest(len, -i) = 0 /\ Least(0, len - (-i)) = 0
    BY <1>1, <1>3 DEF Greatest, Least
  <2>3. g.n1 = 0 /\ g.n2 = 0 /\ g.i1 = i - 1 /\ g.i2 = n - 1
    BY <2>1, <2>2 DEF NormalizeSegs
  <2> HIDE DEF g
  <2>4. 0..(g.n1 + g.n2) - 1 = {} /\ 0..len - 1 = {}
    BY <1>3, <2>3
  <2>5. Sweeps(g, s, len, n)
    BY <1>1, <1>3, <2>3, <2>4 DEF Sweeps, Inside
  <2> QED
    BY <2>5 DEF g
<1>4. CASE len > 0
  <2>1. Segments(s, len, n) = [i1 |-> i, n1 |-> Least(len, n + 1 - i),
                               i2 |-> 1, n2 |-> Greatest(0, len - (n + 1 - i))]
    BY <1>4 DEF Segments
  <2> HIDE DEF i
  <2>2. /\ g.i1 = i - 1 /\ g.i2 = 0
        /\ g.n1 = IF len <= n + 1 - i THEN len ELSE n + 1 - i
        /\ g.n2 = len - g.n1
    BY <1>1, <2>1 DEF NormalizeSegs, Greatest, Least
  <2> HIDE DEF g
  <2>3. \A k \in 0..len - 1 : SegCell(g, k) = IF i + k <= n THEN i + k - 1 ELSE i + k - n - 1
    BY <1>1, <1>4, <2>2 DEF SegCell
  <2>4. \A k \in 0..len - 1 : SegCell(g, k) = Normalize(s + k, n) - 1
    BY <1>1, <1>2, <2>3
  <2>5. g.n1 \in Nat /\ g.n2 \in Nat /\ g.i1 \in Int /\ g.i2 \in Int /\ g.n1 + g.n2 = len
    BY <1>1, <2>2
  <2>6. \A k \in 0..len - 1 : SegCell(g, k) \in 0..n - 1
    BY <1>1, <2>3
  <2>7. \A j, k \in 0..len - 1 : SegCell(g, j) = SegCell(g, k) => j = k
    BY <1>1, <2>3
  <2>8. Sweeps(g, s, len, n)
    BY <2>4, <2>5, <2>6, <2>7 DEF Sweeps, Inside
  <2> QED
    BY <2>8 DEF g
<1> QED
  BY <1>3, <1>4

\* Those of a negative length they turn round: they begin where the sweep ends.
LEMMA SegsBackwards ==
  ASSUME NEW n \in Nat \ {0}, NEW s \in Int, NEW l \in 1..n
  PROVE  Covers(NormalizeSegs(Segments(s + l - 1, -l, n)), s, l, n)
<1> DEFINE i == Normalize(s + l - 1, n)
<1> DEFINE g == NormalizeSegs(Segments(s + l - 1, -l, n))
<1> DEFINE h == Normalize(s, n)
<1>1. i \in 1..n /\ h \in 1..n
  <2>1. s + l - 1 \in Int
    OBVIOUS
  <2> QED
    BY <2>1, NormalizeCell
<1>2. \A m \in 0..n - 1 : Normalize(s + m, n) = IF h + m <= n THEN h + m ELSE h + m - n
  BY CellAt
<1>3. i = IF h + (l - 1) <= n THEN h + (l - 1) ELSE h + (l - 1) - n
  <2>1. l - 1 \in 0..n - 1 /\ s + l - 1 = s + (l - 1)
    OBVIOUS
  <2> QED
    BY <1>2, <2>1
<1>4. Segments(s + l - 1, -l, n) = [i1 |-> i, n1 |-> Greatest(-l, -i),
                                    i2 |-> n, n2 |-> Least(0, -l - (-i))]
  BY DEF Segments
<1> HIDE DEF i, h
<1>5. /\ g.i1 = IF l <= i THEN i - l ELSE 0
      /\ g.n1 = IF l <= i THEN l ELSE i
      /\ g.i2 = IF l <= i THEN n ELSE n - (l - i)
      /\ g.n2 = l - g.n1
  BY <1>1, <1>4 DEF NormalizeSegs, Greatest, Least
<1> HIDE DEF g
<1>6. \A k \in 0..l - 1 : SegCell(g, k) = IF l <= i THEN i - l + k
                                          ELSE IF k < i THEN k
                                          ELSE n - (l - i) + (k - i)
  BY <1>1, <1>5 DEF SegCell
<1>7. \A k \in 0..l - 1 : SegCell(g, k) \in 0..n - 1
  BY <1>1, <1>6
<1>8. \A j, k \in 0..l - 1 : SegCell(g, j) = SegCell(g, k) => j = k
  BY <1>1, <1>6
<1>9. g.n1 \in Nat /\ g.n2 \in Nat /\ g.i1 \in Int /\ g.i2 \in Int /\ g.n1 + g.n2 = l
  BY <1>1, <1>5
<1> DEFINE turned(k) == IF l <= i THEN k ELSE IF k < i THEN k + (l - i) ELSE k - i
<1> DEFINE back(m) == IF l <= i THEN m ELSE IF m < l - i THEN m + i ELSE m - (l - i)
<1>10. ASSUME NEW k \in 0..l - 1
       PROVE  turned(k) \in 0..l - 1 /\ SegCell(g, k) = Normalize(s + turned(k), n) - 1
  <2>1. turned(k) \in 0..l - 1 /\ turned(k) \in 0..n - 1
    BY <1>1
  <2>2. Normalize(s + turned(k), n) = IF h + turned(k) <= n THEN h + turned(k) ELSE h + turned(k) - n
    BY <1>2, <2>1
  <2> QED
    BY <1>1, <1>3, <1>6, <2>1, <2>2
<1>11. ASSUME NEW m \in 0..l - 1
       PROVE  back(m) \in 0..l - 1 /\ turned(back(m)) = m
  BY <1>1
<1> HIDE DEF turned, back
<1>12. Inside(g, n)
  BY <1>7, <1>8, <1>9 DEF Inside
<1>13. \A m \in 0..l - 1 : \E k \in 0..l - 1 : SegCell(g, k) = Normalize(s + m, n) - 1
  <2> TAKE m \in 0..l - 1
  <2>1. back(m) \in 0..l - 1 /\ turned(back(m)) = m
    BY <1>11
  <2> QED
    BY <1>10, <2>1
<1>14. Covers(g, s, l, n)
  BY <1>9, <1>10, <1>12, <1>13 DEF Covers
<1> QED
  BY <1>14 DEF g

-----------------------------------------------------------------------------
\* ffi.copy() copies at most as many elements as it is given bytes.
LEMMA WholeIsPart == ASSUME NEW n \in Nat PROVE Whole(n) \in 0..n
<1> DEFINE q == n \div ElemSize
<1> DEFINE r == n % ElemSize
<1>1. ElemSize \in Nat \ {0}
  BY BoundsAssumption
<1>2. q \in Int /\ r \in 0..ElemSize - 1 /\ n = ElemSize * q + r
  BY <1>1
<1> HIDE DEF q, r
<1>3. q >= 0
  <2> SUFFICES ASSUME q <= -1 PROVE FALSE
    BY <1>2
  <2>1. ElemSize * q <= -ElemSize
    BY <1>1, <1>2
  <2> QED
    BY <1>1, <1>2, <2>1
<1>4. ElemSize * q >= q
  BY <1>1, <1>2, <1>3
<1>5. q \in 0..n
  BY <1>1, <1>2, <1>3, <1>4
<1> QED
  BY <1>5 DEF Whole, q

\* Elements of one byte are copied as they should be.
LEMMA WholeIsAll ==
  ASSUME ElemSize = 1, NEW n \in Nat
  PROVE  Whole(n) = n /\ Torn(n) = {}
<1>1. n \div 1 = n /\ n % 1 = 0
  OBVIOUS
<1> QED
  BY <1>1 DEF Whole, Torn

\* The element of the batch that goes into a cell of the first w of one of two
\* segments, of p and q cells.
LEMMA InFirst ==
  ASSUME NEW i \in Int, NEW a \in Int, NEW p \in Nat, NEW q \in Nat, NEW w \in 0..p,
         i - a \in 0..w - 1
  PROVE  /\ (i - a) + 1 \in 1..p + q
         /\ i - a \in 0..p + q - 1 /\ i - a < p /\ a + (i - a) = i
OBVIOUS

\* The same for the second segment.
LEMMA InSecond ==
  ASSUME NEW i \in Int, NEW a \in Int, NEW p \in Nat, NEW q \in Nat, NEW w \in 0..q,
         i - a \in 0..w - 1
  PROVE  /\ p + (i - a) + 1 \in 1..p + q
         /\ p + (i - a) \in 0..p + q - 1 /\ ~(p + (i - a) < p) /\ a + ((p + (i - a)) - p) = i
OBVIOUS

\* A batch of so many elements.
BatchOf(len) == [1..len -> Values]

\* write() leaves an array, whatever it tears.
LEMMA WrittenArray ==
  ASSUME NEW n \in Nat, NEW g, Inside(g, n), NEW array \in Array(n),
         NEW batch \in BatchOf(g.n1 + g.n2)
  PROVE  Written(array, g, batch) \in Array(n)
<1>1. DOMAIN array = 0..n - 1 /\ \A i \in 0..n - 1 : array[i] \in Values \cup {None}
  BY DEF Array
<1>2. g.n1 \in Nat /\ g.n2 \in Nat /\ g.i1 \in Int /\ g.i2 \in Int
  BY DEF Inside
<1>3. Whole(g.n1) \in 0..g.n1 /\ Whole(g.n2) \in 0..g.n2
  BY <1>2, WholeIsPart
<1> SUFFICES ASSUME NEW i \in 0..n - 1
             PROVE  Written(array, g, batch)[i] \in Values \cup {None}
  BY <1>1 DEF Written, Array
<1>4. i - g.i1 \in 0..Whole(g.n1) - 1 => (i - g.i1) + 1 \in 1..g.n1 + g.n2
  BY <1>2, <1>3, InFirst
<1>5. i - g.i2 \in 0..Whole(g.n2) - 1 => g.n1 + (i - g.i2) + 1 \in 1..g.n1 + g.n2
  BY <1>2, <1>3, InSecond
<1>6. Written(array, g, batch)[i] =
        IF i - g.i1 \in 0..Whole(g.n1) - 1 THEN batch[(i - g.i1) + 1]
        ELSE IF i - g.i2 \in 0..Whole(g.n2) - 1 THEN batch[g.n1 + (i - g.i2) + 1]
        ELSE IF i - g.i1 \in Torn(g.n1) \/ i - g.i2 \in Torn(g.n2) THEN None
        ELSE array[i]
  BY <1>1 DEF Written
<1>7. \A k \in 1..g.n1 + g.n2 : batch[k] \in Values
  BY DEF BatchOf
<1> QED
  BY <1>1, <1>4, <1>5, <1>6, <1>7

\* The array w is the array with the batch in the t cells of the segments.
PutInto(w, array, g, t, batch, n) ==
  /\ \A k \in 0..t - 1 : w[SegCell(g, k)] = batch[k + 1]
  /\ \A i \in 0..n - 1 : (\A k \in 0..t - 1 : SegCell(g, k) # i) => w[i] = array[i]

\* With elements of one byte, that is what write() does.
LEMMA WrittenCells ==
  ASSUME ElemSize = 1, NEW n \in Nat, NEW g, Inside(g, n), NEW array \in Array(n),
         NEW batch \in BatchOf(g.n1 + g.n2)
  PROVE  PutInto(Written(array, g, batch), array, g, g.n1 + g.n2, batch, n)
<1>1. DOMAIN array = 0..n - 1
  BY DEF Array
<1>2. /\ g.n1 \in Nat /\ g.n2 \in Nat /\ g.i1 \in Int /\ g.i2 \in Int
      /\ \A k \in 0..(g.n1 + g.n2) - 1 : SegCell(g, k) \in 0..n - 1
      /\ \A j, k \in 0..(g.n1 + g.n2) - 1 : SegCell(g, j) = SegCell(g, k) => j = k
  BY DEF Inside
<1>3. /\ Whole(g.n1) = g.n1 /\ Whole(g.n2) = g.n2
      /\ Torn(g.n1) = {} /\ Torn(g.n2) = {}
  BY <1>2, WholeIsAll
<1>4. \A i \in 0..n - 1 :
        Written(array, g, batch)[i] =
          IF i - g.i1 \in 0..g.n1 - 1 THEN batch[(i - g.i1) + 1]
          ELSE IF i - g.i2 \in 0..g.n2 - 1 THEN batch[g.n1 + (i - g.i2) + 1]
          ELSE array[i]
  BY <1>1, <1>3 DEF Written
<1>7. g.n1 \in 0..g.n1 /\ g.n2 \in 0..g.n2
  BY <1>2
<1>5. ASSUME NEW k \in 0..(g.n1 + g.n2) - 1
      PROVE  Written(array, g, batch)[SegCell(g, k)] = batch[k + 1]
  <2> DEFINE i == SegCell(g, k)
  <2>1. i \in 0..n - 1
    BY <1>2
  <2>2. CASE k < g.n1
    <3>1. i = g.i1 + k
      BY <2>2 DEF SegCell
    <3> HIDE DEF i
    <3>2. i - g.i1 \in 0..g.n1 - 1 /\ (i - g.i1) + 1 = k + 1
      BY <1>2, <2>2, <3>1
    <3> QED
      BY <1>4, <2>1, <3>2 DEF i
  <2>3. CASE ~(k < g.n1)
    <3>1. i = g.i2 + (k - g.n1)
      BY <2>3 DEF SegCell
    <3> HIDE DEF i
    <3>2. i - g.i2 \in 0..g.n2 - 1 /\ g.n1 + (i - g.i2) + 1 = k + 1
      BY <1>2, <2>3, <3>1
    <3>3. i - g.i1 \notin 0..g.n1 - 1
      <4> SUFFICES ASSUME i - g.i1 \in 0..g.n1 - 1 PROVE FALSE
        OBVIOUS
      <4> DEFINE j == i - g.i1
      <4>1. j \in 0..(g.n1 + g.n2) - 1 /\ j < g.n1 /\ j # k /\ g.i1 + j = i
        BY <1>2, <2>1, <2>3
      <4> HIDE DEF j
      <4>2. SegCell(g, j) = i
        BY <4>1 DEF SegCell
      <4> QED
        BY <1>2, <4>1, <4>2 DEF i
    <3> QED
      BY <1>4, <2>1, <3>2, <3>3 DEF i
  <2> QED
    BY <2>2, <2>3
<1>6. ASSUME NEW i \in 0..n - 1, \A k \in 0..(g.n1 + g.n2) - 1 : SegCell(g, k) # i
      PROVE  Written(array, g, batch)[i] = array[i]
  <2>1. i - g.i1 \notin 0..g.n1 - 1
    <3> SUFFICES ASSUME i - g.i1 \in 0..g.n1 - 1 PROVE FALSE
      OBVIOUS
    <3> DEFINE j == i - g.i1
    <3>1. j \in 0..(g.n1 + g.n2) - 1 /\ j < g.n1 /\ g.i1 + j = i
      BY <1>2, <1>7, InFirst
    <3> HIDE DEF j
    <3>2. SegCell(g, j) = i
      BY <3>1 DEF SegCell
    <3> QED
      BY <1>6, <3>1, <3>2
  <2>2. i - g.i2 \notin 0..g.n2 - 1
    <3> SUFFICES ASSUME i - g.i2 \in 0..g.n2 - 1 PROVE FALSE
      OBVIOUS
    <3> DEFINE j == g.n1 + (i - g.i2)
    <3>1. j \in 0..(g.n1 + g.n2) - 1 /\ ~(j < g.n1) /\ g.i2 + (j - g.n1) = i
      BY <1>2, <1>7, InSecond
    <3> HIDE DEF j
    <3>2. SegCell(g, j) = i
      BY <3>1 DEF SegCell
    <3> QED
      BY <1>6, <3>1, <3>2
  <2> QED
    BY <1>4, <2>1, <2>2
<1> QED
  BY <1>5, <1>6 DEF PutInto

\* read() gives a batch, whatever it tears.
LEMMA ReadBatch ==
  ASSUME NEW n \in Nat, NEW g, Inside(g, n), NEW array \in Array(n)
  PROVE  ReadFrom(array, g) \in [1..g.n1 + g.n2 -> Values \cup {None}]
<1>1. \A i \in 0..n - 1 : array[i] \in Values \cup {None}
  BY DEF Array
<1>2. /\ g.n1 \in Nat /\ g.n2 \in Nat /\ g.i1 \in Int /\ g.i2 \in Int
      /\ \A k \in 0..(g.n1 + g.n2) - 1 : SegCell(g, k) \in 0..n - 1
  BY DEF Inside
<1>3. Whole(g.n1) \in 0..g.n1 /\ Whole(g.n2) \in 0..g.n2
  BY <1>2, WholeIsPart
<1> SUFFICES ASSUME NEW k \in 1..g.n1 + g.n2
             PROVE  ReadFrom(array, g)[k] \in Values \cup {None}
  BY DEF ReadFrom
<1>4. k <= Whole(g.n1) => SegCell(g, k - 1) = g.i1 + k - 1
  BY <1>2, <1>3 DEF SegCell
<1>5. k - g.n1 \in 1..Whole(g.n2) => SegCell(g, k - 1) = g.i2 + k - g.n1 - 1
  BY <1>2, <1>3 DEF SegCell
<1>6. SegCell(g, k - 1) \in 0..n - 1
  <2>1. k - 1 \in 0..(g.n1 + g.n2) - 1
    BY <1>2
  <2> QED
    BY <1>2, <2>1
<1>7. ReadFrom(array, g)[k] = IF k <= Whole(g.n1) THEN array[g.i1 + k - 1]
                              ELSE IF k - g.n1 \in 1..Whole(g.n2) THEN array[g.i2 + k - g.n1 - 1]
                              ELSE None
  BY DEF ReadFrom
<1> QED
  BY <1>1, <1>4, <1>5, <1>6, <1>7

\* With elements of one byte, read() gives the elements of the cells.
LEMMA ReadCells ==
  ASSUME ElemSize = 1, NEW n \in Nat, NEW g, Inside(g, n), NEW array
  PROVE  \A k \in 1..g.n1 + g.n2 : ReadFrom(array, g)[k] = array[SegCell(g, k - 1)]
<1>1. g.n1 \in Nat /\ g.n2 \in Nat /\ g.i1 \in Int /\ g.i2 \in Int
  BY DEF Inside
<1>2. Whole(g.n1) = g.n1 /\ Whole(g.n2) = g.n2
  BY <1>1, WholeIsAll
<1> SUFFICES ASSUME NEW k \in 1..g.n1 + g.n2
             PROVE  ReadFrom(array, g)[k] = array[SegCell(g, k - 1)]
  OBVIOUS
<1>3. SegCell(g, k - 1) = IF k <= g.n1 THEN g.i1 + k - 1 ELSE g.i2 + k - g.n1 - 1
  BY <1>1 DEF SegCell
<1>4. k <= g.n1 \/ k - g.n1 \in 1..g.n2
  BY <1>1
<1>5. ReadFrom(array, g)[k] = IF k <= g.n1 THEN array[g.i1 + k - 1]
                              ELSE IF k - g.n1 \in 1..g.n2 THEN array[g.i2 + k - g.n1 - 1]
                              ELSE None
  BY <1>2 DEF ReadFrom
<1> QED
  BY <1>3, <1>4, <1>5

-----------------------------------------------------------------------------
\* A buffer, the cell of its element k = 0, 1, ..., counted from 0, and the
\* element.
IsBuffer(c) == c.size \in Nat \ {0} /\ c \in Buffer(c.size)
Cell(c, k)  == Normalize(c.start + 1 + k, c.size) - 1
At(c, k)    == c.data[Cell(c, k)]

\* The numbers of a buffer.
LEMMA BufferParts ==
  ASSUME NEW c, IsBuffer(c)
  PROVE  /\ c.size \in Nat \ {0} /\ c.start \in 0..c.size - 1 /\ c.length \in 0..c.size
         /\ c.data \in Array(c.size) /\ c.autogrow \in BOOLEAN
         /\ c.start + 1 \in 1..c.size
         /\ \A k \in Int : c.start + 1 + k \in Int /\ Cell(c, k) \in 0..c.size - 1
         /\ \A j, k \in 0..c.size - 1 : Cell(c, j) = Cell(c, k) => j = k
<1>1. /\ c.size \in Nat \ {0} /\ c.start \in 0..c.size - 1 /\ c.length \in 0..c.size
      /\ c.data \in Array(c.size) /\ c.autogrow \in BOOLEAN
  BY DEF IsBuffer, Buffer
<1>2. c.start + 1 \in 1..c.size /\ c.start + 1 \in Int
  BY <1>1
<1>3. \A k \in Int : c.start + 1 + k \in Int
  BY <1>1
<1>4. \A k \in Int : Normalize(c.start + 1 + k, c.size) \in 1..c.size
  BY <1>1, <1>3, NormalizeCell
<1>5. \A k \in Int : Cell(c, k) \in 0..c.size - 1
  <2> TAKE k \in Int
  <2> DEFINE x == Normalize(c.start + 1 + k, c.size)
  <2>1. x \in 1..c.size
    BY <1>4
  <2> HIDE DEF x
  <2>2. x - 1 \in 0..c.size - 1
    BY <1>1, <2>1
  <2> QED
    BY <2>2 DEF x, Cell
<1>6. ASSUME NEW j \in 0..c.size - 1, NEW k \in 0..c.size - 1, Cell(c, j) = Cell(c, k)
      PROVE  j = k
  <2> DEFINE x == Normalize(c.start + 1 + j, c.size)
  <2> DEFINE y == Normalize(c.start + 1 + k, c.size)
  <2>1. x \in 1..c.size /\ y \in 1..c.size /\ x - 1 = y - 1
    BY <1>4, <1>6 DEF Cell
  <2>2. \A l, m \in 0..c.size - 1 :
          Normalize(c.start + 1 + l, c.size) = Normalize(c.start + 1 + m, c.size) => l = m
    BY <1>1, <1>2, ArcInjective
  <2>3. x = y => j = k
    BY <2>2
  <2> HIDE DEF x, y
  <2> QED
    BY <1>1, <2>1, <2>3
<1> QED
  BY <1>1, <1>2, <1>3, <1>5, <1>6

\* A buffer with other elements, another head and another length.
Becomes(c, e, d, s, l) == e = [c EXCEPT !.data = d, !.start = s, !.length = l]

\* It is a buffer again, and has what it was given.
LEMMA Changed ==
  ASSUME NEW c, IsBuffer(c), NEW d \in Array(c.size), NEW s \in 0..c.size - 1,
         NEW l \in 0..c.size,
         NEW e, Becomes(c, e, d, s, l)
  PROVE  /\ IsBuffer(e) /\ e.data = d /\ e.start = s /\ e.length = l
         /\ e.size = c.size /\ e.autogrow = c.autogrow
BY DEF IsBuffer, Buffer, Becomes

\* After a move of the head, element k is what was element k + l.
LEMMA HeadMoved ==
  ASSUME NEW c, IsBuffer(c), NEW l \in Int
  PROVE  /\ Normalize(c.start + 1 + l, c.size) - 1 \in 0..c.size - 1
         /\ \A e : \A k \in Int :
              e.start = Normalize(c.start + 1 + l, c.size) - 1 /\ e.size = c.size
                => Cell(e, k) = Cell(c, l + k)
<1> DEFINE s == c.start + 1
<1> DEFINE h == Normalize(s + l, c.size)
<1>1. c.size \in Nat \ {0} /\ s \in Int
  BY BufferParts
<1> HIDE DEF s
<1>2. s + l \in Int
  BY <1>1
<1>3. h \in 1..c.size
  BY <1>1, <1>2, NormalizeCell
<1>4. \A k \in Int : Normalize(h + k, c.size) = Normalize(s + l + k, c.size)
  BY <1>1, <1>2, NormalizeAgain
<1> HIDE DEF h
<1>5. h - 1 \in 0..c.size - 1 /\ (h - 1) + 1 = h
  BY <1>1, <1>3
<1>6. \A k \in Int : s + l + k = s + (l + k)
  BY <1>1
<1>7. ASSUME NEW e, NEW k \in Int, e.start = h - 1, e.size = c.size
      PROVE  Cell(e, k) = Cell(c, l + k)
  BY <1>4, <1>5, <1>6, <1>7 DEF Cell, s
<1> QED
  BY <1>5, <1>7 DEF h, s

-----------------------------------------------------------------------------
\* The buffer after a push and after a pull.
Pushed(c, len, batch) ==
  LET p == Push(len, c.start + 1, c.length, c.size)
  IN [c EXCEPT !.data   = Written(c.data, NormalizeSegs(p.segs), batch),
               !.start  = p.start - 1,
               !.length = p.length]
Pulled(c, len) ==
  LET p == Pull(len, c.start + 1, c.length, c.size)
  IN [c EXCEPT !.start = p.start - 1, !.length = p.length]
Out(c, len) == ReadFrom(c.data, NormalizeSegs(Pull(len, c.start + 1, c.length, c.size).segs))

\* Two buffers of the same circle and switch.
Alike(c, e) == e.size = c.size /\ e.autogrow = c.autogrow

\* push() at the tail: the elements that were there stay, the batch follows.
LEMMA TailPushed ==
  ASSUME NEW c, IsBuffer(c), NEW len \in 1..c.size - c.length, NEW batch \in BatchOf(len),
         NEW e, e = Pushed(c, len, batch)
  PROVE  /\ IsBuffer(e) /\ Alike(c, e) /\ e.length = c.length + len
         /\ ElemSize = 1 => /\ \A k \in 0..c.length - 1 : At(e, k) = At(c, k)
                            /\ \A k \in 0..len - 1 : At(e, c.length + k) = batch[k + 1]
<1> DEFINE s == c.start + 1 + c.length
<1> DEFINE g == NormalizeSegs(Segments(s, len, c.size))
<1>1. /\ c.size \in Nat \ {0} /\ c.start \in 0..c.size - 1 /\ c.length \in 0..c.size
      /\ c.data \in Array(c.size)
      /\ \A k \in Int : Cell(c, k) \in 0..c.size - 1
      /\ \A j, k \in 0..c.size - 1 : Cell(c, j) = Cell(c, k) => j = k
  BY BufferParts
<1>2. s \in Int /\ len \in 0..c.size /\ len > 0 /\ len \in Nat
  BY <1>1
<1>3. Sweeps(g, s, len, c.size)
  BY <1>1, <1>2, SegsForwards
<1>4. Becomes(c, e, Written(c.data, g, batch), c.start, c.length + len)
  <2>1. (c.start + 1) - 1 = c.start /\ Abs(len) = len
    BY <1>1, <1>2 DEF Abs
  <2>2. Push(len, c.start + 1, c.length, c.size)
          = [start |-> c.start + 1, length |-> c.length + len, segs |-> Segments(s, len, c.size)]
    BY <1>2, <2>1 DEF Push
  <2> DEFINE p == Push(len, c.start + 1, c.length, c.size)
  <2>3. /\ p.start = c.start + 1 /\ p.length = c.length + len
        /\ p.segs = Segments(s, len, c.size)
    BY <2>2
  <2>5. p.start - 1 = c.start
    <3> HIDE DEF p
    <3> QED
      BY <1>1, <2>1, <2>3
  <2>6. NormalizeSegs(p.segs) = g
    BY <2>3, Zenon
  <2>4. Becomes(c, e, Written(c.data, NormalizeSegs(p.segs), batch), p.start - 1, p.length)
    BY DEF Pushed, Becomes
  <2> HIDE DEF p, g
  <2> QED
    BY <2>3, <2>4, <2>5, <2>6, Zenon
<1> HIDE DEF g
<1>5. Inside(g, c.size) /\ g.n1 + g.n2 = len
  BY <1>3 DEF Sweeps
<1>6. Written(c.data, g, batch) \in Array(c.size)
  BY <1>1, <1>5, WrittenArray
<1>7. /\ IsBuffer(e) /\ Alike(c, e) /\ e.length = c.length + len
      /\ e.data = Written(c.data, g, batch) /\ e.start = c.start
  <2>1. c.length + len \in 0..c.size
    BY <1>1
  <2> QED
    BY <1>1, <1>4, <1>6, <2>1, Changed DEF Alike
<1>8. ASSUME ElemSize = 1
      PROVE  /\ \A k \in 0..c.length - 1 : At(e, k) = At(c, k)
             /\ \A k \in 0..len - 1 : At(e, c.length + k) = batch[k + 1]
  <2>1. /\ \A k \in 0..len - 1 : e.data[SegCell(g, k)] = batch[k + 1]
        /\ \A i \in 0..c.size - 1 : (\A k \in 0..len - 1 : SegCell(g, k) # i) => e.data[i] = c.data[i]
    <3>1. PutInto(e.data, c.data, g, g.n1 + g.n2, batch, c.size)
      <4>1. c.size \in Nat /\ batch \in BatchOf(g.n1 + g.n2)
        BY <1>1, <1>5
      <4> QED
        BY <1>1, <1>5, <1>7, <1>8, <4>1, WrittenCells
    <3>2. PutInto(e.data, c.data, g, len, batch, c.size)
      BY <1>5, <3>1
    <3> QED
      BY <3>2 DEF PutInto
  <2>2. \A k \in 0..len - 1 : SegCell(g, k) = Cell(c, c.length + k)
    <3>1. \A k \in 0..len - 1 : s + k = c.start + 1 + (c.length + k)
      BY <1>1
    <3> QED
      BY <1>3, <3>1 DEF Sweeps, Cell
  <2>3. \A k : Cell(e, k) = Cell(c, k)
    BY <1>7 DEF Cell, Alike
  <2>4. ASSUME NEW k \in 0..c.length - 1
        PROVE  At(e, k) = At(c, k)
    <3>1. \A j \in 0..len - 1 : c.length + j \in 0..c.size - 1 /\ c.length + j # k
      BY <1>1
    <3>2. k \in 0..c.size - 1 /\ k \in Int
      BY <1>1
    <3>3. \A j \in 0..len - 1 : SegCell(g, j) # Cell(c, k)
      BY <1>1, <2>2, <3>1, <3>2
    <3> QED
      BY <1>1, <2>1, <2>3, <3>2, <3>3 DEF At
  <2> QED
    BY <2>1, <2>2, <2>3, <2>4 DEF At
<1> QED
  BY <1>7, <1>8

\* push() at the head: the batch comes before the elements that were there, in
\* order if it is a single element.
LEMMA HeadPushed ==
  ASSUME NEW c, IsBuffer(c), NEW l \in 1..c.size - c.length, NEW batch \in BatchOf(l),
         NEW e, e = Pushed(c, -l, batch)
  PROVE  /\ IsBuffer(e) /\ Alike(c, e) /\ e.length = c.length + l
         /\ ElemSize = 1 => /\ \A k \in 0..c.length - 1 : At(e, l + k) = At(c, k)
                            /\ \A k \in 0..l - 1 : At(e, k) \in Values
                            /\ l = 1 => At(e, 0) = batch[1]
<1> DEFINE s == c.start + 1 - l
<1> DEFINE g == NormalizeSegs(Segments(s + l - 1, -l, c.size))
<1>1. /\ c.size \in Nat \ {0} /\ c.start \in 0..c.size - 1 /\ c.length \in 0..c.size
      /\ c.data \in Array(c.size)
      /\ \A k \in Int : Cell(c, k) \in 0..c.size - 1
  BY BufferParts
<1>2. s \in Int /\ l \in 1..c.size /\ l \in Nat /\ -l \in Int
  BY <1>1
<1>3. Covers(g, s, l, c.size)
  BY <1>1, <1>2, SegsBackwards
<1> DEFINE h == Normalize(c.start + 1 + (-l), c.size) - 1
<1>4. Becomes(c, e, Written(c.data, g, batch), h, c.length + l)
  <2>1. (c.start + 1) - 1 = s + l - 1 /\ Abs(-l) = l /\ ~(-l > 0) /\ -l < 0
    BY <1>1, <1>2 DEF Abs
  <2> DEFINE p == Push(-l, c.start + 1, c.length, c.size)
  <2> DEFINE m == -l
  <2>0. m = -l /\ m \in Int /\ m < 0 /\ ~(m > 0) /\ Abs(m) = l
    BY <1>2 DEF Abs
  <2> HIDE DEF m
  <2>5. Push(m, c.start + 1, c.length, c.size)
          = [start  |-> IF m < 0 THEN Normalize(c.start + 1 + m, c.size) ELSE c.start + 1,
             length |-> c.length + Abs(m),
             segs   |-> IF m > 0 THEN Segments(c.start + 1 + c.length, m, c.size)
                        ELSE IF m < 0 THEN Segments((c.start + 1) - 1, m, c.size)
                        ELSE NoSegments]
    BY DEF Push
  <2>6. p = [start |-> Normalize(c.start + 1 + m, c.size), length |-> c.length + l,
             segs |-> Segments((c.start + 1) - 1, m, c.size)]
    BY <2>0, <2>5
  <2>2. /\ p.start - 1 = h /\ p.length = c.length + l
        /\ p.segs = Segments((c.start + 1) - 1, -l, c.size)
    BY <2>0, <2>6
  <2>3. NormalizeSegs(p.segs) = g
    BY <2>1, <2>2
  <2>4. Becomes(c, e, Written(c.data, NormalizeSegs(p.segs), batch), p.start - 1, p.length)
    BY DEF Pushed, Becomes
  <2> HIDE DEF p, g, h
  <2> QED
    BY <2>2, <2>3, <2>4, Zenon
<1> HIDE DEF g
<1>5. Inside(g, c.size) /\ g.n1 + g.n2 = l
  BY <1>3 DEF Covers
<1>6. Written(c.data, g, batch) \in Array(c.size)
  BY <1>1, <1>5, WrittenArray
<1>7. /\ h \in 0..c.size - 1
      /\ \A x : \A k \in Int : x.start = h /\ x.size = c.size => Cell(x, k) = Cell(c, (-l) + k)
  BY <1>2, HeadMoved
<1> HIDE DEF h
<1>8. /\ IsBuffer(e) /\ Alike(c, e) /\ e.length = c.length + l
      /\ e.data = Written(c.data, g, batch) /\ e.start = h
  <2>1. c.length + l \in 0..c.size
    BY <1>1
  <2> QED
    BY <1>1, <1>4, <1>6, <1>7, <2>1, Changed DEF Alike
<1>9. ASSUME ElemSize = 1
      PROVE  /\ \A k \in 0..c.length - 1 : At(e, l + k) = At(c, k)
             /\ \A k \in 0..l - 1 : At(e, k) \in Values
             /\ l = 1 => At(e, 0) = batch[1]
  <2>1. /\ \A k \in 0..l - 1 : e.data[SegCell(g, k)] = batch[k + 1]
        /\ \A i \in 0..c.size - 1 : (\A k \in 0..l - 1 : SegCell(g, k) # i) => e.data[i] = c.data[i]
    <3>1. PutInto(e.data, c.data, g, g.n1 + g.n2, batch, c.size)
      <4>1. c.size \in Nat /\ batch \in BatchOf(g.n1 + g.n2)
        BY <1>1, <1>5
      <4> QED
        BY <1>1, <1>5, <1>8, <1>9, <4>1, WrittenCells
    <3>2. PutInto(e.data, c.data, g, l, batch, c.size)
      BY <1>5, <3>1
    <3> QED
      BY <3>2 DEF PutInto
  <2>2. /\ \A k \in Int : Cell(e, k) = Cell(c, (-l) + k)
        /\ \A j, k \in 0..c.size - 1 : Cell(e, j) = Cell(e, k) => j = k
    BY <1>7, <1>8, BufferParts DEF Alike
  <2>3. \A m \in 0..l - 1 : Cell(e, m) = Normalize(s + m, c.size) - 1
    <3>1. \A m \in 0..l - 1 : m \in Int /\ s + m = c.start + 1 + ((-l) + m)
      BY <1>1
    <3> QED
      BY <2>2, <3>1 DEF Cell
  <2>4. /\ \A k \in 0..l - 1 : \E m \in 0..l - 1 : SegCell(g, k) = Cell(e, m)
        /\ \A m \in 0..l - 1 : \E k \in 0..l - 1 : SegCell(g, k) = Cell(e, m)
    BY <1>3, <2>3 DEF Covers
  <2>5. ASSUME NEW k \in 0..c.length - 1
        PROVE  At(e, l + k) = At(c, k)
    <3>1. l + k \in 0..c.size - 1 /\ l + k \in Int /\ (-l) + (l + k) = k /\ k \in Int
          /\ \A m \in 0..l - 1 : m \in 0..c.size - 1 /\ m # l + k
      BY <1>1
    <3>2. Cell(e, l + k) = Cell(c, k)
      BY <2>2, <3>1
    <3>3. \A j \in 0..l - 1 : SegCell(g, j) # Cell(c, k)
      <4>1. \A m \in 0..l - 1 : Cell(e, m) # Cell(e, l + k)
        BY <2>2, <3>1
      <4> QED
        BY <2>4, <3>2, <4>1
    <3> QED
      BY <1>1, <2>1, <3>1, <3>2, <3>3 DEF At
  <2>6. ASSUME NEW m \in 0..l - 1
        PROVE  At(e, m) \in Values
    <3>1. PICK k \in 0..l - 1 : SegCell(g, k) = Cell(e, m)
      BY <2>4
    <3>2. k + 1 \in 1..l
      BY <1>2
    <3>3. batch[k + 1] \in Values
      BY <3>2 DEF BatchOf
    <3> QED
      BY <2>1, <3>1, <3>3 DEF At
  <2>7. ASSUME l = 1
        PROVE  At(e, 0) = batch[1]
    <3>1. 0 \in 0..l - 1 /\ \A k \in 0..l - 1 : k = 0 /\ k + 1 = 1
      BY <2>7
    <3>2. SegCell(g, 0) = Cell(e, 0)
      BY <2>4, <3>1
    <3> QED
      BY <2>1, <3>1, <3>2 DEF At
  <2> QED
    BY <2>5, <2>6, <2>7
<1> QED
  BY <1>8, <1>9

-----------------------------------------------------------------------------
\* pull() at the head: what is left are the elements from the l-th on, and what
\* comes out, of elements of one byte, are the first l.
LosesFirst(c, l, e) ==
  /\ IsBuffer(e) /\ Alike(c, e) /\ e.length = c.length - l
  /\ \A k \in Int : At(e, k) = At(c, l + k)
  /\ ElemSize = 1 => /\ Out(c, l) \in [1..l -> Values \cup {None}]
                     /\ \A k \in 1..l : Out(c, l)[k] = At(c, k - 1)

\* That is what it does.
LEMMA HeadPulled ==
  ASSUME NEW c, IsBuffer(c), NEW l \in 1..c.length, NEW e, e = Pulled(c, l)
  PROVE  LosesFirst(c, l, e)
<1> DEFINE s == c.start + 1
<1> DEFINE g == NormalizeSegs(Segments(s, l, c.size))
<1> DEFINE h == Normalize(s + l, c.size) - 1
<1>1. /\ c.size \in Nat \ {0} /\ c.start \in 0..c.size - 1 /\ c.length \in 0..c.size
      /\ c.data \in Array(c.size) /\ s \in Int
  BY BufferParts
<1>2. l \in 0..c.size /\ l > 0 /\ l \in Int /\ Abs(l) = l
  BY <1>1 DEF Abs
<1>3. Sweeps(g, s, l, c.size)
  BY <1>1, <1>2, SegsForwards
<1>4. /\ h \in 0..c.size - 1
      /\ \A x : \A k \in Int : x.start = h /\ x.size = c.size => Cell(x, k) = Cell(c, l + k)
  BY <1>2, HeadMoved
<1> DEFINE p == Pull(l, s, c.length, c.size)
<1>5. /\ p.start = Normalize(s + l, c.size) /\ p.length = c.length - l
      /\ p.segs = Segments(s, l, c.size)
  BY <1>2 DEF Pull
<1>6. NormalizeSegs(p.segs) = g /\ p.start - 1 = h
  BY <1>5
<1>7. e = [c EXCEPT !.start = p.start - 1, !.length = p.length]
  BY DEF Pulled
<1>8. Out(c, l) = ReadFrom(c.data, g)
  BY <1>6 DEF Out
<1> HIDE DEF g, h, p
<1>9. Becomes(c, e, c.data, h, c.length - l)
  BY <1>1, <1>5, <1>6, <1>7 DEF Becomes, IsBuffer, Buffer
<1>10. /\ IsBuffer(e) /\ e.data = c.data /\ e.start = h /\ e.length = c.length - l
       /\ e.size = c.size /\ e.autogrow = c.autogrow
  <2>1. c.length - l \in 0..c.size
    BY <1>1
  <2> QED
    BY <1>1, <1>4, <1>9, <2>1, Changed
<1>11. \A k \in Int : At(e, k) = At(c, l + k)
  BY <1>4, <1>10 DEF At
<1>12. ASSUME ElemSize = 1
       PROVE  /\ Out(c, l) \in [1..l -> Values \cup {None}]
              /\ \A k \in 1..l : Out(c, l)[k] = At(c, k - 1)
  <2>1. Inside(g, c.size) /\ g.n1 + g.n2 = l
    BY <1>3 DEF Sweeps
  <2>2. Out(c, l) \in [1..l -> Values \cup {None}]
    BY <1>1, <1>8, <2>1, ReadBatch
  <2>3. \A k \in 1..l : Out(c, l)[k] = c.data[SegCell(g, k - 1)]
    BY <1>1, <1>8, <1>12, <2>1, ReadCells
  <2>4. \A k \in 1..l : SegCell(g, k - 1) = Cell(c, k - 1)
    <3>1. \A k \in 1..l : k - 1 \in 0..l - 1
      BY <1>2
    <3> QED
      BY <1>3, <3>1 DEF Sweeps, Cell
  <2> QED
    BY <2>2, <2>3, <2>4 DEF At
<1> QED
  BY <1>10, <1>11, <1>12 DEF Alike, LosesFirst

\* pull() at the tail: the first elements are left, and a single element that
\* comes out was the last.
LEMMA TailPulled ==
  ASSUME NEW c, IsBuffer(c), NEW l \in 1..c.length, NEW e, e = Pulled(c, -l)
  PROVE  /\ IsBuffer(e) /\ Alike(c, e) /\ e.length = c.length - l
         /\ \A k \in Int : At(e, k) = At(c, k)
         /\ ElemSize = 1 /\ l = 1 => /\ Out(c, -l) \in [1..1 -> Values \cup {None}]
                                     /\ Out(c, -l)[1] = At(c, c.length - 1)
<1> DEFINE s == (c.start + 1) + (c.length - l)
<1> DEFINE g == NormalizeSegs(Segments(s + l - 1, -l, c.size))
<1>1. /\ c.size \in Nat \ {0} /\ c.start \in 0..c.size - 1 /\ c.length \in 0..c.size
      /\ c.data \in Array(c.size)
  BY BufferParts
<1>2. l \in 1..c.size /\ s \in Int
  BY <1>1
<1>3. Covers(g, s, l, c.size)
  BY <1>1, <1>2, SegsBackwards
<1> DEFINE m == -l
<1> DEFINE p == Pull(m, c.start + 1, c.length, c.size)
<1>4. m = -l /\ m \in Int /\ m < 0 /\ ~(m > 0) /\ Abs(m) = l
  BY <1>2 DEF Abs
<1>5. c.start + 1 + c.length - 1 = s + l - 1
  BY <1>1, <1>2
<1> HIDE DEF m
<1>6. /\ p.start = c.start + 1 /\ p.length = c.length - l
      /\ p.segs = Segments(c.start + 1 + c.length - 1, m, c.size)
  BY <1>4 DEF Pull
<1>7. NormalizeSegs(p.segs) = g
  BY <1>4, <1>5, <1>6
<1>8. e = [c EXCEPT !.start = p.start - 1, !.length = p.length]
  BY <1>4 DEF Pulled
<1>9. Out(c, -l) = ReadFrom(c.data, g)
  BY <1>4, <1>7 DEF Out
<1> HIDE DEF g, p
<1>10. p.start - 1 = c.start
  BY <1>1, <1>6
<1>11. Becomes(c, e, c.data, c.start, c.length - l)
  BY <1>1, <1>6, <1>8, <1>10 DEF Becomes, IsBuffer, Buffer
<1>12. /\ IsBuffer(e) /\ e.data = c.data /\ e.start = c.start /\ e.length = c.length - l
       /\ e.size = c.size /\ e.autogrow = c.autogrow
  <2>1. c.length - l \in 0..c.size
    BY <1>1
  <2> QED
    BY <1>1, <1>11, <2>1, Changed
<1>13. \A k \in Int : At(e, k) = At(c, k)
  BY <1>12 DEF At, Cell
<1>14. ASSUME ElemSize = 1, l = 1
       PROVE  /\ Out(c, -l) \in [1..1 -> Values \cup {None}]
              /\ Out(c, -l)[1] = At(c, c.length - 1)
  <2>1. Inside(g, c.size) /\ g.n1 + g.n2 = 1
    BY <1>3, <1>14 DEF Covers
  <2>2. Out(c, -l) \in [1..1 -> Values \cup {None}]
    BY <1>1, <1>9, <2>1, ReadBatch
  <2>3. Out(c, -l)[1] = c.data[SegCell(g, 1 - 1)]
    <3>1. 1 \in 1..g.n1 + g.n2
      BY <2>1
    <3> QED
      BY <1>1, <1>9, <1>14, <2>1, <3>1, ReadCells
  <2>4. SegCell(g, 1 - 1) = Cell(c, c.length - 1)
    <3>1. 1 - 1 \in 0..l - 1 /\ \A k \in 0..l - 1 : k = 0
      BY <1>14
    <3>2. SegCell(g, 1 - 1) = Normalize(s + 0, c.size) - 1
      BY <1>3, <3>1 DEF Covers
    <3>3. s + 0 = c.start + 1 + (c.length - 1)
      BY <1>1, <1>14
    <3> QED
      BY <3>2, <3>3 DEF Cell
  <2> QED
    BY <2>2, <2>3, <2>4 DEF At
<1> QED
  BY <1>12, <1>13, <1>14 DEF Alike

\* checksize(): a buffer with room for len elements and the same elements, from
\* the first cell on if it was reallocated.
LEMMA CheckSizeKeeps ==
  ASSUME IsBuffer(buf), NEW len \in Int, NEW c, c = CheckSize(len)
  PROVE  /\ IsBuffer(c) /\ c.length = buf.length /\ c.autogrow = buf.autogrow
         /\ len <= c.size - c.length
         /\ c = buf \/ c.size > buf.size
         /\ ElemSize = 1 => \A k \in 0..buf.length - 1 : At(c, k) = At(buf, k)
<1> DEFINE n == Greatest(buf.size * 2, buf.length + len)
<1> DEFINE s == buf.start + 1
<1> DEFINE g == NormalizeSegs(Segments(s, buf.length, buf.size))
<1> DEFINE old == ReadFrom(buf.data, g)
<1> DEFINE d == [i \in 0..n - 1 |-> IF i < buf.length THEN old[i + 1] ELSE None]
<1>1. /\ buf.size \in Nat \ {0} /\ buf.start \in 0..buf.size - 1 /\ buf.length \in 0..buf.size
      /\ buf.data \in Array(buf.size) /\ buf.autogrow \in BOOLEAN /\ s \in Int
  BY BufferParts
<1>2. CASE len <= buf.size - buf.length
  <2>1. c = buf
    BY <1>2 DEF CheckSize
  <2> QED
    BY <1>2, <2>1
<1>3. CASE ~(len <= buf.size - buf.length)
  <2>1. c = [buf EXCEPT !.data = d, !.start = 0, !.size = n]
    BY <1>3 DEF CheckSize
  <2>2. n \in Nat \ {0} /\ n >= buf.length + len /\ n > buf.size
    BY <1>1 DEF Greatest
  <2>3. Sweeps(g, s, buf.length, buf.size)
    BY <1>1, SegsForwards
  <2> HIDE DEF g
  <2>4. Inside(g, buf.size) /\ g.n1 + g.n2 = buf.length
    BY <2>3 DEF Sweeps
  <2>5. old \in [1..buf.length -> Values \cup {None}]
    BY <1>1, <2>4, ReadBatch
  <2> HIDE DEF old, n
  <2>6. d \in Array(n)
    <3>1. \A i \in 0..n - 1 : i < buf.length => i + 1 \in 1..buf.length
      BY <1>1, <2>2
    <3> QED
      BY <2>5, <3>1 DEF Array
  <2>7. \A k \in 0..buf.length - 1 : d[k] = old[k + 1]
    BY <1>1, <2>2
  <2> HIDE DEF d
  <2>8. /\ c.data = d /\ c.start = 0 /\ c.size = n /\ c.length = buf.length
        /\ c.autogrow = buf.autogrow
        /\ c = [data |-> d, start |-> 0, length |-> buf.length, size |-> n,
                autogrow |-> buf.autogrow]
    BY <2>1 DEF IsBuffer, Buffer
  <2>9. IsBuffer(c)
    <3>1. 0 \in 0..n - 1 /\ buf.length \in 0..n
      BY <1>1, <2>2
    <3> QED
      BY <1>1, <2>2, <2>6, <2>8, <3>1 DEF IsBuffer, Buffer
  <2>10. ASSUME ElemSize = 1, NEW k \in 0..buf.length - 1
         PROVE  At(c, k) = At(buf, k)
    <3>1. Cell(c, k) = k
      <4>1. k + 1 \in 1..n /\ n * 0 + (k + 1) = 0 + 1 + k /\ 0 \in Int /\ (k + 1) - 1 = k
        BY <1>1, <2>2
      <4>2. Normalize(n * 0 + (k + 1), n) = k + 1
        BY <2>2, <4>1, NormalizeTurns
      <4> QED
        BY <2>8, <4>1, <4>2 DEF Cell
    <3>2. k + 1 \in 1..g.n1 + g.n2 /\ (k + 1) - 1 = k
      BY <1>1, <2>4
    <3>3. old[k + 1] = buf.data[SegCell(g, (k + 1) - 1)]
      BY <1>1, <2>4, <2>10, <3>2, ReadCells DEF old
    <3>4. SegCell(g, k) = Cell(buf, k)
      BY <2>3 DEF Sweeps, Cell
    <3> QED
      BY <2>7, <2>8, <3>1, <3>2, <3>3, <3>4 DEF At
  <2>11. len <= c.size - c.length
    BY <1>1, <2>2, <2>8
  <2> QED
    BY <2>2, <2>8, <2>9, <2>10, <2>11
<1> QED
  BY <1>2, <1>3

-----------------------------------------------------------------------------
\* A sequence of n elements.
Elements     == Values \cup {None}
IsList(r, n) == r \in Seq(Elements) /\ Len(r) = n

\* Arrays that count from 1 are sequences.
LEMMA FunctionIsList ==
  ASSUME NEW n \in Nat, NEW r \in [1..n -> Elements]
  PROVE  IsList(r, n)
<1>1. r \in Seq(Elements)
  BY SeqDef
<1>2. DOMAIN r = 1..n
  OBVIOUS
<1>3. Len(r) \in Nat /\ DOMAIN r = 1..Len(r)
  BY <1>1, LenProperties
<1> DEFINE m == Len(r)
<1>4. m \in Nat /\ 1..m = 1..n
  BY <1>2, <1>3
<1> HIDE DEF m
<1>5. m = n
  BY <1>4
<1> QED
  BY <1>1, <1>5 DEF IsList, m

\* Sequences with the same elements are equal.
LEMMA SameList ==
  ASSUME NEW r, NEW q, NEW n, IsList(r, n), IsList(q, n),
         \A k \in 1..n : r[k] = q[k]
  PROVE  r = q
<1>1. /\ r \in Seq(Elements) /\ q \in Seq(Elements) /\ Len(r) = Len(q)
      /\ \A k \in 1..Len(r) : r[k] = q[k]
  BY DEF IsList
<1> QED
  BY <1>1, SeqEqual

\* The sequence x has the n elements of r and then the m of q.
Joins(x, r, q, n, m) == /\ IsList(x, n + m)
                        /\ \A k \in 1..n : x[k] = r[k]
                        /\ \A k \in 1..m : x[n + k] = q[k]

\* One sequence after another.
LEMMA Joined ==
  ASSUME NEW r, NEW q, NEW n \in Nat, NEW m \in Nat, IsList(r, n), IsList(q, m)
  PROVE  Joins(r \o q, r, q, n, m)
<1>1. r \in Seq(Elements) /\ q \in Seq(Elements) /\ Len(r) = n /\ Len(q) = m
  BY DEF IsList
<1>2. /\ r \o q \in Seq(Elements) /\ Len(r \o q) = n + m
      /\ \A k \in 1..n + m : (r \o q)[k] = IF k <= n THEN r[k] ELSE q[k - n]
  BY <1>1, ConcatProperties
<1>3. \A k \in 1..n : k \in 1..n + m /\ k <= n
  OBVIOUS
<1>4. \A k \in 1..m : n + k \in 1..n + m /\ ~(n + k <= n) /\ (n + k) - n = k
  OBVIOUS
<1> QED
  BY <1>2, <1>3, <1>4 DEF IsList, Joins

\* A part of a sequence.
LEMMA PartOf ==
  ASSUME NEW r, NEW n \in Nat, IsList(r, n), NEW a \in 1..n + 1, NEW b \in a - 1..n
  PROVE  /\ IsList(SubSeq(r, a, b), (b - a) + 1)
         /\ \A k \in 1..(b - a) + 1 : SubSeq(r, a, b)[k] = r[(a + k) - 1]
<1>1. r \in Seq(Elements) /\ Len(r) = n
  BY DEF IsList
<1>2. \A i \in 1..n : r[i] \in Elements
  BY <1>1, ElementOfSeq
<1>3. a \in Int /\ b \in Int /\ a <= b + 1 /\ \A i \in a..b : i \in 1..n
  OBVIOUS
<1>4. \A i \in a..b : r[i] \in Elements
  BY <1>2, <1>3
<1>5. /\ SubSeq(r, a, b) \in Seq(Elements)
      /\ Len(SubSeq(r, a, b)) = IF a <= b THEN b - a + 1 ELSE 0
      /\ \A i \in 1..b - a + 1 : SubSeq(r, a, b)[i] = r[a + i - 1]
  BY <1>3, <1>4, SubSeqProperties
<1>6. (IF a <= b THEN b - a + 1 ELSE 0) = (b - a) + 1
  BY <1>3
<1>7. b - a + 1 = (b - a) + 1 /\ \A i \in Int : a + i - 1 = (a + i) - 1
  BY <1>3
<1>8. \A k \in 1..(b - a) + 1 : SubSeq(r, a, b)[k] = r[(a + k) - 1]
  <2> TAKE k \in 1..(b - a) + 1
  <2>1. k \in Int /\ k \in 1..b - a + 1
    BY <1>7
  <2> QED
    BY <1>5, <1>7, <2>1
<1> QED
  BY <1>5, <1>6, <1>8 DEF IsList

-----------------------------------------------------------------------------
\* The elements of a buffer from head to tail.
Row(c) == [k \in 1..c.length |-> At(c, k - 1)]

\* They are a sequence.
LEMMA RowIsList ==
  ASSUME NEW c, IsBuffer(c)
  PROVE  /\ IsList(Row(c), c.length)
         /\ \A k \in 1..c.length : Row(c)[k] = At(c, k - 1)
<1>1. /\ c.length \in Nat /\ c.data \in Array(c.size)
      /\ \A k \in Int : Cell(c, k) \in 0..c.size - 1
  BY BufferParts
<1>2. \A k \in 1..c.length : At(c, k - 1) \in Elements
  <2> TAKE k \in 1..c.length
  <2>1. Cell(c, k - 1) \in 0..c.size - 1
    BY <1>1
  <2> QED
    BY <1>1, <2>1 DEF Array, Elements, At
<1>3. Row(c) \in [1..c.length -> Elements]
  BY <1>2 DEF Row
<1>4. \A k \in 1..c.length : Row(c)[k] = At(c, k - 1)
  BY DEF Row
<1> QED
  BY <1>1, <1>3, <1>4, FunctionIsList

\* A batch is a sequence.
LEMMA BatchIsList ==
  ASSUME NEW n \in Nat, NEW batch \in BatchOf(n)
  PROVE  IsList(batch, n)
<1>1. batch \in [1..n -> Elements]
  BY DEF BatchOf, Elements
<1> QED
  BY <1>1, FunctionIsList

\* Two sequences one after the other, when the elements are known.
LEMMA IsJoined ==
  ASSUME NEW x, NEW r, NEW q, NEW n \in Nat, NEW m \in Nat,
         IsList(r, n), IsList(q, m), Joins(x, r, q, n, m)
  PROVE  x = r \o q
<1>1. Joins(r \o q, r, q, n, m)
  BY Joined
<1>3. /\ IsList(x, n + m) /\ IsList(r \o q, n + m)
      /\ \A k \in 1..n : x[k] = r[k] /\ (r \o q)[k] = r[k]
      /\ \A k \in 1..m : x[n + k] = q[k] /\ (r \o q)[n + k] = q[k]
  BY <1>1 DEF Joins
<1>2. ASSUME NEW k \in 1..n + m
      PROVE  x[k] = (r \o q)[k]
  <2>1. CASE k <= n
    <3>1. k \in 1..n
      BY <2>1
    <3> QED
      BY <1>3, <3>1
  <2>2. CASE ~(k <= n)
    <3> DEFINE j == k - n
    <3>1. j \in 1..m /\ n + j = k
      BY <2>2
    <3> HIDE DEF j
    <3>2. x[n + j] = (r \o q)[n + j]
      BY <1>3, <3>1
    <3> QED
      BY <3>1, <3>2
  <2> QED
    BY <2>1, <2>2
<1> DEFINE l == n + m
<1>4. IsList(x, l) /\ IsList(r \o q, l) /\ \A k \in 1..l : x[k] = (r \o q)[k]
  BY <1>2, <1>3
<1> HIDE DEF l
<1> QED
  BY <1>4, SameList

\* A part of a sequence, when the elements are known.
LEMMA IsPartOf ==
  ASSUME NEW x, NEW r, NEW n \in Nat, IsList(r, n), NEW a \in 1..n + 1, NEW b \in a - 1..n,
         IsList(x, (b - a) + 1),
         \A k \in 1..(b - a) + 1 : x[k] = r[(a + k) - 1]
  PROVE  x = SubSeq(r, a, b)
<1>1. /\ IsList(SubSeq(r, a, b), (b - a) + 1)
      /\ \A k \in 1..(b - a) + 1 : SubSeq(r, a, b)[k] = r[(a + k) - 1]
  BY PartOf
<1> DEFINE m == (b - a) + 1
<1>2. \A k \in 1..m : x[k] = SubSeq(r, a, b)[k]
  BY <1>1
<1>3. IsList(x, m) /\ IsList(SubSeq(r, a, b), m)
  BY <1>1
<1> HIDE DEF m
<1> QED
  BY <1>2, <1>3, SameList

-----------------------------------------------------------------------------
\* push() with elements of one byte, on the elements from head to tail: at the
\* tail, and a single one at the head.
LEMMA RowAppended ==
  ASSUME ElemSize = 1,
         NEW c, IsBuffer(c), NEW len \in 1..c.size - c.length, NEW batch \in BatchOf(len),
         NEW e, e = Pushed(c, len, batch)
  PROVE  Row(e) = Row(c) \o batch
<1>1. c.length \in Nat /\ len \in Nat /\ c.length + len \in Nat
  BY BufferParts
<1>2. /\ IsBuffer(e) /\ e.length = c.length + len
      /\ \A k \in 0..c.length - 1 : At(e, k) = At(c, k)
      /\ \A k \in 0..len - 1 : At(e, c.length + k) = batch[k + 1]
  BY TailPushed
<1>3. IsList(batch, len)
  BY <1>1, BatchIsList
<1>4. IsList(Row(c), c.length) /\ \A k \in 1..c.length : Row(c)[k] = At(c, k - 1)
  BY RowIsList
<1>5. IsList(Row(e), c.length + len) /\ \A k \in 1..c.length + len : Row(e)[k] = At(e, k - 1)
  BY <1>2, RowIsList
<1>6. ASSUME NEW k \in 1..c.length
      PROVE  Row(e)[k] = Row(c)[k]
  <2>1. k \in 1..c.length + len /\ k - 1 \in 0..c.length - 1
    BY <1>1
  <2> QED
    BY <1>2, <1>4, <1>5, <2>1
<1>7. ASSUME NEW k \in 1..len
      PROVE  Row(e)[c.length + k] = batch[k]
  <2>1. /\ c.length + k \in 1..c.length + len /\ (c.length + k) - 1 = c.length + (k - 1)
        /\ k - 1 \in 0..len - 1 /\ (k - 1) + 1 = k
    BY <1>1
  <2> DEFINE j == k - 1
  <2>2. j \in 0..len - 1 /\ j + 1 = k /\ (c.length + k) - 1 = c.length + j
    BY <2>1
  <2>3. Row(e)[c.length + k] = At(e, (c.length + k) - 1)
    BY <1>5, <2>1
  <2> HIDE DEF j
  <2>4. At(e, c.length + j) = batch[j + 1]
    BY <1>2, <2>2
  <2> QED
    BY <2>2, <2>3, <2>4
<1>8. Joins(Row(e), Row(c), batch, c.length, len)
  BY <1>5, <1>6, <1>7 DEF Joins
<1> QED
  BY <1>1, <1>3, <1>4, <1>8, IsJoined

\* A single element at the head.
LEMMA RowPrepended ==
  ASSUME ElemSize = 1,
         NEW c, IsBuffer(c), c.length < c.size, NEW batch \in BatchOf(1),
         NEW e, e = Pushed(c, -1, batch)
  PROVE  Row(e) = batch \o Row(c)
<1>1. c.length \in Nat /\ 1 \in 1..c.size - c.length
  BY BufferParts
<1>2. /\ IsBuffer(e) /\ e.length = c.length + 1 /\ At(e, 0) = batch[1]
      /\ \A k \in 0..c.length - 1 : At(e, 1 + k) = At(c, k)
  BY <1>1, HeadPushed
<1>3. IsList(batch, 1)
  BY BatchIsList
<1>4. IsList(Row(c), c.length) /\ \A k \in 1..c.length : Row(c)[k] = At(c, k - 1)
  BY RowIsList
<1>5. IsList(Row(e), 1 + c.length) /\ \A k \in 1..1 + c.length : Row(e)[k] = At(e, k - 1)
  <2>1. e.length = 1 + c.length
    BY <1>1, <1>2
  <2> QED
    BY <1>2, <2>1, RowIsList
<1>6. ASSUME NEW k \in 1..1
      PROVE  Row(e)[k] = batch[k]
  <2>1. k = 1 /\ 1 \in 1..1 + c.length /\ 1 - 1 = 0
    BY <1>1
  <2> QED
    BY <1>2, <1>5, <2>1
<1>7. ASSUME NEW k \in 1..c.length
      PROVE  Row(e)[1 + k] = Row(c)[k]
  <2> DEFINE j == k - 1
  <2>1. /\ 1 + k \in 1..1 + c.length /\ j \in 0..c.length - 1
        /\ (1 + k) - 1 = 1 + j
    BY <1>1
  <2>2. Row(c)[k] = At(c, j)
    BY <1>4
  <2>3. Row(e)[1 + k] = At(e, (1 + k) - 1)
    BY <1>5, <2>1
  <2> HIDE DEF j
  <2>4. At(e, 1 + j) = At(c, j)
    BY <1>2, <2>1
  <2> QED
    BY <2>1, <2>2, <2>3, <2>4
<1>8. Joins(Row(e), batch, Row(c), 1, c.length)
  BY <1>5, <1>6, <1>7 DEF Joins
<1> QED
  BY <1>1, <1>3, <1>4, <1>8, IsJoined

\* pull() with elements of one byte, on the elements from head to tail: what it
\* leaves and what comes out, at the head, and a single one at the tail.
LEMMA RowWithoutFirst ==
  ASSUME NEW c, IsBuffer(c), NEW l \in 1..c.length, NEW e, e = Pulled(c, l)
  PROVE  /\ Row(e) = SubSeq(Row(c), l + 1, c.length)
         /\ ElemSize = 1 => Out(c, l) = SubSeq(Row(c), 1, l)
<1>1. c.length \in Nat /\ l \in Nat /\ l + 1 \in 1..c.length + 1
      /\ c.length \in (l + 1) - 1..c.length /\ l \in 1 - 1..c.length /\ 1 \in 1..c.length + 1
  BY BufferParts
<1>2. /\ IsBuffer(e) /\ e.length = c.length - l
      /\ \A k \in Int : At(e, k) = At(c, l + k)
      /\ ElemSize = 1 => /\ Out(c, l) \in [1..l -> Values \cup {None}]
                         /\ \A k \in 1..l : Out(c, l)[k] = At(c, k - 1)
  <2>1. LosesFirst(c, l, e)
    BY HeadPulled
  <2> QED
    BY <2>1 DEF LosesFirst
<1>3. IsList(Row(c), c.length) /\ \A k \in 1..c.length : Row(c)[k] = At(c, k - 1)
  BY RowIsList
<1> DEFINE m == (c.length - (l + 1)) + 1
<1>4. m = c.length - l /\ m \in Nat
  BY <1>1
<1>5. IsList(Row(e), m) /\ \A k \in 1..m : Row(e)[k] = At(e, k - 1)
  BY <1>2, <1>4, RowIsList
<1>6. ASSUME NEW k \in 1..m
      PROVE  Row(e)[k] = Row(c)[((l + 1) + k) - 1]
  <2> DEFINE j == ((l + 1) + k) - 1
  <2>1. j \in 1..c.length /\ j - 1 = l + (k - 1) /\ k - 1 \in Int
    BY <1>1, <1>4
  <2> HIDE DEF m, j
  <2>2. Row(e)[k] = At(e, k - 1) /\ At(e, k - 1) = At(c, l + (k - 1))
    BY <1>2, <1>5, <2>1
  <2>3. Row(c)[j] = At(c, j - 1)
    BY <1>3, <2>1
  <2>4. Row(e)[k] = Row(c)[j]
    BY <2>1, <2>2, <2>3
  <2> QED
    BY <2>4 DEF j
<1>7. Row(e) = SubSeq(Row(c), l + 1, c.length)
  BY <1>1, <1>3, <1>5, <1>6, IsPartOf
<1>8. ASSUME ElemSize = 1
      PROVE  Out(c, l) = SubSeq(Row(c), 1, l)
  <2>1. IsList(Out(c, l), l)
    BY <1>1, <1>2, <1>8, FunctionIsList DEF Elements
  <2> DEFINE w == (l - 1) + 1
  <2>2. w = l
    BY <1>1
  <2>3. ASSUME NEW k \in 1..w
        PROVE  Out(c, l)[k] = Row(c)[(1 + k) - 1]
    <3>1. k \in 1..l /\ k \in 1..c.length /\ (1 + k) - 1 = k
      BY <1>1, <2>2
    <3> QED
      BY <1>2, <1>3, <1>8, <3>1
  <2>4. IsList(Out(c, l), w)
    BY <2>1, <2>2
  <2> QED
    BY <1>1, <1>3, <2>3, <2>4, IsPartOf
<1> QED
  BY <1>7, <1>8

\* A single element at the tail.
LEMMA RowWithoutLast ==
  ASSUME NEW c, IsBuffer(c), 1 <= c.length, NEW e, e = Pulled(c, -1)
  PROVE  /\ Row(e) = SubSeq(Row(c), 1, c.length - 1)
         /\ ElemSize = 1 => Out(c, -1) = SubSeq(Row(c), c.length, c.length)
<1>1. /\ c.length \in Nat /\ 1 \in 1..c.length /\ c.length - 1 \in Nat
      /\ c.length \in 1..c.length + 1 /\ c.length \in c.length - 1..c.length
      /\ 1 \in 1..c.length + 1 /\ c.length - 1 \in 1 - 1..c.length
  BY BufferParts
<1>2. /\ IsBuffer(e) /\ e.length = c.length - 1
      /\ \A k \in Int : At(e, k) = At(c, k)
      /\ ElemSize = 1 => /\ Out(c, -1) \in [1..1 -> Values \cup {None}]
                         /\ Out(c, -1)[1] = At(c, c.length - 1)
  BY <1>1, TailPulled
<1>3. IsList(Row(c), c.length) /\ \A k \in 1..c.length : Row(c)[k] = At(c, k - 1)
  BY RowIsList
<1> DEFINE m == ((c.length - 1) - 1) + 1
<1>4. m = c.length - 1
  BY <1>1
<1>5. IsList(Row(e), m) /\ \A k \in 1..m : Row(e)[k] = At(e, k - 1)
  BY <1>2, <1>4, RowIsList
<1>6. ASSUME NEW k \in 1..m
      PROVE  Row(e)[k] = Row(c)[(1 + k) - 1]
  <2>1. k \in 1..c.length /\ (1 + k) - 1 = k /\ k - 1 \in Int
    BY <1>1, <1>4
  <2> QED
    BY <1>2, <1>3, <1>5, <2>1
<1>7. Row(e) = SubSeq(Row(c), 1, c.length - 1)
  BY <1>1, <1>3, <1>5, <1>6, IsPartOf
<1>8. ASSUME ElemSize = 1
      PROVE  Out(c, -1) = SubSeq(Row(c), c.length, c.length)
  <2>1. IsList(Out(c, -1), 1)
    BY <1>1, <1>2, <1>8, FunctionIsList DEF Elements
  <2> DEFINE w == (c.length - c.length) + 1
  <2>2. w = 1
    BY <1>1
  <2>3. ASSUME NEW k \in 1..w
        PROVE  Out(c, -1)[k] = Row(c)[(c.length + k) - 1]
    <3>1. k = 1 /\ (c.length + k) - 1 = c.length /\ c.length \in 1..c.length
      BY <1>1, <2>2
    <3> QED
      BY <1>2, <1>3, <1>8, <3>1
  <2>4. IsList(Out(c, -1), w)
    BY <2>1, <2>2
  <2> QED
    BY <1>1, <1>3, <2>3, <2>4, IsPartOf
<1> QED
  BY <1>7, <1>8

-----------------------------------------------------------------------------
\* The state of a buffer that is not too big to be looked at.
Sound(c) == IsBuffer(c) /\ c.size <= MaxSize

\* The type invariant, in parts.
LEMMA TypeOfBuffer == TypeOK <=> Sound(buf)
<1>1. ASSUME TypeOK
      PROVE  Sound(buf)
  <2>1. PICK n \in 1..MaxSize : buf \in Buffer(n)
    BY <1>1 DEF TypeOK
  <2>2. buf.size = n
    BY <2>1 DEF Buffer
  <2> QED
    BY <2>1, <2>2, BoundsAssumption DEF Sound, IsBuffer
<1>2. ASSUME Sound(buf)
      PROVE  TypeOK
  <2>1. buf.size \in 1..MaxSize /\ buf \in Buffer(buf.size)
    BY <1>2, BoundsAssumption DEF Sound, IsBuffer
  <2> QED
    BY <2>1 DEF TypeOK
<1> QED
  BY <1>1, <1>2

\* Every occupied cell of a buffer was written as a whole.
Filled(c) == \A k \in 0..c.length - 1 : At(c, k) \in Values

\* The contents are the elements of the cells.
LEMMA OffsetsOfRow ==
  ASSUME NEW c, IsBuffer(c)
  PROVE  Row(c) = [k \in 1..c.length |->
                     c.data[OffsetIndex(k - 1, c.start + 1, c.length, c.size) - 1]]
<1>1. c.start \in Nat /\ c.length \in Nat
  BY BufferParts
<1>2. ASSUME NEW k \in 1..c.length
      PROVE  OffsetIndex(k - 1, c.start + 1, c.length, c.size) - 1 = Cell(c, k - 1)
  <2>1. k - 1 >= 0 /\ c.start + 1 + (k - 1) + 0 = c.start + 1 + (k - 1)
    BY <1>1
  <2> DEFINE j == k - 1
  <2>2. j >= 0 /\ c.start + 1 + j + 0 = c.start + 1 + j
    BY <2>1
  <2> HIDE DEF j
  <2>3. OffsetIndex(j, c.start + 1, c.length, c.size) - 1 = Cell(c, j)
    BY <2>2 DEF OffsetIndex, Cell
  <2> QED
    BY <2>3 DEF j
<1> QED
  BY <1>2 DEF Row, At

\* The contents of this state.
LEMMA ContentsRow == ASSUME IsBuffer(buf) PROVE Contents = Row(buf)
BY OffsetsOfRow DEF Contents

\* The same of the next state.
LEMMA ContentsAfter == ASSUME IsBuffer(buf') PROVE Contents' = Row(buf')
BY OffsetsOfRow DEF Contents

\* What the runs check of the contents, from what is in the cells.
LEMMA FilledContents ==
  ASSUME IsBuffer(buf), Filled(buf)
  PROVE  OccupiedIsWritten
<1>1. Contents = Row(buf) /\ \A k \in 1..buf.length : Row(buf)[k] = At(buf, k - 1)
  BY ContentsRow, RowIsList
<1>2. \A k \in 1..buf.length : k - 1 \in 0..buf.length - 1
  BY BufferParts
<1> QED
  BY <1>1, <1>2, ValuesAssumption DEF Filled, OccupiedIsWritten

\* A new buffer is filled as far as it is long.
LEMMA NewBuffer == ASSUME Init PROVE Sound(buf) /\ Filled(buf)
<1>1. PICK n \in Sizes : buf \in Buffer(n)
  BY DEF Init
<1>2. n \in 1..MaxSize /\ buf.size = n
  BY <1>1, BoundsAssumption DEF Buffer
<1>3. Sound(buf)
  BY <1>1, <1>2, BoundsAssumption DEF Sound, IsBuffer
<1>4. /\ buf.start \in 0..buf.size - 1 /\ buf.length \in 0..buf.size /\ buf.size \in Nat \ {0}
      /\ buf.data \in Array(buf.size) /\ \A k \in Int : Cell(buf, k) \in 0..buf.size - 1
  BY <1>3, BufferParts DEF Sound
<1>5. ASSUME NEW k \in 0..buf.length - 1
      PROVE  At(buf, k) \in Values
  <2>1. k \in Int
    BY <1>4
  <2>2. Cell(buf, k) = (buf.start + k) % buf.size
    <3> DEFINE x == buf.start + 1 + k
    <3>1. x - 1 = buf.start + k /\ buf.start + k \in Int
      BY <1>4
    <3> HIDE DEF x
    <3>2. Normalize(x, buf.size) = ((buf.start + k) % buf.size) + 1
      BY <3>1 DEF Normalize
    <3> DEFINE r == (buf.start + k) % buf.size
    <3>3. r \in Int
      BY <1>4, <3>1
    <3> HIDE DEF r
    <3>4. (r + 1) - 1 = r
      BY <3>3
    <3> QED
      BY <3>2, <3>4 DEF Cell, x, r
  <2>3. Cell(buf, k) \in 0..buf.size - 1
    BY <1>4, <2>1
  <2>4. buf.data[Cell(buf, k)] # None
    BY <2>2, <2>3 DEF Init
  <2> QED
    BY <1>4, <2>3, <2>4 DEF At, Array
<1> QED
  BY <1>3, <1>5 DEF Filled

-----------------------------------------------------------------------------
\* The buffer in which push() puts the batch: the one it had, or a bigger one
\* with the same elements.
HasTheSame(c) == /\ Sound(c) /\ c.length = buf.length
                 /\ ElemSize = 1 => \A k \in 0..buf.length - 1 : At(c, k) = At(buf, k)

\* With elements of one byte, it holds the same sequence.
LEMMA SameIsSame ==
  ASSUME ElemSize = 1, NEW c, HasTheSame(c)
  PROVE  Row(c) = Row(buf) /\ (Filled(buf) => Filled(c))
<1>1. c.length = buf.length /\ \A k \in 0..buf.length - 1 : At(c, k) = At(buf, k)
  BY DEF HasTheSame
<1>2. c.length \in Nat
  BY BufferParts DEF HasTheSame, Sound
<1>3. \A k \in 1..c.length : k - 1 \in 0..buf.length - 1
  BY <1>1, <1>2
<1>4. \A k \in 1..c.length : At(c, k - 1) = At(buf, k - 1)
  BY <1>1, <1>3
<1>5. Row(c) = Row(buf)
  BY <1>1, <1>4 DEF Row
<1>6. Filled(buf) => Filled(c)
  BY <1>1 DEF Filled
<1> QED
  BY <1>5, <1>6

\* The lengths, and the batches of a length.
LEMMA LensAre ==
  ASSUME NEW len \in Lens
  PROVE  /\ len \in Int /\ Abs(len) \in Nat \ {0}
         /\ len > 0 => Abs(len) = len
         /\ ~(len > 0) => len = -Abs(len)
         /\ ~(len > 0) /\ HeadBatch <= 1 => len = -1 /\ Abs(len) = 1
BY BoundsAssumption DEF Lens, Abs

\* A batch has a length and is as long as that.
LEMMA BatchOfLength ==
  ASSUME NEW batch \in Batches
  PROVE  Len(batch) \in Nat /\ batch \in BatchOf(Len(batch))
<1>1. PICK n \in 1..MaxBatch : batch \in [1..n -> Values]
  BY DEF Batches
<1>2. n \in Nat
  BY <1>1, BoundsAssumption
<1>3. batch \in BatchOf(n)
  BY <1>1 DEF BatchOf
<1>4. Len(batch) = n
  BY <1>2, <1>3, BatchIsList DEF IsList
<1> QED
  BY <1>2, <1>3, <1>4

\* What a push does, in one formula: the batch goes into the buffer, or it does
\* not fit.
PushesInto(c, batch, len) ==
  /\ HasTheSame(c) /\ batch \in BatchOf(Abs(len))
  /\ \/ /\ Abs(len) <= c.size - c.length
        /\ buf' = Pushed(c, len, batch) /\ io' = Call("push", PushEnd(len), batch)
     \/ buf' = c /\ io' = Call("error", PushEnd(len), batch)

\* push() does one of the two.
LEMMA PushCases ==
  ASSUME Sound(buf), NEW len \in Lens, NEW batch \in Batches, Len(batch) = Abs(len),
         PushBatch(batch, len)
  PROVE  \E c : PushesInto(c, batch, len)
<1> DEFINE c == IF buf.autogrow THEN CheckSize(len) ELSE buf
<1>1. len \in Int
  BY LensAre
<1>2. batch \in BatchOf(Abs(len))
  BY BatchOfLength
<1>3. /\ c.size <= MaxSize
      /\ IF MayPush(len, c.length, c.size)
         THEN buf' = Pushed(c, len, batch) /\ io' = Call("push", PushEnd(len), batch)
         ELSE buf' = c /\ io' = Call("error", PushEnd(len), batch)
  BY DEF PushBatch, Pushed
<1>4. HasTheSame(c)
  <2>1. CASE buf.autogrow
    <3>1. /\ IsBuffer(c) /\ c.length = buf.length
          /\ ElemSize = 1 => \A k \in 0..buf.length - 1 : At(c, k) = At(buf, k)
      BY <1>1, <2>1, CheckSizeKeeps DEF Sound
    <3> QED
      BY <1>3, <3>1 DEF HasTheSame, Sound
  <2>2. CASE ~buf.autogrow
    BY <2>2 DEF HasTheSame
  <2> QED
    BY <2>1, <2>2
<1> HIDE DEF c
<1>5. PushesInto(c, batch, len)
  BY <1>2, <1>3, <1>4 DEF PushesInto, MayPush
<1> QED
  BY <1>5

-----------------------------------------------------------------------------
\* A step of the deque, or none.
Steps == D!Next \/ UNCHANGED D!vars

\* What every step of the buffer does: it keeps the type, with elements of one
\* byte it leaves no occupied cell unwritten, and if no batch of several goes to
\* the head, it is one of the deque's.
StepIsGood == /\ Sound(buf')
              /\ ElemSize = 1 /\ Filled(buf) => Filled(buf')
              /\ ElemSize = 1 /\ HeadBatch <= 1 => Steps

\* A call that raises changes at most where the elements are.
LEMMA FailedCall ==
  ASSUME Sound(buf), NEW c, HasTheSame(c), buf' = c, io'.op = "error"
  PROVE  StepIsGood
<1>1. Sound(buf')
  BY DEF HasTheSame
<1>2. ASSUME ElemSize = 1
      PROVE  (Filled(buf) => Filled(buf')) /\ Steps
  <2>1. Row(c) = Row(buf) /\ (Filled(buf) => Filled(c))
    BY <1>2, SameIsSame
  <2>2. Contents' = Contents
    BY <1>1, <2>1, ContentsRow, ContentsAfter DEF Sound
  <2>3. D!Fail
    BY <2>2 DEF D!Fail
  <2> QED
    BY <2>1, <2>3 DEF Steps, D!Next
<1> QED
  BY <1>1, <1>2 DEF StepIsGood

\* A push at the tail.
LEMMA PushTail ==
  ASSUME Sound(buf), NEW len \in Lens, len > 0, NEW batch \in Batches,
         NEW c, HasTheSame(c), batch \in BatchOf(Abs(len)), Abs(len) <= c.size - c.length,
         buf' = Pushed(c, len, batch), io' = Call("push", PushEnd(len), batch)
  PROVE  StepIsGood
<1>1. IsBuffer(c) /\ c.size <= MaxSize /\ c.length = buf.length /\ c.length \in Nat
  BY BufferParts DEF HasTheSame, Sound
<1>2. len \in 1..c.size - c.length /\ batch \in BatchOf(len) /\ PushEnd(len) = "tail"
  <2>1. Abs(len) = len /\ len \in Int
    BY LensAre
  <2>2. len \in 1..c.size - c.length
    BY <1>1, <2>1, BufferParts
  <2> QED
    BY <2>1, <2>2 DEF PushEnd
<1>3. /\ IsBuffer(buf') /\ Alike(c, buf') /\ (buf').length = c.length + len
      /\ ElemSize = 1 => /\ \A k \in 0..c.length - 1 : At(buf', k) = At(c, k)
                         /\ \A k \in 0..len - 1 : At(buf', c.length + k) = batch[k + 1]
  BY <1>1, <1>2, TailPushed
<1>4. Sound(buf')
  BY <1>1, <1>3 DEF Sound, Alike
<1>5. ASSUME ElemSize = 1, Filled(buf)
      PROVE  Filled(buf')
  <2>1. Filled(c)
    BY <1>5, SameIsSame
  <2> SUFFICES ASSUME NEW k \in 0..(buf').length - 1
               PROVE  At(buf', k) \in Values
    BY DEF Filled
  <2>2. CASE k < c.length
    <3>1. k \in 0..c.length - 1
      BY <1>1, <2>2
    <3> QED
      BY <1>3, <1>5, <2>1, <3>1 DEF Filled
  <2>3. CASE ~(k < c.length)
    <3> DEFINE j == k - c.length
    <3>1. j \in 0..len - 1 /\ c.length + j = k /\ j + 1 \in 1..len
      BY <1>1, <1>2, <1>3, <2>3
    <3> HIDE DEF j
    <3>2. batch[j + 1] \in Values
      BY <1>2, <3>1 DEF BatchOf
    <3>3. At(buf', c.length + j) = batch[j + 1]
      BY <1>3, <1>5, <3>1
    <3> QED
      BY <3>1, <3>2, <3>3
  <2> QED
    BY <2>2, <2>3
<1>6. ASSUME ElemSize = 1
      PROVE  Steps
  <2>1. Row(buf') = Row(c) \o batch /\ Row(c) = Row(buf)
    BY <1>1, <1>2, <1>6, RowAppended, SameIsSame
  <2>2. Contents' = Contents \o batch
    BY <1>3, <2>1, ContentsRow, ContentsAfter DEF Sound
  <2>3. D!Add("tail", batch)
    BY <1>2, <2>2 DEF D!Add, D!Call, Call
  <2> QED
    BY <2>3 DEF Steps, D!Next
<1> QED
  BY <1>4, <1>5, <1>6 DEF StepIsGood

\* A push at the head.
LEMMA PushHead ==
  ASSUME Sound(buf), NEW len \in Lens, ~(len > 0), NEW batch \in Batches,
         NEW c, HasTheSame(c), batch \in BatchOf(Abs(len)), Abs(len) <= c.size - c.length,
         buf' = Pushed(c, len, batch), io' = Call("push", PushEnd(len), batch)
  PROVE  StepIsGood
<1> DEFINE l == Abs(len)
<1>1. IsBuffer(c) /\ c.size <= MaxSize /\ c.length = buf.length /\ c.length \in Nat
      /\ c.size \in Nat
  BY BufferParts DEF HasTheSame, Sound
<1>2. /\ l \in 1..c.size - c.length /\ len = -l /\ PushEnd(len) = "head"
      /\ HeadBatch <= 1 => len = -1 /\ l = 1
  <2>1. l \in Nat \ {0} /\ len = -l /\ (HeadBatch <= 1 => len = -1 /\ l = 1)
    BY LensAre
  <2> QED
    BY <1>1, <2>1 DEF PushEnd
<1> HIDE DEF l
<1>3. /\ IsBuffer(buf') /\ Alike(c, buf') /\ (buf').length = c.length + l
      /\ ElemSize = 1 => /\ \A k \in 0..c.length - 1 : At(buf', l + k) = At(c, k)
                         /\ \A k \in 0..l - 1 : At(buf', k) \in Values
  BY <1>1, <1>2, HeadPushed DEF l
<1>4. Sound(buf')
  BY <1>1, <1>3 DEF Sound, Alike
<1>5. ASSUME ElemSize = 1, Filled(buf)
      PROVE  Filled(buf')
  <2>1. Filled(c)
    BY <1>5, SameIsSame
  <2> SUFFICES ASSUME NEW k \in 0..(buf').length - 1
               PROVE  At(buf', k) \in Values
    BY DEF Filled
  <2>2. CASE k < l
    <3>1. k \in 0..l - 1
      BY <1>2, <2>2
    <3> QED
      BY <1>3, <1>5, <3>1
  <2>3. CASE ~(k < l)
    <3> DEFINE j == k - l
    <3>1. j \in 0..c.length - 1 /\ l + j = k
      BY <1>1, <1>2, <1>3, <2>3
    <3> HIDE DEF j
    <3>2. At(buf', l + j) = At(c, j) /\ At(c, j) \in Values
      BY <1>3, <1>5, <2>1, <3>1 DEF Filled
    <3> QED
      BY <3>1, <3>2
  <2> QED
    BY <2>2, <2>3
<1>6. ASSUME ElemSize = 1, HeadBatch <= 1
      PROVE  Steps
  <2>1. len = -1 /\ batch \in BatchOf(1) /\ c.length < c.size /\ buf' = Pushed(c, -1, batch)
    BY <1>1, <1>2, <1>6 DEF l
  <2>2. Row(buf') = batch \o Row(c) /\ Row(c) = Row(buf)
    BY <1>1, <1>6, <2>1, RowPrepended, SameIsSame
  <2>3. Contents' = batch \o Contents
    BY <1>3, <2>2, ContentsRow, ContentsAfter DEF Sound
  <2>4. D!Add("head", batch)
    BY <1>2, <2>3 DEF D!Add, D!Call, Call
  <2> QED
    BY <2>4 DEF Steps, D!Next
<1> QED
  BY <1>4, <1>5, <1>6 DEF StepIsGood

\* push().
LEMMA PushGood ==
  ASSUME Sound(buf), NEW len \in Lens, NEW batch \in Batches, Len(batch) = Abs(len),
         PushBatch(batch, len)
  PROVE  StepIsGood
<1>1. PICK c : PushesInto(c, batch, len)
  BY PushCases
<1>2. HasTheSame(c) /\ batch \in BatchOf(Abs(len))
  BY <1>1 DEF PushesInto
<1>3. CASE buf' = c /\ io' = Call("error", PushEnd(len), batch)
  <2>1. io'.op = "error"
    BY <1>3 DEF Call
  <2> QED
    BY <1>2, <1>3, <2>1, FailedCall
<1>4. CASE /\ Abs(len) <= c.size - c.length
           /\ buf' = Pushed(c, len, batch) /\ io' = Call("push", PushEnd(len), batch)
  BY <1>2, <1>4, PushTail, PushHead
<1> QED
  BY <1>1, <1>3, <1>4 DEF PushesInto

-----------------------------------------------------------------------------
\* A pull at the head or the tail: the part that is left is the rest of the part
\* that comes out.
LEMMA PullParts ==
  ASSUME Sound(buf), NEW len \in Lens, Abs(len) <= buf.length,
         NEW e, e = Pulled(buf, len)
  PROVE  /\ Sound(e)
         /\ Filled(buf) => Filled(e)
         /\ ElemSize = 1 /\ HeadBatch <= 1 =>
              /\ Row(e) = D!AllBut(PullEnd(len), Abs(len))
              /\ Out(buf, len) = IF PullEnd(len) = "head" THEN D!First(Abs(len))
                                 ELSE D!Last(Abs(len))
<1> DEFINE l == Abs(len)
<1>1. /\ IsBuffer(buf) /\ buf.size <= MaxSize /\ buf.length \in Nat
      /\ Contents = Row(buf) /\ Len(Contents) = buf.length
  BY BufferParts, ContentsRow, RowIsList DEF Sound, IsList
<1>2. /\ l \in 1..buf.length
      /\ len > 0 => l = len
      /\ ~(len > 0) => len = -l
      /\ ~(len > 0) /\ HeadBatch <= 1 => len = -1 /\ l = 1
  <2>1. l \in Nat \ {0}
    BY LensAre
  <2>2. l \in 1..buf.length
    BY <1>1, <2>1
  <2> QED
    BY <2>2, LensAre
<1> HIDE DEF l
<1>3. CASE len > 0
  <2>1. e = Pulled(buf, l) /\ PullEnd(len) = "head" /\ Out(buf, len) = Out(buf, l)
    BY <1>2, <1>3 DEF PullEnd
  <2>2. /\ IsBuffer(e) /\ Alike(buf, e) /\ e.length = buf.length - l
        /\ \A k \in Int : At(e, k) = At(buf, l + k)
    <3>1. IsBuffer(buf) /\ l \in 1..buf.length /\ e = Pulled(buf, l)
      BY <1>1, <1>2, <2>1
    <3>2. LosesFirst(buf, l, e)
      BY <3>1, HeadPulled
    <3> QED
      BY <3>2 DEF LosesFirst
  <2>3. Sound(e)
    BY <1>1, <2>2 DEF Sound, Alike
  <2>4. Filled(buf) => Filled(e)
    <3>1. e.length = buf.length - l /\ buf.length \in Nat /\ l \in 1..buf.length
      BY <1>1, <1>2, <2>2
    <3>2. \A k \in 0..e.length - 1 : k \in Int /\ l + k \in 0..buf.length - 1
      BY <3>1
    <3> QED
      BY <2>2, <3>2 DEF Filled
  <2>5. /\ Row(e) = SubSeq(Contents, l + 1, Len(Contents))
        /\ ElemSize = 1 => Out(buf, l) = SubSeq(Contents, 1, l)
    BY <1>1, <1>2, <2>1, RowWithoutFirst
  <2> QED
    BY <2>1, <2>3, <2>4, <2>5 DEF D!AllBut, D!First, l
<1>4. CASE ~(len > 0)
  <2>1. e = Pulled(buf, -l) /\ PullEnd(len) = "tail" /\ PullEnd(len) # "head"
    BY <1>2, <1>4 DEF PullEnd
  <2>2. /\ IsBuffer(e) /\ Alike(buf, e) /\ e.length = buf.length - l
        /\ \A k \in Int : At(e, k) = At(buf, k)
    BY <1>1, <1>2, <2>1, TailPulled
  <2>3. Sound(e)
    BY <1>1, <2>2 DEF Sound, Alike
  <2>4. Filled(buf) => Filled(e)
    <3>1. \A k \in 0..e.length - 1 : k \in Int /\ k \in 0..buf.length - 1
      BY <1>1, <1>2, <2>2
    <3> QED
      BY <2>2, <3>1 DEF Filled
  <2>5. ASSUME ElemSize = 1, HeadBatch <= 1
        PROVE  /\ Row(e) = SubSeq(Contents, 1, Len(Contents) - l)
               /\ Out(buf, len) = SubSeq(Contents, Len(Contents) - l + 1, Len(Contents))
    <3>1. len = -1 /\ l = 1 /\ 1 <= buf.length
      BY <1>2, <1>4, <2>5
    <3>2. /\ Row(e) = SubSeq(Row(buf), 1, buf.length - 1)
          /\ Out(buf, -1) = SubSeq(Row(buf), buf.length, buf.length)
      <4>1. e = Pulled(buf, -1)
        BY <3>1
      <4> QED
        BY <1>1, <2>5, <3>1, <4>1, RowWithoutLast
    <3>3. buf.length - 1 + 1 = buf.length
      BY <1>1
    <3> QED
      BY <1>1, <3>1, <3>2, <3>3
  <2> QED
    BY <2>1, <2>3, <2>4, <2>5 DEF D!AllBut, D!Last, l
<1> QED
  BY <1>3, <1>4

\* pull().
LEMMA PullGood ==
  ASSUME Sound(buf), NEW len \in Lens, NEW keep \in BOOLEAN, PullBatch(len, keep)
  PROVE  StepIsGood
<1>1. HasTheSame(buf)
  BY DEF HasTheSame
<1>2. CASE ~(Abs(len) <= buf.length)
  <2>1. buf' = buf /\ io'.op = "error"
    BY <1>2 DEF PullBatch, MayPull, Call
  <2> QED
    BY <1>1, <2>1, FailedCall
<1>3. CASE Abs(len) <= buf.length
  <2> DEFINE e == Pulled(buf, len)
  <2>1. /\ buf' = IF keep THEN buf ELSE e
        /\ io' = Call(IF keep THEN "keep" ELSE "pull", PullEnd(len), Out(buf, len))
    BY <1>3 DEF PullBatch, MayPull, Pulled, Out
  <2>2. /\ Sound(e)
        /\ Filled(buf) => Filled(e)
        /\ ElemSize = 1 /\ HeadBatch <= 1 =>
             /\ Row(e) = D!AllBut(PullEnd(len), Abs(len))
             /\ Out(buf, len) = IF PullEnd(len) = "head" THEN D!First(Abs(len))
                                ELSE D!Last(Abs(len))
    BY <1>3, PullParts
  <2> HIDE DEF e
  <2>3. Abs(len) \in 1..Len(Contents) /\ PullEnd(len) \in {"head", "tail"}
    <3>1. Len(Contents) = buf.length /\ buf.length \in Nat
      BY ContentsRow, RowIsList, BufferParts DEF Sound, IsList
    <3>2. Abs(len) \in Nat \ {0}
      BY LensAre
    <3>3. Abs(len) \in 1..Len(Contents)
      BY <1>3, <3>1, <3>2
    <3> QED
      BY <3>3 DEF PullEnd
  <2>4. CASE keep
    <3>1. buf' = buf /\ Contents' = Contents
      BY <2>1, <2>4, ContentsRow, ContentsAfter DEF Sound
    <3>2. ASSUME ElemSize = 1, HeadBatch <= 1
          PROVE  Steps
      <4>1. D!Look(PullEnd(len), Abs(len))
        BY <2>1, <2>2, <2>4, <3>1, <3>2 DEF D!Look, D!Call, Call
      <4> QED
        BY <2>3, <4>1 DEF Steps, D!Next
    <3> QED
      BY <3>1, <3>2 DEF StepIsGood
  <2>5. CASE ~keep
    <3>1. buf' = e /\ io' = Call("pull", PullEnd(len), Out(buf, len))
      BY <2>1, <2>5
    <3>2. Contents' = Row(e)
      BY <2>2, <3>1, ContentsAfter DEF Sound
    <3>3. ASSUME ElemSize = 1, HeadBatch <= 1
          PROVE  Steps
      <4>1. D!Take(PullEnd(len), Abs(len))
        BY <2>2, <3>1, <3>2, <3>3 DEF D!Take, D!Call, Call
      <4> QED
        BY <2>3, <4>1 DEF Steps, D!Next
    <3> QED
      BY <2>2, <3>1, <3>3 DEF StepIsGood
  <2> QED
    BY <2>4, <2>5
<1> QED
  BY <1>2, <1>3

\* A step that changes at most where the elements are, and is no call.
LEMMA QuietStep ==
  ASSUME Sound(buf), HasTheSame(buf'), UNCHANGED io
  PROVE  StepIsGood
<1>1. Sound(buf')
  BY DEF HasTheSame
<1>2. ASSUME ElemSize = 1
      PROVE  (Filled(buf) => Filled(buf')) /\ Steps
  <2>1. Row(buf') = Row(buf) /\ (Filled(buf) => Filled(buf'))
    BY <1>2, SameIsSame
  <2>2. Contents' = Contents
    BY <1>1, <2>1, ContentsRow, ContentsAfter DEF Sound
  <2> QED
    BY <2>1, <2>2 DEF Steps, D!vars
<1> QED
  BY <1>1, <1>2 DEF StepIsGood

\* Every step of the buffer.
LEMMA BufferStep ==
  ASSUME Sound(buf), [Next]_vars
  PROVE  StepIsGood
<1>1. ASSUME NEW len \in 1..MaxBatch, Grow(len)
      PROVE  StepIsGood
  <2>1. len \in Int /\ buf' = CheckSize(len) /\ (buf').size <= MaxSize /\ UNCHANGED io
    BY <1>1 DEF Grow
  <2>2. /\ IsBuffer(buf') /\ (buf').length = buf.length
        /\ ElemSize = 1 => \A k \in 0..buf.length - 1 : At(buf', k) = At(buf, k)
    BY <2>1, CheckSizeKeeps DEF Sound
  <2>3. HasTheSame(buf')
    BY <2>1, <2>2 DEF HasTheSame, Sound
  <2> QED
    BY <2>1, <2>3, QuietStep
<1>2. ASSUME SetAutogrow
      PROVE  StepIsGood
  <2>1. /\ IsBuffer(buf') /\ (buf').length = buf.length /\ (buf').size = buf.size
        /\ (buf').data = buf.data /\ (buf').start = buf.start
    BY <1>2 DEF SetAutogrow, Sound, IsBuffer, Buffer
  <2>2. \A k : At(buf', k) = At(buf, k)
    BY <2>1 DEF At, Cell
  <2>3. HasTheSame(buf')
    BY <2>1, <2>2 DEF HasTheSame, Sound
  <2> QED
    BY <1>2, <2>3, QuietStep DEF SetAutogrow
<1>3. ASSUME UNCHANGED vars
      PROVE  StepIsGood
  <2>1. HasTheSame(buf') /\ UNCHANGED io
    BY <1>3 DEF vars, HasTheSame
  <2> QED
    BY <2>1, QuietStep
<1> QED
  BY <1>1, <1>2, <1>3, PushGood, PullGood DEF Next

\* Type correctness, with elements of every size: whatever is pushed, pulled and
\* reallocated, the head stays on the circle, the length within it, and the
\* array is as big as the circle.
THEOREM TypeCorrect == Spec => []TypeOK
<1>1. Init => TypeOK
  BY NewBuffer, TypeOfBuffer
<1>2. TypeOK /\ [Next]_vars => TypeOK'
  <2> SUFFICES ASSUME TypeOK, [Next]_vars
               PROVE  TypeOK'
    OBVIOUS
  <2>1. Sound(buf')
    BY TypeOfBuffer, BufferStep DEF StepIsGood
  <2>2. (buf').size \in 1..MaxSize /\ buf' \in Buffer((buf').size)
    BY <2>1, BoundsAssumption DEF Sound, IsBuffer
  <2> QED
    BY <2>2 DEF TypeOK
<1> QED
  BY <1>1, <1>2, PTL DEF Spec

\* With elements of one byte, the only ones that ffi.copy() copies whole, the
\* occupied cells hold nothing but what was written there, also after pushes of
\* several elements at the head.
THEOREM OccupiedWritten == ElemSize = 1 => (Spec => []OccupiedIsWritten)
<1> SUFFICES ASSUME ElemSize = 1
             PROVE  Spec => []OccupiedIsWritten
  OBVIOUS
<1> DEFINE Inv == Sound(buf) /\ Filled(buf)
<1>1. Init => Inv
  BY NewBuffer
<1>2. Inv /\ [Next]_vars => Inv'
  BY BufferStep DEF StepIsGood
<1>3. Inv => OccupiedIsWritten
  BY FilledContents DEF Sound
<1> HIDE DEF Inv
<1> QED
  BY <1>1, <1>2, <1>3, PTL DEF Spec

\* With elements of one byte, of which at most one at a time is pushed or pulled
\* with a negative len, the buffer is a deque: push(), pull() and pull() with
\* keep work on one sequence, which wraps, batches and reallocations leave in
\* order.
THEOREM CDataIsDeque == ElemSize = 1 /\ HeadBatch <= 1 => (Spec => ImplementsDeque)
<1> SUFFICES ASSUME ElemSize = 1, HeadBatch <= 1
             PROVE  Spec => ImplementsDeque
  OBVIOUS
<1>1. Init => D!Init
  BY DEF Init, D!Init, D!Call, Call
<1>2. TypeOK /\ [Next]_vars => [D!Next]_(D!vars)
  BY TypeOfBuffer, BufferStep DEF StepIsGood, Steps
<1> QED
  BY <1>1, <1>2, TypeCorrect, PTL DEF Spec, ImplementsDeque, D!Spec
=============================================================================
