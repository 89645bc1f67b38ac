---------------------------- MODULE LfQueueProof ----------------------------
(***************************************************************************)
(* Theorems about LfQueue, for any number of threads, elements and calls:  *)
(* where every element and every value is at any time, and that the list   *)
(* is a queue of values.  The inductive invariant is about sequences of    *)
(* elements, Rows, that are the list and what the threads hold; the proof  *)
(* goes through the kinds of step a thread can take, first for the rows,   *)
(* then for the counters, for what each thread has read, for the values    *)
(* and for the dequeues.                                                   *)
(***************************************************************************)
EXTENDS LfQueue, SequenceTheorems, FiniteSetTheorems, WellFoundedInduction, TLAPS

-----------------------------------------------------------------------------
(***************************************************************************)
(* Rows.  The elements that are not free are in rows: the list, from       *)
(* dequeue on, and one row for each thread, of the element it prepares     *)
(* with what has been linked behind it, or of the one it is about to free. *)
(* An element is in one place of one row; each points to the next, and the *)
(* last to null, except that the next field of an element which its thread *)
(* has not prepared yet, or is about to free, still holds what it held.    *)
(***************************************************************************)
Queue == CHOOSE q : q \notin Threads
Owners == Threads \union {Queue}

Preparing(t) == pc[t] \in {"initPointer", "initCounter"}
Ready(t) == pc[t] \in {"enqReadPointer", "enqReadCounter", "enqNextPointer", "enqNextCounter",
                       "enqCheckPointer", "enqCheckCounter", "enqSwap"}
Alone(t) == pc[t] \in {"initPointer", "deqFree"}
Holding(t) == Preparing(t) \/ Ready(t) \/ pc[t] = "deqFree"
Open(o) == o = Queue \/ (o \in Threads /\ ~Alone(o))

In(rows, o, n) == \E i \in 1..Len(rows[o]) : rows[o][i] = n
InRows(rows, n) == \E o \in Owners : In(rows, o, n)
IsFree(n) == \E i \in 1..Len(free) : free[i] = n

Rows(rows) ==
  /\ rows \in [Owners -> Seq(Nodes)]
  /\ \A o, p \in Owners : \A i \in 1..Len(rows[o]), j \in 1..Len(rows[p]) :
       rows[o][i] = rows[p][j] => o = p /\ i = j

Heads(rows) ==
  /\ rows[Queue] # <<>> /\ rows[Queue][1] = dequeue.ptr
  /\ \A t \in Threads :
       /\ Holding(t) => rows[t] # <<>> /\ rows[t][1] = qe[t]
       /\ ~Holding(t) => rows[t] = <<>>
       /\ Alone(t) => Len(rows[t]) = 1

Linked(rows) ==
  \A o \in Owners : \A i \in 1..Len(rows[o]) :
    /\ i # Len(rows[o]) => next[rows[o][i]].ptr = rows[o][i + 1]
    /\ i = Len(rows[o]) /\ Open(o) => next[rows[o][i]].ptr = Null

Supply(rows) ==
  /\ \A i, j \in 1..Len(free) : free[i] = free[j] => i = j
  /\ \A n \in Nodes : IsFree(n) => ~InRows(rows, n)
  /\ \A n \in Nodes : n \in 1..nodes <=> IsFree(n) \/ InRows(rows, n)

Shape(rows) == Rows(rows) /\ Heads(rows) /\ Linked(rows) /\ Supply(rows)

(***************************************************************************)
(* Counters.  An element with a value (Carries) was prepared by its thread, *)
(* and its counter is not ahead of aba_counter, so that the next element   *)
(* that is prepared gets one that is larger.  This is not so of the dummy  *)
(* that lfds611_queue_new() made, Dummy, until it is used again; enqueue   *)
(* points to it as long as its counter is 0, and not after.                *)
(***************************************************************************)
Dummy == NumberElements + 1

Carries(rows, n) ==
  \/ \E o \in Owners : \E i \in 1..Len(rows[o]) : i # 1 /\ rows[o][i] = n
  \/ \E t \in Threads : Ready(t) /\ qe[t] = n
Bounded(n) ==
  next[n].ctr <= aba_counter + 1 /\ (next[n].ptr = Null => next[n].ctr <= aba_counter)

Times(rows) ==
  /\ \A n \in Nodes : Carries(rows, n) => Bounded(n)
  /\ In(rows, Queue, enqueue.ptr)
  /\ enqueue.ctr = 0 => enqueue.ptr = Dummy
  /\ enqueue.ctr # 0 => Bounded(enqueue.ptr)
  /\ next[Dummy].ptr = Null => \E o \in Owners : Open(o) /\ In(rows, o, Dummy)

(***************************************************************************)
(* What a thread has read of enqueue and dequeue.  Their counters grow     *)
(* with every change: if they are what they were, nothing has happened.    *)
(***************************************************************************)
ReadsEnqueue(t) ==
  /\ enq[t].ctr <= enqueue.ctr
  /\ pc[t] = "enqCheckCounter" /\ enqueue.ctr = enq[t].ctr => enqueue = enq[t]
  /\ pc[t] \in {"enqNextCounter", "enqCheckPointer", "enqCheckCounter", "enqSwap"}
       /\ enqueue = enq[t] /\ nxt[t].ptr # Null => next[enqueue.ptr].ptr = nxt[t].ptr
  /\ pc[t] \in {"deqCheckPointer", "deqCheckCounter", "deqState"} /\ enq[t].ptr = deq[t].ptr
       /\ enqueue = enq[t] /\ nxt[t].ptr # Null => next[enqueue.ptr].ptr = nxt[t].ptr
  /\ pc[t] = "enqSwing" /\ enqueue = enq[t] => next[enqueue.ptr].ptr = qe[t]

ReadsDequeue(t) ==
  /\ deq[t].ctr <= dequeue.ctr
  /\ pc[t] = "deqCheckCounter" /\ dequeue.ctr = deq[t].ctr => dequeue = deq[t]
  /\ pc[t] \in {"deqEnqCounter", "deqNextPointer", "deqCheckPointer", "deqCheckCounter", "deqState", "deqSwap"}
       /\ dequeue = deq[t] /\ enq[t].ptr # deq[t].ptr => enqueue.ptr # dequeue.ptr
  /\ pc[t] \in {"deqCheckPointer", "deqCheckCounter", "deqState", "deqSwap"} /\ dequeue = deq[t]
       => /\ nxt[t].ptr # Null => next[dequeue.ptr].ptr = nxt[t].ptr
          /\ enq[t].ptr # deq[t].ptr => nxt[t].ptr # Null
  /\ pc[t] = "deqState" /\ enq[t].ptr # deq[t].ptr => nxt[t].ptr # Null
  /\ pc[t] = "deqSwap" => nxt[t].ptr # Null /\ enq[t].ptr # deq[t].ptr
  /\ pc[t] = "deqSwap" /\ dequeue = deq[t] => value[t] = user_data[nxt[t].ptr]

(***************************************************************************)
(* What the swap of a null pointer replaces.  Of the words a thread has    *)
(* read of next, the counter is not younger than the element's; if both    *)
(* are what they were, the element is in the list, or in the hands of a    *)
(* thread that has written its pointer and not its counter.                *)
(***************************************************************************)
BeingPrepared(n) == \E u \in Threads : Preparing(u) /\ qe[u] = n
HalfPrepared(n) == \E u \in Threads : pc[u] = "initCounter" /\ qe[u] = n
Since(rows, t) ==
  LET n == enq[t].ptr IN
  /\ nxt[t].ctr <= next[n].ctr
  /\ nxt[t].ctr <= aba_counter + 1
  /\ BeingPrepared(n) => nxt[t].ctr <= aba_counter
  /\ nxt[t] = next[n] => In(rows, Queue, n) \/ HalfPrepared(n)

Replaces(rows, t) ==
  /\ pc[t] \in {"enqCheckPointer", "enqCheckCounter"} /\ nxt[t].ptr = Null
       /\ enqueue = enq[t] /\ enq[t].ctr # 0 => Since(rows, t)
  /\ pc[t] = "enqSwap" /\ nxt[t].ptr = Null /\ enq[t].ctr # 0 => Since(rows, t)
  /\ pc[t] = "enqSwap" /\ nxt[t].ptr = Null /\ enq[t].ctr = 0
       => enq[t].ptr = Dummy /\ ~In(rows, t, Dummy)

(***************************************************************************)
(* Values.                                                                 *)
(***************************************************************************)
Called(v) == v \in Values /\ v[2] <= called[v[1]]
Out(v) == v \in refused \/ v \in delivered

Kept(rows) ==
  /\ \A v \in refused \union delivered : Called(v)
  /\ refused \intersect delivered = {}
  /\ \A n \in Nodes : Carries(rows, n) => Called(user_data[n]) /\ ~Out(user_data[n])
  /\ \A m, n \in Nodes : Carries(rows, m) /\ Carries(rows, n) /\ user_data[m] = user_data[n] => m = n
  /\ \A t \in Threads :
       /\ Preparing(t) \/ Ready(t) => value[t] = <<t, called[t]>> /\ called[t] # 0
       /\ Ready(t) => user_data[qe[t]] = value[t]
       /\ Preparing(t) => /\ ~Out(value[t])
                          /\ \A n \in Nodes : Carries(rows, n) => user_data[n] # value[t]
  /\ \A v \in Values : Called(v) =>
       \/ Out(v)
       \/ \E n \in Nodes : Carries(rows, n) /\ user_data[n] = v
       \/ \E t \in Threads : Preparing(t) /\ value[t] = v

(***************************************************************************)
(* The dequeues that have been called while the queue was empty.           *)
(***************************************************************************)
Emptied(rows) ==
  /\ Len(rows[Queue]) = 1 => Waiting \subseteq sawEmpty
  /\ sawEmpty \subseteq Waiting
  /\ \A t \in Threads :
       /\ pc[t] \in {"deqCheckPointer", "deqCheckCounter"} /\ dequeue = deq[t] /\ nxt[t].ptr = Null => t \in sawEmpty
       /\ pc[t] = "deqState" /\ nxt[t].ptr = Null => t \in sawEmpty
  /\ ~misplaced => \A t \in Threads : Len(rows[t]) <= 1

(***************************************************************************)
(* Types, those of the locals included.                                    *)
(***************************************************************************)
States == {"idle", "initPointer", "initCounter", "enqReadPointer", "enqReadCounter",
  "enqNextPointer", "enqNextCounter", "enqCheckPointer", "enqCheckCounter", "enqSwap", "enqSwing",
  "deqReadPointer", "deqReadCounter", "deqEnqPointer", "deqEnqCounter", "deqNextPointer",
  "deqCheckPointer", "deqCheckCounter", "deqState", "deqSwap", "deqFree"}
Pairs == [ptr : Nodes \union {Null}, ctr : Nat]

\* No thread follows a null pointer.
Follows(t) ==
  /\ pc[t] \in {"enqReadCounter", "enqNextPointer", "enqNextCounter", "enqCheckPointer",
                "enqCheckCounter", "enqSwap"} => enq[t].ptr # Null
  /\ pc[t] \in {"deqReadCounter", "deqEnqPointer", "deqEnqCounter", "deqNextPointer",
                "deqCheckPointer", "deqCheckCounter", "deqState", "deqSwap"} => deq[t].ptr # Null
  /\ Holding(t) \/ pc[t] = "enqSwing" => qe[t] # Null

Types ==
  /\ enqueue \in [ptr : Nodes, ctr : Nat] /\ dequeue \in [ptr : Nodes, ctr : Nat]
  /\ next \in [Nodes -> Pairs]
  /\ user_data \in [Nodes -> Values \union {NoValue}]
  /\ aba_counter \in Nat /\ nodes \in 0..MaxNodes /\ free \in Seq(Nodes)
  /\ pc \in [Threads -> States] /\ qe \in [Threads -> Nodes \union {Null}]
  /\ enq \in [Threads -> Pairs] /\ deq \in [Threads -> Pairs] /\ nxt \in [Threads -> Pairs]
  /\ value \in [Threads -> Values \union {NoValue}]
  /\ called \in [Threads -> 0..MaxCalls] /\ refused \in SUBSET Values /\ delivered \in SUBSET Values
  /\ misplaced \in BOOLEAN
  /\ \A t \in Threads : Follows(t)


-----------------------------------------------------------------------------
(***************************************************************************)
(* Operations on rows.                                                     *)
(***************************************************************************)
\* The queue's row is not a thread's.
LEMMA QueueIsOwner == Queue \notin Threads /\ Queue \in Owners /\ \A t \in Threads : t \in Owners
BY NoSetContainsEverything DEF Queue, Owners

\* A row is a sequence of elements, each in one place.
LEMMA RowTypes ==
  ASSUME NEW rows, Rows(rows), NEW o \in Owners
  PROVE  /\ rows[o] \in Seq(Nodes) /\ Len(rows[o]) \in Nat
         /\ \A i \in 1..Len(rows[o]) : rows[o][i] \in Nodes
         /\ rows[o] = <<>> <=> Len(rows[o]) = 0
<1>1. rows[o] \in Seq(Nodes)
  BY DEF Rows
<1> QED
  BY <1>1, LenProperties, ElementOfSeq, EmptySeq

\* The elements of two rows, one after the other.
LEMMA Joined ==
  ASSUME NEW r \in Seq(Nodes), NEW s \in Seq(Nodes)
  PROVE  /\ r \o s \in Seq(Nodes) /\ Len(r \o s) = Len(r) + Len(s)
         /\ \A i \in 1..Len(r) : (r \o s)[i] = r[i]
         /\ \A j \in 1..Len(s) : (r \o s)[Len(r) + j] = s[j]
         /\ \A i \in 1..Len(r \o s) : i \in 1..Len(r) \/ \E j \in 1..Len(s) : i = Len(r) + j
<1>1. Len(r) \in Nat /\ Len(s) \in Nat
  BY LenProperties
<1>2. /\ r \o s \in Seq(Nodes) /\ Len(r \o s) = Len(r) + Len(s)
      /\ \A i \in 1..Len(r) + Len(s) : (r \o s)[i] = IF i <= Len(r) THEN r[i] ELSE s[i - Len(r)]
  BY ConcatProperties
<1>3. \A i \in 1..Len(r) : i \in 1..Len(r) + Len(s) /\ i <= Len(r)
  BY <1>1
<1>4. \A j \in 1..Len(s) :
        Len(r) + j \in 1..Len(r) + Len(s) /\ ~(Len(r) + j <= Len(r)) /\ (Len(r) + j) - Len(r) = j
  BY <1>1
<1>5. \A i \in 1..Len(r) + Len(s) :
        i \in 1..Len(r) \/ (i - Len(r) \in 1..Len(s) /\ i = Len(r) + (i - Len(r)))
  BY <1>1
<1> QED
  BY <1>2, <1>3, <1>4, <1>5

\* Row p is appended to row o.
Join(rows, o, p) ==
  [q \in Owners |-> IF q = o THEN rows[o] \o rows[p] ELSE IF q = p THEN <<>> ELSE rows[q]]

\* Where an element of the joined rows was before.
IsJoin(rows, o, p, all) ==
  /\ all \in [Owners -> Seq(Nodes)] /\ all[p] = <<>>
  /\ \A q \in Owners \ {o, p} : all[q] = rows[q]
  /\ Len(all[o]) = Len(rows[o]) + Len(rows[p])
  /\ \A i \in 1..Len(rows[o]) : all[o][i] = rows[o][i]
  /\ \A j \in 1..Len(rows[p]) : all[o][Len(rows[o]) + j] = rows[p][j]
  /\ \A i \in 1..Len(all[o]) :
       i \in 1..Len(rows[o]) \/ \E j \in 1..Len(rows[p]) : i = Len(rows[o]) + j

\* Where the elements of the joined row come from.
LEMMA JoinedRows ==
  ASSUME NEW rows, Rows(rows), NEW o \in Owners, NEW p \in Owners, o # p
  PROVE  IsJoin(rows, o, p, Join(rows, o, p))
<1> DEFINE all == Join(rows, o, p)
<1>1. /\ all[o] = rows[o] \o rows[p] /\ all[p] = <<>>
      /\ \A q \in Owners \ {o, p} : all[q] = rows[q]
  BY DEF Join
<1>2. rows[o] \in Seq(Nodes) /\ rows[p] \in Seq(Nodes) /\ \A q \in Owners : rows[q] \in Seq(Nodes)
  BY DEF Rows
<1>3. all \in [Owners -> Seq(Nodes)]
  <2>1. rows[o] \o rows[p] \in Seq(Nodes)
    BY <1>2, Joined
  <2>2. <<>> \in Seq(Nodes)
    OBVIOUS
  <2> QED
    BY <1>2, <2>1, <2>2 DEF Join
<1> HIDE DEF all
<1>4. /\ Len(all[o]) = Len(rows[o]) + Len(rows[p])
      /\ \A i \in 1..Len(rows[o]) : all[o][i] = rows[o][i]
      /\ \A j \in 1..Len(rows[p]) : all[o][Len(rows[o]) + j] = rows[p][j]
      /\ \A i \in 1..Len(all[o]) :
           i \in 1..Len(rows[o]) \/ \E j \in 1..Len(rows[p]) : i = Len(rows[o]) + j
  <2> DEFINE r == rows[o]
  <2> DEFINE s == rows[p]
  <2>1. r \in Seq(Nodes) /\ s \in Seq(Nodes) /\ all[o] = r \o s
    BY <1>1, <1>2
  <2> HIDE DEF r, s
  <2>2. /\ Len(r \o s) = Len(r) + Len(s)
        /\ \A i \in 1..Len(r) : (r \o s)[i] = r[i]
        /\ \A j \in 1..Len(s) : (r \o s)[Len(r) + j] = s[j]
        /\ \A i \in 1..Len(r \o s) : i \in 1..Len(r) \/ \E j \in 1..Len(s) : i = Len(r) + j
    BY <2>1, Joined
  <2> QED
    BY <2>1, <2>2 DEF r, s
<1> QED
  BY <1>1, <1>3, <1>4 DEF all, IsJoin

\* Joining two rows leaves every element in one place, and moves no other row.
LEMMA JoinKeepsRows ==
  ASSUME NEW rows, Rows(rows), NEW o \in Owners, NEW p \in Owners, o # p
  PROVE  /\ Rows(Join(rows, o, p))
         /\ \A q \in Owners, n \in Nodes :
              In(Join(rows, o, p), q, n) <=> q # p /\ (In(rows, q, n) \/ (q = o /\ In(rows, p, n)))
<1> DEFINE all == Join(rows, o, p)
<1>1. /\ all \in [Owners -> Seq(Nodes)] /\ all[p] = <<>>
      /\ \A q \in Owners \ {o, p} : all[q] = rows[q]
      /\ Len(all[o]) = Len(rows[o]) + Len(rows[p])
      /\ \A i \in 1..Len(rows[o]) : all[o][i] = rows[o][i]
      /\ \A j \in 1..Len(rows[p]) : all[o][Len(rows[o]) + j] = rows[p][j]
      /\ \A i \in 1..Len(all[o]) :
           i \in 1..Len(rows[o]) \/ \E j \in 1..Len(rows[p]) : i = Len(rows[o]) + j
  <2>1. IsJoin(rows, o, p, all)
    BY JoinedRows
  <2> HIDE DEF all
  <2> QED
    BY <2>1 DEF IsJoin
<1> HIDE DEF all
<1>2. Len(rows[o]) \in Nat /\ Len(rows[p]) \in Nat /\ Len(all[p]) = 0
  BY <1>1, RowTypes, EmptySeq
<1>9. /\ \A i \in 1..Len(rows[o]) : i \in 1..Len(all[o])
      /\ \A j \in 1..Len(rows[p]) : Len(rows[o]) + j \in 1..Len(all[o])
  <2> DEFINE a == Len(rows[o])
  <2> DEFINE b == Len(rows[p])
  <2>1. Len(all[o]) = a + b /\ a \in Nat /\ b \in Nat
    BY <1>1, <1>2
  <2> HIDE DEF a, b
  <2>2. (\A i \in 1..a : i \in 1..a + b) /\ (\A j \in 1..b : a + j \in 1..a + b)
    BY <2>1
  <2> QED
    BY <2>1, <2>2 DEF a, b
<1>3. ASSUME NEW q \in Owners, NEW i \in 1..Len(all[q])
      PROVE  \/ q # p /\ i \in 1..Len(rows[q]) /\ all[q][i] = rows[q][i]
             \/ q = o /\ \E j \in 1..Len(rows[p]) : i = Len(rows[o]) + j /\ all[q][i] = rows[p][j]
  <2>1. q # p
    BY <1>2, <1>3
  <2>2. CASE q # o
    BY <1>1, <1>3, <2>1, <2>2
  <2>3. CASE q = o
    BY <1>1, <1>3, <2>1, <2>3
  <2> QED
    BY <2>2, <2>3
<1>4. \A q, s \in Owners : \A i \in 1..Len(rows[q]), j \in 1..Len(rows[s]) :
        rows[q][i] = rows[s][j] => q = s /\ i = j
  BY DEF Rows
<1>5. ASSUME NEW q \in Owners, NEW s \in Owners, NEW i \in 1..Len(all[q]), NEW j \in 1..Len(all[s]),
             all[q][i] = all[s][j]
      PROVE  q = s /\ i = j
  <2>1. \/ q # p /\ i \in 1..Len(rows[q]) /\ all[q][i] = rows[q][i]
        \/ q = o /\ \E k \in 1..Len(rows[p]) : i = Len(rows[o]) + k /\ all[q][i] = rows[p][k]
    BY <1>3
  <2>2. \/ s # p /\ j \in 1..Len(rows[s]) /\ all[s][j] = rows[s][j]
        \/ s = o /\ \E k \in 1..Len(rows[p]) : j = Len(rows[o]) + k /\ all[s][j] = rows[p][k]
    BY <1>3
  <2>3. CASE q # p /\ i \in 1..Len(rows[q]) /\ all[q][i] = rows[q][i]
    <3>1. \A k \in 1..Len(rows[p]) : rows[q][i] # rows[p][k]
      BY <1>4, <2>3
    <3> QED
      BY <1>4, <1>5, <2>2, <2>3, <3>1
  <2>4. CASE q = o /\ \E k \in 1..Len(rows[p]) : i = Len(rows[o]) + k /\ all[q][i] = rows[p][k]
    <3>1. PICK k \in 1..Len(rows[p]) : i = Len(rows[o]) + k /\ all[q][i] = rows[p][k]
      BY <2>4
    <3>2. PICK l \in 1..Len(rows[p]) : j = Len(rows[o]) + l /\ all[s][j] = rows[p][l] /\ s = o
      BY <1>4, <1>5, <2>2, <3>1
    <3>3. k = l
      BY <1>4, <1>5, <3>1, <3>2
    <3> QED
      BY <2>4, <3>1, <3>2, <3>3
  <2> QED
    BY <2>1, <2>3, <2>4
<1>6. Rows(all)
  BY <1>1, <1>5 DEF Rows
<1>7. ASSUME NEW q \in Owners, NEW n \in Nodes
      PROVE  In(all, q, n) <=> q # p /\ (In(rows, q, n) \/ (q = o /\ In(rows, p, n)))
  <2>1. ASSUME In(all, q, n)
        PROVE  q # p /\ (In(rows, q, n) \/ (q = o /\ In(rows, p, n)))
    <3>1. PICK i \in 1..Len(all[q]) : all[q][i] = n
      BY <2>1 DEF In
    <3> QED
      BY <1>3, <3>1 DEF In
  <2>2. ASSUME q # p, In(rows, q, n)
        PROVE  In(all, q, n)
    <3>1. PICK i \in 1..Len(rows[q]) : rows[q][i] = n
      BY <2>2 DEF In
    <3>2. i \in 1..Len(all[q])
      BY <1>1, <1>9, <2>2, <3>1
    <3>3. all[q][i] = n
      BY <1>1, <2>2, <3>1
    <3> QED
      BY <3>2, <3>3 DEF In
  <2>3. ASSUME q = o, In(rows, p, n)
        PROVE  In(all, q, n)
    <3>1. PICK j \in 1..Len(rows[p]) : rows[p][j] = n
      BY <2>3 DEF In
    <3>2. Len(rows[o]) + j \in 1..Len(all[o])
      BY <1>9, <3>1
    <3> QED
      BY <1>1, <2>3, <3>1, <3>2 DEF In
  <2> QED
    BY <2>1, <2>2, <2>3
<1> QED
  BY <1>6, <1>7 DEF all

\* An element is in one row.
LEMMA OneRow ==
  ASSUME NEW rows, Rows(rows), NEW o \in Owners, NEW p \in Owners, NEW n, In(rows, o, n), In(rows, p, n)
  PROVE  o = p
BY DEF Rows, In

\* A row that was empty gets an element that was in no row.
HasNew(rows, o, n, new) ==
  /\ Rows(new) /\ new[o] = <<n>> /\ \A q \in Owners \ {o} : new[q] = rows[q]
  /\ \A q \in Owners, m \in Nodes : In(new, q, m) <=> In(rows, q, m) \/ (q = o /\ m = n)

\* An element that is in no row gets one of its own.
LEMMA NewRow ==
  ASSUME NEW rows, Rows(rows), NEW o \in Owners, rows[o] = <<>>, NEW n \in Nodes, ~InRows(rows, n)
  PROVE  HasNew(rows, o, n, [rows EXCEPT ![o] = <<n>>])
<1> DEFINE new == [rows EXCEPT ![o] = <<n>>]
<1>1. rows \in [Owners -> Seq(Nodes)]
  BY DEF Rows
<1>2. new \in [Owners -> Seq(Nodes)] /\ new[o] = <<n>> /\ \A q \in Owners \ {o} : new[q] = rows[q]
  <2>1. <<n>> \in Seq(Nodes)
    OBVIOUS
  <2> QED
    BY <1>1, <2>1
<1>3. Len(new[o]) = 1 /\ new[o][1] = n /\ Len(rows[o]) = 0
  BY <1>2
<1> HIDE DEF new
<1>4. \A q \in Owners, m \in Nodes : In(new, q, m) <=> In(rows, q, m) \/ (q = o /\ m = n)
  <2> SUFFICES ASSUME NEW q \in Owners, NEW m \in Nodes
               PROVE  In(new, q, m) <=> In(rows, q, m) \/ (q = o /\ m = n)
    OBVIOUS
  <2>1. CASE q = o
    BY <1>3, <2>1 DEF In
  <2>2. CASE q # o
    BY <1>2, <2>2 DEF In
  <2> QED
    BY <2>1, <2>2
<1>5. ASSUME NEW q \in Owners, NEW s \in Owners, NEW i \in 1..Len(new[q]), NEW j \in 1..Len(new[s]),
             new[q][i] = new[s][j]
      PROVE  q = s /\ i = j
  <2>1. \A p \in Owners : \A k \in 1..Len(rows[p]) : rows[p][k] # n
    BY DEF InRows, In
  <2>2. CASE q = o /\ s = o
    BY <1>3, <1>5, <2>2
  <2>3. CASE q = o /\ s # o
    BY <1>2, <1>3, <1>5, <2>1, <2>3
  <2>4. CASE q # o /\ s = o
    BY <1>2, <1>3, <1>5, <2>1, <2>4
  <2>5. CASE q # o /\ s # o
    BY <1>2, <1>5, <2>5 DEF Rows
  <2> QED
    BY <2>2, <2>3, <2>4, <2>5
<1>6. Rows(new)
  BY <1>2, <1>5 DEF Rows
<1> QED
  BY <1>2, <1>4, <1>6 DEF new, HasNew

\* A row is emptied.
LEMMA NoRow ==
  ASSUME NEW rows, Rows(rows), NEW o \in Owners
  PROVE  LET new == [rows EXCEPT ![o] = <<>>] IN
         /\ Rows(new) /\ new[o] = <<>> /\ \A q \in Owners \ {o} : new[q] = rows[q]
         /\ \A q \in Owners, m \in Nodes : In(new, q, m) <=> In(rows, q, m) /\ q # o
<1> DEFINE new == [rows EXCEPT ![o] = <<>>]
<1>1. rows \in [Owners -> Seq(Nodes)]
  BY DEF Rows
<1>2. new \in [Owners -> Seq(Nodes)] /\ new[o] = <<>> /\ \A q \in Owners \ {o} : new[q] = rows[q]
  <2>1. <<>> \in Seq(Nodes)
    OBVIOUS
  <2> QED
    BY <1>1, <2>1
<1>3. Len(new[o]) = 0
  BY <1>2
<1> HIDE DEF new
<1>4. ASSUME NEW q \in Owners, NEW i \in 1..Len(new[q])
      PROVE  q # o /\ new[q] = rows[q]
  BY <1>2, <1>3
<1>5. Rows(new)
  BY <1>2, <1>4 DEF Rows
<1>6. \A q \in Owners, m \in Nodes : In(new, q, m) <=> In(rows, q, m) /\ q # o
  BY <1>2, <1>4 DEF In
<1> QED
  BY <1>2, <1>5, <1>6 DEF new

\* A row loses its first element.
HasRest(rows, o, new) ==
  /\ Rows(new) /\ \A q \in Owners \ {o} : new[q] = rows[q]
  /\ Len(new[o]) = Len(rows[o]) - 1
  /\ \A i \in 1..Len(rows[o]) : i # 1 => i - 1 \in 1..Len(new[o]) /\ new[o][i - 1] = rows[o][i]
  /\ \A i \in 1..Len(new[o]) : i + 1 \in 1..Len(rows[o]) /\ new[o][i] = rows[o][i + 1]
  /\ \A q \in Owners, m \in Nodes : In(new, q, m) <=> In(rows, q, m) /\ ~(q = o /\ m = rows[o][1])

\* A row without its first element, the others where they were.
LEMMA RestOfRow ==
  ASSUME NEW rows, Rows(rows), NEW o \in Owners, rows[o] # <<>>
  PROVE  HasRest(rows, o, [rows EXCEPT ![o] = Tail(@)])
<1> DEFINE new == [rows EXCEPT ![o] = Tail(@)]
<1>1. rows \in [Owners -> Seq(Nodes)] /\ rows[o] \in Seq(Nodes) /\ Len(rows[o]) \in Nat /\ Len(rows[o]) # 0
  BY RowTypes DEF Rows
<1>2. /\ Tail(rows[o]) \in Seq(Nodes) /\ Len(Tail(rows[o])) = Len(rows[o]) - 1
      /\ \A i \in 1..Len(rows[o]) - 1 : Tail(rows[o])[i] = rows[o][i + 1]
  <2> DEFINE r == rows[o]
  <2>1. r \in Seq(Nodes) /\ r # <<>>
    BY <1>1
  <2> HIDE DEF r
  <2>2. /\ Tail(r) \in Seq(Nodes) /\ Len(Tail(r)) = Len(r) - 1
        /\ \A i \in 1..Len(r) - 1 : Tail(r)[i] = r[i + 1]
    BY <2>1, HeadTailProperties
  <2> QED
    BY <2>2 DEF r
<1>3. /\ new \in [Owners -> Seq(Nodes)] /\ new[o] = Tail(rows[o])
      /\ \A q \in Owners \ {o} : new[q] = rows[q]
  BY <1>1, <1>2
<1> HIDE DEF new
<1>4. /\ Len(new[o]) = Len(rows[o]) - 1
      /\ \A i \in 1..Len(rows[o]) : i # 1 => i - 1 \in 1..Len(new[o]) /\ new[o][i - 1] = rows[o][i]
      /\ \A i \in 1..Len(new[o]) : i + 1 \in 1..Len(rows[o]) /\ new[o][i] = rows[o][i + 1]
  <2>1. Len(new[o]) = Len(rows[o]) - 1
    BY <1>2, <1>3
  <2>2. \A i \in 1..Len(rows[o]) - 1 : new[o][i] = rows[o][i + 1] /\ i + 1 \in 1..Len(rows[o])
    BY <1>1, <1>2, <1>3
  <2>3. \A i \in 1..Len(rows[o]) : i # 1 => i - 1 \in 1..Len(rows[o]) - 1 /\ (i - 1) + 1 = i
    BY <1>1
  <2> QED
    BY <2>1, <2>2, <2>3
<1>5. \A q, s \in Owners : \A i \in 1..Len(rows[q]), j \in 1..Len(rows[s]) :
        rows[q][i] = rows[s][j] => q = s /\ i = j
  BY DEF Rows
<1>6. ASSUME NEW q \in Owners, NEW s \in Owners, NEW i \in 1..Len(new[q]), NEW j \in 1..Len(new[s]),
             new[q][i] = new[s][j]
      PROVE  q = s /\ i = j
  <2>1. CASE q = o /\ s = o
    BY <1>4, <1>5, <1>6, <2>1
  <2>2. CASE q = o /\ s # o
    <3>1. i + 1 \in 1..Len(rows[o]) /\ new[q][i] = rows[o][i + 1]
      BY <1>4, <2>2
    <3>2. j \in 1..Len(rows[s]) /\ new[s][j] = rows[s][j]
      BY <1>3, <2>2
    <3> QED
      BY <1>5, <1>6, <2>2, <3>1, <3>2
  <2>3. CASE q # o /\ s = o
    <3>1. j + 1 \in 1..Len(rows[o]) /\ new[s][j] = rows[o][j + 1]
      BY <1>4, <2>3
    <3>2. i \in 1..Len(rows[q]) /\ new[q][i] = rows[q][i]
      BY <1>3, <2>3
    <3> QED
      BY <1>5, <1>6, <2>3, <3>1, <3>2
  <2>4. CASE q # o /\ s # o
    BY <1>3, <1>5, <1>6, <2>4
  <2> QED
    BY <2>1, <2>2, <2>3, <2>4
<1>7. Rows(new)
  BY <1>3, <1>6 DEF Rows
<1>8. ASSUME NEW q \in Owners, NEW m \in Nodes
      PROVE  In(new, q, m) <=> In(rows, q, m) /\ ~(q = o /\ m = rows[o][1])
  <2>1. CASE q # o
    BY <1>3, <2>1 DEF In
  <2>2. ASSUME In(new, o, m)
        PROVE  In(rows, o, m) /\ m # rows[o][1]
    <3>1. PICK i \in 1..Len(new[o]) : new[o][i] = m
      BY <2>2 DEF In
    <3>2. i + 1 \in 1..Len(rows[o]) /\ rows[o][i + 1] = m /\ 1 \in 1..Len(rows[o]) /\ i + 1 # 1
      BY <1>1, <1>4, <3>1
    <3> QED
      BY <1>5, <3>2 DEF In
  <2>3. ASSUME In(rows, o, m), m # rows[o][1]
        PROVE  In(new, o, m)
    <3>1. PICK i \in 1..Len(rows[o]) : rows[o][i] = m
      BY <2>3 DEF In
    <3>2. i - 1 \in 1..Len(new[o]) /\ new[o][i - 1] = m
      BY <1>4, <2>3, <3>1
    <3> QED
      BY <3>2 DEF In
  <2> QED
    BY <2>1, <2>2, <2>3
<1> QED
  BY <1>3, <1>4, <1>7, <1>8 DEF new, HasRest

-----------------------------------------------------------------------------
(***************************************************************************)
(* What each kind of step does to the rows.                                *)
(***************************************************************************)
\* A step after which each thread holds what it held, and which writes no element.
Stays(u) ==
  /\ Preparing(u)' <=> Preparing(u)
  /\ Ready(u)' <=> Ready(u)
  /\ pc'[u] = "initCounter" <=> pc[u] = "initCounter"
  /\ pc'[u] = "deqFree" <=> pc[u] = "deqFree"
  /\ Holding(u) => qe'[u] = qe[u] /\ value'[u] = value[u]
Still ==
  /\ UNCHANGED <<dequeue, next, user_data, aba_counter, free, nodes>>
  /\ \A u \in Threads : Stays(u)

\* What a thread does with the element it holds follows from a few predicates.
LEMMA StaysMeans ==
  ASSUME NEW u \in Threads, Stays(u)
  PROVE  /\ Holding(u)' <=> Holding(u)
         /\ Alone(u)' <=> Alone(u)
BY DEF Stays, Holding, Alone, Preparing, Ready

\* A step that writes none of that leaves the rows as they are.
LEMMA StillShape ==
  ASSUME NEW rows, Shape(rows), Still
  PROVE  /\ Shape(rows)'
         /\ \A n : Carries(rows, n)' <=> Carries(rows, n)
         /\ \A o \in Owners : Open(o)' <=> Open(o)
<1>1. /\ UNCHANGED <<dequeue, next, free, nodes>>
      /\ \A u \in Threads : Holding(u) => qe'[u] = qe[u]
      /\ \A u \in Threads : /\ Holding(u)' <=> Holding(u)
                            /\ Alone(u)' <=> Alone(u)
                            /\ Ready(u)' <=> Ready(u)
  BY StaysMeans DEF Still, Stays
<1>2. \A o \in Owners : Open(o)' <=> Open(o)
  BY <1>1 DEF Open
<1>3. Heads(rows)'
  BY <1>1 DEF Shape, Heads
<1>4. Linked(rows)'
  BY <1>1, <1>2 DEF Shape, Linked
<1>5. Supply(rows)'
  BY <1>1 DEF Shape, Supply, IsFree, InRows, In
<1>6. \A n : Carries(rows, n)' <=> Carries(rows, n)
  BY <1>1 DEF Carries, Holding
<1> QED
  BY <1>2, <1>3, <1>4, <1>5, <1>6 DEF Shape, Rows, Owners

\* Only thread t has moved.
Others(t) ==
  \A u \in Threads \ {t} :
    /\ pc'[u] = pc[u] /\ qe'[u] = qe[u] /\ value'[u] = value[u]
    /\ enq'[u] = enq[u] /\ deq'[u] = deq[u] /\ nxt'[u] = nxt[u]

\* What a thread is doing changes only by its own step.
LEMMA OthersStay ==
  ASSUME NEW t \in Threads, Others(t), NEW u \in Threads \ {t}
  PROVE  Stays(u)
BY DEF Others, Stays, Preparing, Ready, Holding

\* A step writes the locals of one thread.
LEMMA OnlyOne ==
  ASSUME Types, NEW t \in Threads, Call(t) \/ Go(t)
  PROVE  Others(t)
<1>2. Return(t) => Others(t)
  BY DEF Types, Return, Goto, Others
<1>3. ASSUME NEW s, Again(t, s) PROVE Others(t)
  BY <1>3 DEF Types, Again, Goto, Others
<1>4. ASSUME NEW n, Take(t, n) PROVE Others(t)
  BY <1>4 DEF Types, Take, Goto, Others
<1>5. ASSUME Enqueue(t) \/ EnqueueRefused(t) \/ GuaranteedEnqueue(t) PROVE Others(t)
  BY <1>4, <1>5 DEF Enqueue, EnqueueRefused, GuaranteedEnqueue, local, Others
<1>6. ASSUME InitPointer(t) \/ InitCounter(t) PROVE Others(t)
  BY <1>6 DEF Types, InitPointer, InitCounter, Goto, local, Others
<1>7. ASSUME NEW s, NEW to, NEW w, ReadEnqueue(t, s, to, w) PROVE Others(t)
  BY <1>7 DEF Types, ReadEnqueue, Read, Goto, Others
<1>8. ASSUME NEW s, NEW to, NEW e, NEW w, ReadNext(t, s, to, e, w) PROVE Others(t)
  BY <1>8 DEF Types, ReadNext, Read, Goto, Others
<1>9. ASSUME NEW s, NEW to, NEW h, NEW b, Check(t, s, to, h, b) PROVE Others(t)
  BY <1>3, <1>9 DEF Types, Check, Goto, local, Others
<1>10. ASSUME EnqueueReads(t) PROVE Others(t)
  BY <1>7, <1>8, <1>9, <1>10 DEF EnqueueReads
<1>11. ASSUME Link(t) PROVE Others(t)
  BY <1>3, <1>11 DEF Types, Link, Goto, local, Others
<1>12. ASSUME HelpEnqueue(t) \/ EnqueueReturn(t) \/ HelpDequeue(t) \/ DequeueEmpty(t) \/ DequeueReturn(t)
       PROVE  Others(t)
  BY <1>2, <1>3, <1>12 DEF HelpEnqueue, EnqueueReturn, HelpDequeue, DequeueEmpty, DequeueReturn
<1>13. ASSUME Dequeue(t) PROVE Others(t)
  BY <1>13 DEF Types, Dequeue, Goto, Others
<1>14. ASSUME DequeueReads(t) PROVE Others(t)
  <2>1. ASSUME Read(t, "deqReadCounter", "deqEnqPointer"),
               deq' = [deq EXCEPT ![t].ctr = dequeue.ctr], UNCHANGED <<enq, nxt>>
        PROVE  Others(t)
    BY <2>1 DEF Types, Read, Goto, Others
  <2> QED
    BY <1>7, <1>8, <1>9, <1>14, <2>1 DEF DequeueReads
<1>15. ASSUME ReadData(t) \/ Advance(t) \/ AdvanceFails(t) PROVE Others(t)
  BY <1>15 DEF Types, ReadData, Advance, AdvanceFails, Goto, Others
<1> QED
  BY <1>5, <1>6, <1>10, <1>11, <1>12, <1>13, <1>14, <1>15 DEF Call, Go

\* An element is taken from the freelist, or made.
Takes(t, n) ==
  /\ pc[t] = "idle" /\ called[t] < MaxCalls /\ Take(t, n)
  /\ \/ free # <<>> /\ n = Head(free) /\ free' = Tail(free) /\ UNCHANGED nodes
     \/ nodes < MaxNodes /\ n = nodes + 1 /\ nodes' = nodes + 1 /\ UNCHANGED free

\* The element that is taken was free or did not exist, and is not free any more.
LEMMA TakesFree ==
  ASSUME NEW rows, Types, Shape(rows), NEW t \in Threads, NEW n, Takes(t, n)
  PROVE  /\ n \in Nodes /\ ~InRows(rows, n)
         /\ free' \in Seq(Nodes)
         /\ \A i, j \in 1..Len(free') : free'[i] = free'[j] => i = j
         /\ \A m \in Nodes : IsFree(m)' <=> IsFree(m) /\ m # n
         /\ \A m \in Nodes : m \in 1..nodes' <=> m \in 1..nodes \/ m = n
<1>1. /\ free \in Seq(Nodes) /\ Len(free) \in Nat /\ nodes \in 0..MaxNodes /\ Nodes = 1..MaxNodes
      /\ MaxNodes \in Nat
      /\ \A i, j \in 1..Len(free) : free[i] = free[j] => i = j
      /\ \A m \in Nodes : IsFree(m) => ~InRows(rows, m)
      /\ \A m \in Nodes : m \in 1..nodes <=> IsFree(m) \/ InRows(rows, m)
  BY SizesAssumption, LenProperties DEF Types, Shape, Supply, Nodes
<1>2. CASE free # <<>> /\ n = Head(free) /\ free' = Tail(free) /\ UNCHANGED nodes
  <2>1. /\ Len(free) \in Nat \ {0} /\ n = free[1] /\ n \in Nodes
        /\ free' \in Seq(Nodes) /\ Len(free') = Len(free) - 1
        /\ \A i \in 1..Len(free) - 1 : free'[i] = free[i + 1]
    BY <1>1, <1>2, EmptySeq, HeadTailProperties, ElementOfSeq
  <2>2. /\ \A i \in 1..Len(free') : i + 1 \in 1..Len(free) /\ i + 1 # 1 /\ free'[i] = free[i + 1]
        /\ \A i \in 1..Len(free) : i # 1 => i - 1 \in 1..Len(free') /\ free'[i - 1] = free[i]
        /\ 1 \in 1..Len(free)
    <3>1. \A i \in 1..Len(free) : i # 1 => i - 1 \in 1..Len(free) - 1 /\ (i - 1) + 1 = i
      BY <2>1
    <3>2. \A i \in 1..Len(free) - 1 : i + 1 \in 1..Len(free) /\ i + 1 # 1
      BY <2>1
    <3>3. 1 \in 1..Len(free)
      BY <2>1
    <3> QED
      BY <2>1, <3>1, <3>2, <3>3
  <2>3. \A i, j \in 1..Len(free') : free'[i] = free'[j] => i = j
    <3> SUFFICES ASSUME NEW i \in 1..Len(free'), NEW j \in 1..Len(free'), free'[i] = free'[j]
                 PROVE  i = j
      OBVIOUS
    <3>1. i + 1 = j + 1
      BY <1>1, <2>2
    <3> QED
      BY <3>1
  <2>4. \A m \in Nodes : IsFree(m)' <=> IsFree(m) /\ m # n
    <3> SUFFICES ASSUME NEW m \in Nodes PROVE IsFree(m)' <=> IsFree(m) /\ m # n
      OBVIOUS
    <3>1. ASSUME IsFree(m)' PROVE IsFree(m) /\ m # n
      <4>1. PICK i \in 1..Len(free') : free'[i] = m
        BY <3>1 DEF IsFree
      <4> QED
        BY <1>1, <2>1, <2>2, <4>1 DEF IsFree
    <3>2. ASSUME IsFree(m), m # n PROVE IsFree(m)'
      BY <2>1, <2>2, <3>2 DEF IsFree
    <3> QED
      BY <3>1, <3>2
  <2>5. IsFree(n)
    BY <2>1, <2>2 DEF IsFree
  <2> QED
    BY <1>1, <1>2, <2>1, <2>3, <2>4, <2>5
<1>3. CASE nodes < MaxNodes /\ n = nodes + 1 /\ nodes' = nodes + 1 /\ UNCHANGED free
  <2>1. n \in Nodes /\ n \notin 1..nodes /\ \A m \in Nodes : m \in 1..nodes' <=> m \in 1..nodes \/ m = n
    BY <1>1, <1>3
  <2>2. ~IsFree(n) /\ ~InRows(rows, n)
    BY <1>1, <2>1
  <2>3. \A m \in Nodes : IsFree(m)' <=> IsFree(m)
    BY <1>3 DEF IsFree
  <2> QED
    BY <1>1, <1>3, <2>1, <2>2, <2>3
<1> QED
  BY <1>2, <1>3 DEF Takes

\* The rest of what Take() does.
LEMMA TakesWrites ==
  ASSUME Types, NEW t \in Threads, NEW n, Takes(t, n)
  PROVE  /\ pc[t] = "idle" /\ pc'[t] = "initPointer" /\ qe'[t] = n
         /\ UNCHANGED <<enqueue, dequeue, next, user_data>> /\ aba_counter' = aba_counter + 1
         /\ Others(t)
<1>1. Others(t)
  BY DEF Types, Takes, Take, Goto, Others
<1> QED
  BY <1>1 DEF Types, Takes, Take, Goto

\* The element that an enqueue takes gets a row of its own.
LEMMA TakesShape ==
  ASSUME NEW rows, Types, Shape(rows), NEW t \in Threads, NEW n, Takes(t, n)
  PROVE  LET new == [rows EXCEPT ![t] = <<n>>] IN
         /\ Shape(new)'
         /\ \A q \in Owners \ {t} : new[q] = rows[q]
         /\ \A q \in Owners, m \in Nodes : In(new, q, m) <=> In(rows, q, m) \/ (q = t /\ m = n)
         /\ \A m : Carries(new, m)' <=> Carries(rows, m)
         /\ \A o \in Owners : Open(o)' /\ o # t <=> Open(o) /\ o # t
         /\ rows[t] = <<>> /\ Len(new[t]) = 1
<1> DEFINE new == [rows EXCEPT ![t] = <<n>>]
<1>1. /\ pc[t] = "idle" /\ pc'[t] = "initPointer" /\ qe'[t] = n
      /\ UNCHANGED <<enqueue, dequeue, next, user_data>>
      /\ \A u \in Threads \ {t} : Stays(u)
  BY TakesWrites, OthersStay
<1>2. /\ n \in Nodes /\ ~InRows(rows, n)
      /\ \A i, j \in 1..Len(free') : free'[i] = free'[j] => i = j
      /\ \A m \in Nodes : IsFree(m)' <=> IsFree(m) /\ m # n
      /\ \A m \in Nodes : m \in 1..nodes' <=> m \in 1..nodes \/ m = n
  BY TakesFree
<1>3. ~Holding(t) /\ ~Ready(t) /\ Holding(t)' /\ Alone(t)' /\ ~Ready(t)'
  BY <1>1 DEF Holding, Preparing, Ready, Alone
<1>4. t \in Owners /\ Queue \in Owners /\ t # Queue /\ rows[t] = <<>> /\ Rows(rows)
  BY <1>3, QueueIsOwner DEF Shape, Heads
<1>5. /\ Rows(new) /\ new[t] = <<n>> /\ \A q \in Owners \ {t} : new[q] = rows[q]
      /\ \A q \in Owners, m \in Nodes : In(new, q, m) <=> In(rows, q, m) \/ (q = t /\ m = n)
  <2>1. HasNew(rows, t, n, new)
    BY <1>2, <1>4, NewRow
  <2> QED
    BY <2>1 DEF HasNew
<1> HIDE DEF new
<1>6. Len(new[t]) = 1 /\ new[t][1] = n /\ new[t] # <<>> /\ Len(rows[t]) = 0
  BY <1>4, <1>5
<1>7. \A u \in Threads \ {t} : /\ Holding(u)' <=> Holding(u)
                               /\ Alone(u)' <=> Alone(u)
                               /\ Ready(u)' <=> Ready(u)
                               /\ Holding(u) => qe'[u] = qe[u]
                               /\ u \in Owners \ {t}
  BY <1>1, StaysMeans DEF Stays, Owners
<1>8. Heads(new)'
  <2>1. new[Queue] # <<>> /\ new[Queue][1] = dequeue'.ptr
    BY <1>1, <1>4, <1>5 DEF Shape, Heads
  <2>2. \A u \in Threads \ {t} :
          /\ Holding(u)' => new[u] # <<>> /\ new[u][1] = qe'[u]
          /\ ~Holding(u)' => new[u] = <<>>
          /\ Alone(u)' => Len(new[u]) = 1
    BY <1>5, <1>7 DEF Shape, Heads
  <2> QED
    BY <1>1, <1>3, <1>6, <2>1, <2>2 DEF Heads
<1>9. \A o \in Owners : Open(o)' /\ o # t <=> Open(o) /\ o # t
  BY <1>7 DEF Open
<1>10. Linked(new)'
  <2>1. ~Open(t)'
    BY <1>3, <1>4 DEF Open
  <2>2. ASSUME NEW o \in Owners, o # t, NEW i \in 1..Len(new[o])
        PROVE  /\ i # Len(new[o]) => next'[new[o][i]].ptr = new[o][i + 1]
               /\ i = Len(new[o]) /\ Open(o)' => next'[new[o][i]].ptr = Null
    BY <1>1, <1>5, <1>9, <2>2 DEF Shape, Linked
  <2>3. ASSUME NEW i \in 1..Len(new[t]) PROVE i = Len(new[t])
    BY <1>6, <2>3
  <2> QED
    BY <2>1, <2>2, <2>3 DEF Linked
<1>11. Supply(new)'
  <2>1. \A m \in Nodes : InRows(new, m) <=> InRows(rows, m) \/ m = n
    BY <1>4, <1>5 DEF InRows
  <2> QED
    BY <1>2, <2>1 DEF Shape, Supply, InRows, In
<1>12. \A m : Carries(new, m)' <=> Carries(rows, m)
  <2> TAKE m
  <2>1. (\E o \in Owners : \E i \in 1..Len(new[o]) : i # 1 /\ new[o][i] = m)
         <=> \E o \in Owners : \E i \in 1..Len(rows[o]) : i # 1 /\ rows[o][i] = m
    <3>1. (\E i \in 1..Len(new[t]) : i # 1 /\ new[t][i] = m) <=> FALSE
      BY <1>6
    <3>2. (\E i \in 1..Len(rows[t]) : i # 1 /\ rows[t][i] = m) <=> FALSE
      BY <1>6
    <3> QED
      BY <1>5, <3>1, <3>2
  <2>2. (\E u \in Threads : Ready(u)' /\ qe'[u] = m) <=> \E u \in Threads : Ready(u) /\ qe[u] = m
    BY <1>3, <1>7 DEF Holding
  <2> QED
    BY <2>1, <2>2 DEF Carries
<1> QED
  BY <1>4, <1>5, <1>6, <1>8, <1>9, <1>10, <1>11, <1>12 DEF Shape, Rows, new

\* The pointer of the element a thread has taken is set to null.
LEMMA InitPointerWrites ==
  ASSUME Types, NEW t \in Threads, NEW e, e = qe[t], InitPointer(t)
  PROVE  /\ e \in Nodes /\ pc[t] = "initPointer" /\ pc'[t] = "initCounter"
         /\ next'[e].ptr = Null /\ next'[e].ctr = next[e].ctr
         /\ \A n \in Nodes \ {e} : next'[n] = next[n]
         /\ next' \in [Nodes -> Pairs]
         /\ UNCHANGED <<enqueue, dequeue, user_data, aba_counter, free, nodes, qe, value, history>>
         /\ Others(t)
<1>1. Others(t)
  BY DEF Types, InitPointer, Goto, local, Others
<1>2. e \in Nodes /\ pc[t] = "initPointer"
  BY DEF Types, Follows, InitPointer, Holding, Preparing
<1> QED
  BY <1>1, <1>2 DEF Types, InitPointer, Goto, Pairs, local

\* With its pointer null, the row of the element can be added to.
LEMMA InitPointerShape ==
  ASSUME NEW rows, Types, Shape(rows), NEW t \in Threads, InitPointer(t)
  PROVE  /\ Shape(rows)'
         /\ \A m : Carries(rows, m)' <=> Carries(rows, m)
         /\ \A o \in Owners : Open(o)' <=> Open(o) \/ o = t
         /\ rows[t][1] = qe[t] /\ Len(rows[t]) = 1
<1>1. PICK e : e = qe[t]
  OBVIOUS
<1>2. /\ e \in Nodes /\ pc[t] = "initPointer" /\ pc'[t] = "initCounter"
      /\ next'[e].ptr = Null
      /\ \A n \in Nodes \ {e} : next'[n] = next[n]
      /\ UNCHANGED <<dequeue, free, nodes, qe>>
      /\ \A u \in Threads \ {t} : Stays(u)
  BY <1>1, InitPointerWrites, OthersStay
<1>3. Holding(t) /\ Holding(t)' /\ Alone(t) /\ ~Alone(t)' /\ ~Ready(t) /\ ~Ready(t)'
  BY <1>2 DEF Holding, Preparing, Ready, Alone
<1>4. t \in Owners /\ t # Queue /\ rows[t] # <<>> /\ rows[t][1] = e /\ Len(rows[t]) = 1 /\ Rows(rows)
  BY <1>1, <1>3, QueueIsOwner DEF Shape, Heads
<1>5. \A u \in Threads \ {t} : /\ Holding(u)' <=> Holding(u)
                               /\ Alone(u)' <=> Alone(u)
                               /\ Ready(u)' <=> Ready(u)
  BY <1>2, StaysMeans DEF Stays
<1>6. Heads(rows)'
  BY <1>2, <1>3, <1>4, <1>5 DEF Shape, Heads
<1>7. \A o \in Owners : Open(o)' <=> Open(o) \/ o = t
  BY <1>3, <1>4, <1>5 DEF Open
<1>8. Linked(rows)'
  <2>1. ASSUME NEW o \in Owners, o # t, NEW i \in 1..Len(rows[o])
        PROVE  /\ i # Len(rows[o]) => next'[rows[o][i]].ptr = rows[o][i + 1]
               /\ i = Len(rows[o]) /\ Open(o)' => next'[rows[o][i]].ptr = Null
    <3>1. rows[o][i] \in Nodes
      BY <1>4, RowTypes
    <3>2. rows[o][i] # e
      BY <1>4, <2>1 DEF Rows
    <3> QED
      BY <1>2, <1>7, <2>1, <3>1, <3>2 DEF Shape, Linked
  <2>2. ASSUME NEW i \in 1..Len(rows[t]) PROVE i = Len(rows[t]) /\ next'[rows[t][i]].ptr = Null
    BY <1>2, <1>4, <2>2
  <2> QED
    BY <2>1, <2>2 DEF Linked
<1>9. Supply(rows)'
  BY <1>2 DEF Shape, Supply, IsFree, InRows, In
<1>10. \A m : Carries(rows, m)' <=> Carries(rows, m)
  <2>1. \A u \in Threads : Ready(u)' <=> Ready(u)
    BY <1>3, <1>5
  <2> QED
    BY <1>2, <2>1 DEF Carries
<1> QED
  BY <1>1, <1>4, <1>6, <1>7, <1>8, <1>9, <1>10 DEF Shape, Rows

\* Its counter and its value are written.
LEMMA InitCounterWrites ==
  ASSUME Types, NEW t \in Threads, NEW e, e = qe[t], InitCounter(t)
  PROVE  /\ e \in Nodes /\ pc[t] = "initCounter" /\ pc'[t] = "enqReadPointer"
         /\ next'[e].ptr = next[e].ptr /\ next'[e].ctr = aba_counter + 1
         /\ \A n \in Nodes \ {e} : next'[n] = next[n]
         /\ next' \in [Nodes -> Pairs]
         /\ aba_counter' = aba_counter + 1
         /\ user_data'[e] = value[t]
         /\ \A n \in Nodes \ {e} : user_data'[n] = user_data[n]
         /\ user_data' \in [Nodes -> Values \union {NoValue}]
         /\ UNCHANGED <<enqueue, dequeue, free, nodes, qe, value, history>>
         /\ Others(t)
<1>1. Others(t)
  BY DEF Types, InitCounter, Goto, local, Others
<1>2. e \in Nodes /\ pc[t] = "initCounter"
  BY DEF Types, Follows, InitCounter, Holding, Preparing
<1>3. /\ next'[e].ptr = next[e].ptr /\ next'[e].ctr = aba_counter + 1
      /\ \A n \in Nodes \ {e} : next'[n] = next[n]
      /\ next' \in [Nodes -> Pairs]
      /\ aba_counter' = aba_counter + 1
  <2>1. next' = [next EXCEPT ![e].ctr = aba_counter + 1] /\ aba_counter' = aba_counter + 1
    BY DEF InitCounter
  <2>2. PICK c : c = aba_counter + 1
    OBVIOUS
  <2>3. c \in Nat /\ next \in [Nodes -> [ptr : Nodes \union {Null}, ctr : Nat]]
    BY <2>2 DEF Types, Pairs
  <2>4. next' = [next EXCEPT ![e].ctr = c]
    BY <2>1, <2>2, Zenon
  <2>5. /\ next'[e].ptr = next[e].ptr /\ next'[e].ctr = c
        /\ \A n \in Nodes \ {e} : next'[n] = next[n]
        /\ next' \in [Nodes -> [ptr : Nodes \union {Null}, ctr : Nat]]
    BY <1>2, <2>3, <2>4
  <2> QED
    BY <2>1, <2>2, <2>5 DEF Pairs
<1>4. /\ user_data'[e] = value[t]
      /\ \A n \in Nodes \ {e} : user_data'[n] = user_data[n]
      /\ user_data' \in [Nodes -> Values \union {NoValue}]
  BY <1>2 DEF Types, InitCounter
<1> QED
  BY <1>1, <1>2, <1>3, <1>4 DEF Types, InitCounter, Goto, local

\* With its counter written, the element carries its value.
LEMMA InitCounterShape ==
  ASSUME NEW rows, Types, Shape(rows), NEW t \in Threads, InitCounter(t)
  PROVE  /\ Shape(rows)'
         /\ \A m : Carries(rows, m)' <=> Carries(rows, m) \/ m = qe[t]
         /\ \A o \in Owners : Open(o)' <=> Open(o)
         /\ rows[t] # <<>> /\ rows[t][1] = qe[t]
<1>1. PICK e : e = qe[t]
  OBVIOUS
<1>2. /\ e \in Nodes /\ pc[t] = "initCounter" /\ pc'[t] = "enqReadPointer"
      /\ \A n \in Nodes : next'[n].ptr = next[n].ptr
      /\ UNCHANGED <<dequeue, free, nodes, qe>>
      /\ \A u \in Threads \ {t} : Stays(u)
  BY <1>1, InitCounterWrites, OthersStay
<1>3. Holding(t) /\ Holding(t)' /\ ~Alone(t) /\ ~Alone(t)' /\ ~Ready(t) /\ Ready(t)'
  BY <1>2 DEF Holding, Preparing, Ready, Alone
<1>4. t \in Owners /\ t # Queue /\ rows[t] # <<>> /\ rows[t][1] = e /\ Rows(rows)
  BY <1>1, <1>3, QueueIsOwner DEF Shape, Heads
<1>5. \A u \in Threads \ {t} : /\ Holding(u)' <=> Holding(u)
                               /\ Alone(u)' <=> Alone(u)
                               /\ Ready(u)' <=> Ready(u)
  BY <1>2, StaysMeans DEF Stays
<1>6. Heads(rows)'
  BY <1>2, <1>3, <1>4, <1>5 DEF Shape, Heads
<1>7. \A o \in Owners : Open(o)' <=> Open(o)
  BY <1>3, <1>4, <1>5 DEF Open
<1>8. Linked(rows)'
  <2>1. \A o \in Owners : \A i \in 1..Len(rows[o]) : rows[o][i] \in Nodes
    BY <1>4, RowTypes
  <2> QED
    BY <1>2, <1>7, <2>1 DEF Shape, Linked
<1>9. Supply(rows)'
  BY <1>2 DEF Shape, Supply, IsFree, InRows, In
<1>10. \A m : Carries(rows, m)' <=> Carries(rows, m) \/ m = qe[t]
  <2>1. \A u \in Threads : Ready(u)' <=> Ready(u) \/ u = t
    BY <1>3, <1>5
  <2> QED
    BY <1>2, <2>1 DEF Carries
<1> QED
  BY <1>1, <1>4, <1>6, <1>7, <1>8, <1>9, <1>10 DEF Shape, Rows

\* An element that is freed.
LEMMA ReturnWrites ==
  ASSUME Types, NEW t \in Threads, NEW e, e = qe[t], DequeueReturn(t)
  PROVE  /\ e \in Nodes /\ pc[t] = "deqFree" /\ pc'[t] = "idle"
         /\ free' = <<e>> \o free
         /\ UNCHANGED <<enqueue, dequeue, next, user_data, aba_counter, nodes, history>>
         /\ Others(t)
<1>1. Others(t)
  BY DEF Types, DequeueReturn, Return, Goto, Others
<1>2. e \in Nodes /\ pc[t] = "deqFree"
  BY DEF Types, Follows, DequeueReturn, Holding
<1> QED
  BY <1>1, <1>2 DEF Types, DequeueReturn, Return, Goto

\* The element a dequeue gives back leaves the rows for the freelist.
LEMMA ReturnShape ==
  ASSUME NEW rows, Types, Shape(rows), NEW t \in Threads, DequeueReturn(t)
  PROVE  LET new == [rows EXCEPT ![t] = <<>>] IN
         /\ Shape(new)'
         /\ free' \in Seq(Nodes)
         /\ \A q \in Owners \ {t} : new[q] = rows[q]
         /\ \A q \in Owners, m \in Nodes : In(new, q, m) <=> In(rows, q, m) /\ q # t
         /\ \A m : Carries(new, m)' <=> Carries(rows, m)
         /\ \A o \in Owners : Open(o) => Open(o)' /\ o # t
         /\ new[t] = <<>>
<1> DEFINE new == [rows EXCEPT ![t] = <<>>]
<1>1. PICK e : e = qe[t]
  OBVIOUS
<1>2. /\ e \in Nodes /\ pc[t] = "deqFree" /\ pc'[t] = "idle"
      /\ free' = <<e>> \o free
      /\ UNCHANGED <<dequeue, next, nodes>>
      /\ \A u \in Threads \ {t} : Stays(u)
  BY <1>1, ReturnWrites, OthersStay
<1>3. Holding(t) /\ ~Holding(t)' /\ Alone(t) /\ ~Alone(t)' /\ ~Ready(t) /\ ~Ready(t)'
  BY <1>2 DEF Holding, Preparing, Ready, Alone
<1>4. t \in Owners /\ Queue \in Owners /\ t # Queue /\ rows[t][1] = e /\ Len(rows[t]) = 1 /\ Rows(rows)
  BY <1>1, <1>3, QueueIsOwner DEF Shape, Heads
<1>5. /\ Rows(new) /\ new[t] = <<>> /\ \A q \in Owners \ {t} : new[q] = rows[q]
      /\ \A q \in Owners, m \in Nodes : In(new, q, m) <=> In(rows, q, m) /\ q # t
  BY <1>4, NoRow
<1> HIDE DEF new
<1>6. Len(new[t]) = 0
  BY <1>5
<1>7. \A u \in Threads \ {t} : /\ Holding(u)' <=> Holding(u)
                               /\ Alone(u)' <=> Alone(u)
                               /\ Ready(u)' <=> Ready(u)
                               /\ Holding(u) => qe'[u] = qe[u]
                               /\ u \in Owners \ {t}
  BY <1>2, StaysMeans DEF Stays, Owners
<1>8. Heads(new)'
  <2>1. new[Queue] # <<>> /\ new[Queue][1] = dequeue'.ptr
    BY <1>2, <1>4, <1>5 DEF Shape, Heads
  <2>2. \A u \in Threads \ {t} :
          /\ Holding(u)' => new[u] # <<>> /\ new[u][1] = qe'[u]
          /\ ~Holding(u)' => new[u] = <<>>
          /\ Alone(u)' => Len(new[u]) = 1
    BY <1>5, <1>7 DEF Shape, Heads
  <2> QED
    BY <1>3, <1>5, <2>1, <2>2 DEF Heads
<1>9. \A o \in Owners \ {t} : Open(o)' <=> Open(o)
  BY <1>7 DEF Open
<1>10. Linked(new)'
  <2>1. ASSUME NEW o \in Owners, NEW i \in 1..Len(new[o])
        PROVE  /\ i # Len(new[o]) => next'[new[o][i]].ptr = new[o][i + 1]
               /\ i = Len(new[o]) /\ Open(o)' => next'[new[o][i]].ptr = Null
    <3>1. o # t
      BY <1>6, <2>1
    <3> QED
      BY <1>2, <1>5, <1>9, <2>1, <3>1 DEF Shape, Linked
  <2> QED
    BY <2>1 DEF Linked
<1>11. \A m \in Nodes : InRows(rows, m) <=> InRows(new, m) \/ m = e
  <2>1. \A m \in Nodes : In(rows, t, m) <=> m = e
    BY <1>4 DEF In
  <2> QED
    BY <1>4, <1>5, <2>1 DEF InRows
<1>12. ~InRows(new, e)
  <2>1. In(rows, t, e)
    BY <1>4 DEF In
  <2> QED
    BY <1>2, <1>4, <1>5, <2>1, OneRow DEF InRows
<1>13. ~IsFree(e) /\ InRows(rows, e)
  BY <1>2, <1>11 DEF Shape, Supply
<1>14. /\ free' \in Seq(Nodes)
       /\ \A m : IsFree(m)' <=> IsFree(m) \/ m = e
       /\ \A i, j \in 1..Len(free') : free'[i] = free'[j] => i = j
  <2> DEFINE one == <<e>>
  <2> DEFINE r == free
  <2> DEFINE s == free'
  <2>1. one \in Seq(Nodes) /\ Len(one) = 1 /\ one[1] = e
    BY <1>2
  <2>2. r \in Seq(Nodes) /\ Len(r) \in Nat /\ s = one \o r
    BY <1>2, LenProperties DEF Types
  <2>3. \A i, j \in 1..Len(r) : r[i] = r[j] => i = j
    BY DEF Shape, Supply
  <2>4. \A i \in 1..Len(r) : r[i] # e
    BY <1>13 DEF IsFree
  <2> HIDE DEF one, r, s
  <2>5. /\ s \in Seq(Nodes) /\ Len(s) = Len(one) + Len(r)
        /\ \A i \in 1..Len(one) : s[i] = one[i]
        /\ \A j \in 1..Len(r) : s[Len(one) + j] = r[j]
        /\ \A i \in 1..Len(s) : i \in 1..Len(one) \/ \E j \in 1..Len(r) : i = Len(one) + j
    <3>1. one \in Seq(Nodes) /\ r \in Seq(Nodes)
      BY <2>1, <2>2
    <3>2. /\ one \o r \in Seq(Nodes) /\ Len(one \o r) = Len(one) + Len(r)
          /\ \A i \in 1..Len(one) : (one \o r)[i] = one[i]
          /\ \A j \in 1..Len(r) : (one \o r)[Len(one) + j] = r[j]
          /\ \A i \in 1..Len(one \o r) : i \in 1..Len(one) \/ \E j \in 1..Len(r) : i = Len(one) + j
      BY <3>1, Joined
    <3>3. s = one \o r
      BY <2>2
    <3> QED
      BY <3>2, <3>3
  <2>6. /\ s[1] = e /\ 1 \in 1..Len(s)
        /\ \A j \in 1..Len(r) : s[1 + j] = r[j] /\ 1 + j \in 1..Len(s)
        /\ \A i \in 1..Len(s) : i = 1 \/ \E j \in 1..Len(r) : i = 1 + j
    <3>1. \A j \in 1..Len(r) : 1 + j \in 1..1 + Len(r)
      BY <2>2
    <3>2. 1 \in 1..1 + Len(r) /\ 1 \in 1..1 /\ \A i \in 1..1 : i = 1
      BY <2>2
    <3> QED
      BY <2>1, <2>5, <3>1, <3>2
  <2>7. \A i, j \in 1..Len(s) : s[i] = s[j] => i = j
    BY <2>3, <2>4, <2>6
  <2>8. \A m : (\E i \in 1..Len(s) : s[i] = m) <=> (\E i \in 1..Len(r) : r[i] = m) \/ m = e
    <3> TAKE m
    <3>1. ASSUME NEW i \in 1..Len(s), s[i] = m PROVE (\E j \in 1..Len(r) : r[j] = m) \/ m = e
      BY <2>6, <3>1
    <3>2. ASSUME NEW j \in 1..Len(r), r[j] = m PROVE \E i \in 1..Len(s) : s[i] = m
      BY <2>6, <3>2
    <3>3. ASSUME m = e PROVE \E i \in 1..Len(s) : s[i] = m
      BY <2>6, <3>3
    <3> QED
      BY <3>1, <3>2, <3>3
  <2> QED
    BY <2>5, <2>7, <2>8 DEF r, s, IsFree
<1>15. Supply(new)'
  <2>1. \A m \in Nodes : IsFree(m)' => ~InRows(new, m)
    BY <1>11, <1>12, <1>14 DEF Shape, Supply
  <2>2. \A m \in Nodes : m \in 1..nodes' <=> IsFree(m)' \/ InRows(new, m)
    BY <1>2, <1>11, <1>13, <1>14 DEF Shape, Supply
  <2> QED
    BY <1>14, <2>1, <2>2 DEF Supply, InRows, In
<1>16. \A m : Carries(new, m)' <=> Carries(rows, m)
  <2> TAKE m
  <2>1. (\E o \in Owners : \E i \in 1..Len(new[o]) : i # 1 /\ new[o][i] = m)
         <=> \E o \in Owners : \E i \in 1..Len(rows[o]) : i # 1 /\ rows[o][i] = m
    <3>1. (\E i \in 1..Len(new[t]) : i # 1 /\ new[t][i] = m) <=> FALSE
      BY <1>6
    <3>2. (\E i \in 1..Len(rows[t]) : i # 1 /\ rows[t][i] = m) <=> FALSE
      BY <1>4
    <3> QED
      BY <1>5, <3>1, <3>2
  <2>2. (\E u \in Threads : Ready(u)' /\ qe'[u] = m) <=> \E u \in Threads : Ready(u) /\ qe[u] = m
    BY <1>3, <1>7 DEF Holding
  <2> QED
    BY <2>1, <2>2 DEF Carries
<1>17. \A o \in Owners : Open(o) => Open(o)' /\ o # t
  BY <1>3, <1>4, <1>9 DEF Open
<1> QED
  BY <1>5, <1>8, <1>10, <1>14, <1>15, <1>16, <1>17 DEF Shape, Rows, new

\* The swap of an element's null pointer succeeds.
Links(t) == Link(t) /\ next[enq[t].ptr] = nxt[t]

\* What a successful link writes.
LEMMA LinksWrites ==
  ASSUME Types, NEW t \in Threads, NEW m, m = enq[t].ptr, Links(t)
  PROVE  /\ m \in Nodes /\ pc[t] = "enqSwap" /\ pc'[t] = "enqSwing" /\ nxt[t].ptr = Null
         /\ next[m].ptr = Null /\ next[m] = nxt[t]
         /\ next'[m].ptr = qe[t] /\ next'[m].ctr = next[m].ctr + 1
         /\ \A n \in Nodes \ {m} : next'[n] = next[n]
         /\ next' \in [Nodes -> Pairs]
         /\ misplaced' = (misplaced \/ ~InList(m))
         /\ UNCHANGED <<enqueue, dequeue, user_data, aba_counter, free, nodes, local,
                        called, refused, delivered, sawEmpty>>
         /\ Others(t)
<1>1. Others(t)
  BY DEF Types, Links, Link, Goto, local, Others
<1>2. m \in Nodes /\ qe[t] \in Nodes
  BY DEF Types, Follows, Links, Link, Holding, Ready, Pairs
<1>3. next' = [next EXCEPT ![m] = Pair(qe[t], nxt[t].ctr + 1)] /\ next[m] = nxt[t]
  BY DEF Links, Link
<1>4. nxt[t].ctr \in Nat /\ next \in [Nodes -> Pairs]
  BY DEF Types, Pairs
<1>5. /\ next'[m].ptr = qe[t] /\ next'[m].ctr = next[m].ctr + 1
      /\ \A n \in Nodes \ {m} : next'[n] = next[n]
      /\ next' \in [Nodes -> Pairs]
  <2>1. Pair(qe[t], nxt[t].ctr + 1) \in Pairs
    BY <1>2, <1>4 DEF Pair, Pairs
  <2>2. next' \in [Nodes -> Pairs] /\ next'[m] = Pair(qe[t], nxt[t].ctr + 1)
    BY <1>2, <1>3, <1>4, <2>1
  <2> QED
    BY <1>2, <1>3, <1>4, <2>2 DEF Pair
<1>6. /\ pc[t] = "enqSwap" /\ pc'[t] = "enqSwing" /\ nxt[t].ptr = Null
      /\ misplaced' = (misplaced \/ ~InList(m))
      /\ UNCHANGED <<enqueue, dequeue, user_data, aba_counter, free, nodes, local,
                     called, refused, delivered, sawEmpty>>
  BY DEF Types, Links, Link, Goto
<1> QED
  BY <1>1, <1>2, <1>3, <1>5, <1>6

\* A link moves the row of the thread behind the element it is linked to.
LEMMA LinksShape ==
  ASSUME NEW rows, Types, Shape(rows), NEW t \in Threads, Links(t),
         NEW o \in Owners, o # t, Open(o), In(rows, o, enq[t].ptr)
  PROVE  /\ Shape(Join(rows, o, t))'
         /\ \A n : Carries(Join(rows, o, t), n)' <=> Carries(rows, n)
         /\ \A q \in Owners : Open(q)' <=> Open(q)
         /\ rows[t] # <<>>
<1> DEFINE all == Join(rows, o, t)
<1>1. PICK m : m = enq[t].ptr
  OBVIOUS
<1>2. /\ m \in Nodes /\ pc[t] = "enqSwap" /\ pc'[t] = "enqSwing"
      /\ next[m].ptr = Null /\ next'[m].ptr = qe[t]
      /\ \A n \in Nodes \ {m} : next'[n] = next[n]
      /\ UNCHANGED <<dequeue, free, nodes, qe>>
      /\ \A u \in Threads \ {t} : Stays(u)
  BY <1>1, LinksWrites, OthersStay DEF local
<1>3. Holding(t) /\ ~Holding(t)' /\ ~Alone(t) /\ ~Alone(t)' /\ Ready(t) /\ ~Ready(t)'
  BY <1>2 DEF Holding, Preparing, Ready, Alone
<1>4. /\ t \in Owners /\ Queue \in Owners /\ t # Queue /\ Rows(rows)
      /\ rows[t] # <<>> /\ rows[t][1] = qe[t]
  BY <1>3, QueueIsOwner DEF Shape, Heads
<1>5. /\ Rows(all)
      /\ \A q \in Owners, n \in Nodes :
           In(all, q, n) <=> q # t /\ (In(rows, q, n) \/ (q = o /\ In(rows, t, n)))
  BY <1>4, JoinKeepsRows
<1>6. /\ all[t] = <<>> /\ \A q \in Owners \ {o, t} : all[q] = rows[q]
      /\ Len(all[o]) = Len(rows[o]) + Len(rows[t])
      /\ \A i \in 1..Len(rows[o]) : all[o][i] = rows[o][i]
      /\ \A j \in 1..Len(rows[t]) : all[o][Len(rows[o]) + j] = rows[t][j]
      /\ \A i \in 1..Len(all[o]) :
           i \in 1..Len(rows[o]) \/ \E j \in 1..Len(rows[t]) : i = Len(rows[o]) + j
  <2>1. Rows(rows) /\ t \in Owners
    BY <1>4
  <2>2. IsJoin(rows, o, t, all)
    BY <2>1, JoinedRows
  <2> QED
    BY <2>2 DEF IsJoin
<1> HIDE DEF all
<1>7. /\ Len(rows[o]) \in Nat /\ Len(rows[t]) \in Nat \ {0} /\ Len(all[t]) = 0
      /\ \A q \in Owners : \A i \in 1..Len(rows[q]) : rows[q][i] \in Nodes
  BY <1>4, <1>6, RowTypes
<1>8. \A u \in Threads \ {t} : /\ Holding(u)' <=> Holding(u)
                               /\ Alone(u)' <=> Alone(u)
                               /\ Ready(u)' <=> Ready(u)
                               /\ u \in Owners \ {t}
  BY <1>2, StaysMeans DEF Stays, Owners
<1>9. \A q \in Owners : Open(q)' <=> Open(q)
  BY <1>3, <1>8 DEF Open
<1>10. /\ Len(rows[o]) \in 1..Len(rows[o]) /\ rows[o][Len(rows[o])] = m
       /\ \A q \in Owners : \A i \in 1..Len(rows[q]) : rows[q][i] = m => q = o /\ i = Len(rows[o])
  <2>1. PICK i \in 1..Len(rows[o]) : rows[o][i] = m
    BY <1>1 DEF In
  <2>2. i = Len(rows[o])
    <3>1. SUFFICES ASSUME i # Len(rows[o]) PROVE FALSE
      OBVIOUS
    <3>2. next[m].ptr = rows[o][i + 1]
      BY <2>1, <3>1 DEF Shape, Linked
    <3>3. i + 1 \in 1..Len(rows[o])
      BY <1>7, <2>1, <3>1
    <3> QED
      BY <1>2, <1>7, <3>2, <3>3, SizesAssumption DEF Nodes, Null
  <2> QED
    BY <1>4, <2>1, <2>2 DEF Rows
<1>11. /\ Len(all[o]) # 0
       /\ \A i \in 1..Len(rows[o]) : i \in 1..Len(all[o]) /\ i # Len(all[o])
       /\ \A j \in 1..Len(rows[t]) : /\ Len(rows[o]) + j \in 1..Len(all[o])
                                    /\ Len(rows[o]) + j # 1
                                    /\ Len(rows[o]) + j = Len(all[o]) <=> j = Len(rows[t])
       /\ \A j \in 1..Len(rows[t]) : j # Len(rows[t]) =>
            j + 1 \in 1..Len(rows[t]) /\ (Len(rows[o]) + j) + 1 = Len(rows[o]) + (j + 1)
       /\ 1 \in 1..Len(rows[t]) /\ 1 \in 1..Len(rows[o])
       /\ \A i \in 1..Len(rows[o]) : i # Len(rows[o]) => i + 1 \in 1..Len(rows[o])
  <2> DEFINE a == Len(rows[o])
  <2> DEFINE b == Len(rows[t])
  <2> DEFINE c == Len(all[o])
  <2>1. a \in Nat \ {0} /\ b \in Nat \ {0} /\ c = a + b
    BY <1>6, <1>7, <1>10
  <2> HIDE DEF a, b, c
  <2>2. c # 0 /\ \A i \in 1..a : i \in 1..c /\ i # c
    BY <2>1
  <2>3. \A j \in 1..b : a + j \in 1..c /\ a + j # 1 /\ (a + j = c <=> j = b)
    BY <2>1
  <2>4. \A j \in 1..b : j # b => j + 1 \in 1..b /\ (a + j) + 1 = a + (j + 1)
    BY <2>1
  <2>5. 1 \in 1..b /\ 1 \in 1..a /\ \A i \in 1..a : i # a => i + 1 \in 1..a
    BY <2>1
  <2> QED
    BY <2>2, <2>3, <2>4, <2>5 DEF a, b, c
<1>12. Heads(all)'
  <2>1. all[Queue] # <<>> /\ all[Queue][1] = dequeue'.ptr
    <3>1. CASE o = Queue
      <4>1. all[o][1] = rows[o][1] /\ Len(all[o]) # 0
        BY <1>6, <1>11
      <4>2. all[o] # <<>>
        BY <4>1
      <4> QED
        BY <1>2, <3>1, <4>1, <4>2 DEF Shape, Heads
    <3>2. CASE o # Queue
      BY <1>2, <1>4, <1>6, <3>2 DEF Shape, Heads
    <3> QED
      BY <3>1, <3>2
  <2>2. ASSUME NEW u \in Threads, u # t
        PROVE  /\ Holding(u)' => all[u] # <<>> /\ all[u][1] = qe'[u]
               /\ ~Holding(u)' => all[u] = <<>>
               /\ Alone(u)' => Len(all[u]) = 1
    <3>1. CASE u # o
      <4>1. all[u] = rows[u] /\ qe'[u] = qe[u]
        BY <1>2, <1>6, <1>8, <2>2, <3>1
      <4> QED
        BY <1>8, <2>2, <4>1 DEF Shape, Heads
    <3>2. CASE u = o
      <4>1. ~Alone(u) /\ Holding(u) /\ rows[u][1] = qe[u]
        <5>1. ~Alone(u)
          BY <1>4, <2>2, <3>2, QueueIsOwner DEF Open
        <5>2. rows[u] # <<>>
          BY <1>7, <1>10, <3>2
        <5> QED
          BY <5>1, <5>2 DEF Shape, Heads
      <4>2. all[u][1] = rows[u][1] /\ Len(all[u]) # 0
        BY <1>6, <1>11, <3>2
      <4>3. all[u] # <<>>
        BY <4>2
      <4> QED
        BY <1>2, <1>8, <2>2, <4>1, <4>2, <4>3
    <3> QED
      BY <3>1, <3>2
  <2> QED
    BY <1>3, <1>6, <2>1, <2>2 DEF Heads, Alone, Holding
<1>13. Linked(all)'
  <2>1. ASSUME NEW q \in Owners, q # o, q # t, NEW i \in 1..Len(all[q])
        PROVE  /\ i # Len(all[q]) => next'[all[q][i]].ptr = all[q][i + 1]
               /\ i = Len(all[q]) /\ Open(q)' => next'[all[q][i]].ptr = Null
    <3>1. all[q] = rows[q]
      BY <1>6, <2>1
    <3>2. rows[q][i] \in Nodes /\ rows[q][i] # m
      BY <1>7, <1>10, <2>1, <3>1
    <3> QED
      BY <1>2, <1>9, <2>1, <3>1, <3>2 DEF Shape, Linked
  <2>2. ASSUME NEW i \in 1..Len(rows[o])
        PROVE  i # Len(all[o]) /\ next'[all[o][i]].ptr = all[o][i + 1]
    <3>1. i # Len(all[o])
      BY <1>11, <2>2
    <3>2. CASE i = Len(rows[o])
      <4>1. all[o][i + 1] = qe[t]
        BY <1>4, <1>6, <1>11, <3>2
      <4>2. all[o][i] = m
        BY <1>6, <1>10, <2>2, <3>2
      <4> QED
        BY <1>2, <3>1, <4>1, <4>2
    <3>3. CASE i # Len(rows[o])
      <4>1. i + 1 \in 1..Len(rows[o])
        BY <1>11, <2>2, <3>3
      <4>2. rows[o][i] \in Nodes /\ rows[o][i] # m
        BY <1>7, <1>10, <2>2, <3>3
      <4>3. next[rows[o][i]].ptr = rows[o][i + 1]
        BY <2>2, <3>3 DEF Shape, Linked
      <4>4. all[o][i] = rows[o][i] /\ all[o][i + 1] = rows[o][i + 1]
        BY <1>6, <2>2, <4>1
      <4> QED
        BY <1>2, <3>1, <4>2, <4>3, <4>4
    <3> QED
      BY <3>2, <3>3
  <2>3. ASSUME NEW j \in 1..Len(rows[t]), NEW i, i = Len(rows[o]) + j
        PROVE  /\ i # Len(all[o]) => next'[all[o][i]].ptr = all[o][i + 1]
               /\ i = Len(all[o]) => next'[all[o][i]].ptr = Null
    <3>1. rows[t][j] \in Nodes /\ rows[t][j] # m /\ all[o][i] = rows[t][j]
      BY <1>4, <1>6, <1>7, <1>10, <2>3
    <3>2. i = Len(all[o]) <=> j = Len(rows[t])
      BY <1>11, <2>3
    <3>3. CASE j = Len(rows[t])
      <4>1. Open(t)
        BY <1>3 DEF Open
      <4>2. next[rows[t][j]].ptr = Null
        BY <1>4, <2>3, <3>3, <4>1 DEF Shape, Linked
      <4> QED
        BY <1>2, <3>1, <3>2, <3>3, <4>2
    <3>4. CASE j # Len(rows[t])
      <4>1. j + 1 \in 1..Len(rows[t]) /\ i + 1 = Len(rows[o]) + (j + 1)
        BY <1>11, <2>3, <3>4
      <4>2. all[o][i + 1] = rows[t][j + 1]
        <5>1. all[o][Len(rows[o]) + (j + 1)] = rows[t][j + 1]
          <6> DEFINE k == j + 1
          <6>1. k \in 1..Len(rows[t])
            BY <4>1
          <6> HIDE DEF k
          <6>2. all[o][Len(rows[o]) + k] = rows[t][k]
            BY <1>6, <6>1
          <6> QED
            BY <6>2 DEF k
        <5> QED
          BY <4>1, <5>1
      <4>3. next[rows[t][j]].ptr = rows[t][j + 1]
        BY <1>4, <2>3, <3>4 DEF Shape, Linked
      <4> QED
        BY <1>2, <3>1, <3>2, <3>4, <4>2, <4>3
    <3> QED
      BY <3>3, <3>4
  <2>4. ASSUME NEW q \in Owners, NEW i \in 1..Len(all[q])
        PROVE  /\ i # Len(all[q]) => next'[all[q][i]].ptr = all[q][i + 1]
               /\ i = Len(all[q]) /\ Open(q)' => next'[all[q][i]].ptr = Null
    <3>1. q # t
      BY <1>7, <2>4
    <3>2. CASE q = o
      <4>1. i \in 1..Len(rows[o]) \/ \E j \in 1..Len(rows[t]) : i = Len(rows[o]) + j
        BY <1>6, <2>4, <3>2
      <4> QED
        BY <2>2, <2>3, <3>2, <4>1
    <3> QED
      BY <2>1, <2>4, <3>1, <3>2
  <2> QED
    BY <2>4 DEF Linked
<1>14. Supply(all)'
  <2>1. \A n \in Nodes : InRows(all, n) <=> InRows(rows, n)
    BY <1>4, <1>5 DEF InRows
  <2>2. \A n \in Nodes : IsFree(n)' <=> IsFree(n)
    BY <1>2 DEF IsFree
  <2>3. /\ \A n \in Nodes : IsFree(n)' => ~InRows(all, n)
        /\ \A n \in Nodes : n \in 1..nodes' <=> IsFree(n)' \/ InRows(all, n)
    BY <1>2, <2>1, <2>2 DEF Shape, Supply
  <2> QED
    BY <1>2, <2>3 DEF Shape, Supply, InRows, In
<1>15. \A n : Carries(all, n)' <=> Carries(rows, n)
  <2> TAKE n
  <2>1. \A u \in Threads : Ready(u)' <=> Ready(u) /\ u # t
    BY <1>3, <1>8
  <2>2. ASSUME Carries(all, n)' PROVE Carries(rows, n)
    <3>1. CASE \E u \in Threads : Ready(u)' /\ qe'[u] = n
      BY <1>2, <2>1, <3>1 DEF Carries
    <3>2. ASSUME NEW q \in Owners, NEW i \in 1..Len(all[q]), i # 1, all[q][i] = n
          PROVE  Carries(rows, n)
      <4>1. q # t
        BY <1>7, <3>2
      <4>2. CASE q # o
        BY <1>6, <3>2, <4>1, <4>2 DEF Carries
      <4>3. CASE q = o /\ i \in 1..Len(rows[o])
        BY <1>6, <3>2, <4>3 DEF Carries
      <4>4. ASSUME q = o, NEW j \in 1..Len(rows[t]), i = Len(rows[o]) + j
            PROVE  Carries(rows, n)
        <5>1. rows[t][j] = n
          BY <1>6, <3>2, <4>4
        <5>2. CASE j = 1
          BY <1>3, <1>4, <5>1, <5>2 DEF Carries
        <5>3. CASE j # 1
          BY <1>4, <4>4, <5>1, <5>3 DEF Carries
        <5> QED
          BY <5>2, <5>3
      <4> QED
        BY <1>6, <3>2, <4>2, <4>3, <4>4
    <3> QED
      BY <2>2, <3>1, <3>2 DEF Carries
  <2>3. ASSUME Carries(rows, n) PROVE Carries(all, n)'
    <3>1. ASSUME NEW j \in 1..Len(rows[t]), rows[t][j] = n
          PROVE  Carries(all, n)'
      <4>1. Len(rows[o]) + j \in 1..Len(all[o]) /\ Len(rows[o]) + j # 1
        <5> DEFINE a == Len(rows[o])
        <5> DEFINE b == Len(rows[t])
        <5> DEFINE c == Len(all[o])
        <5>1. a \in Nat /\ b \in Nat /\ a # 0 /\ c = a + b /\ j \in 1..b
          BY <1>6, <1>7, <1>10, <3>1
        <5> HIDE DEF a, b, c
        <5>2. a + j \in 1..c /\ a + j # 1
          BY <5>1
        <5> QED
          BY <5>2 DEF a, c
      <4>2. all[o][Len(rows[o]) + j] = n
        BY <1>6, <3>1
      <4> QED
        BY <4>1, <4>2 DEF Carries, Owners
    <3>2. ASSUME NEW u \in Threads, Ready(u), qe[u] = n
          PROVE  Carries(all, n)'
      <4>1. CASE u = t
        <5>1. 1 \in 1..Len(rows[t])
          BY <1>7
        <5> QED
          BY <1>4, <3>1, <3>2, <4>1, <5>1
      <4>2. CASE u # t
        BY <1>2, <2>1, <3>2, <4>2 DEF Carries
      <4> QED
        BY <4>1, <4>2
    <3>3. ASSUME NEW q \in Owners, NEW i \in 1..Len(rows[q]), i # 1, rows[q][i] = n
          PROVE  Carries(all, n)'
      <4>1. CASE q = t
        BY <3>1, <3>3, <4>1
      <4>2. CASE q = o
        <5>1. i \in 1..Len(all[o]) /\ all[o][i] = n
          BY <1>6, <1>11, <3>3, <4>2
        <5> QED
          BY <3>3, <5>1 DEF Carries, Owners
      <4>3. CASE q # o /\ q # t
        BY <1>6, <3>3, <4>3 DEF Carries, Owners
      <4> QED
        BY <4>1, <4>2, <4>3
    <3> QED
      BY <2>3, <3>2, <3>3 DEF Carries
  <2> QED
    BY <2>2, <2>3
<1> QED
  BY <1>4, <1>5, <1>9, <1>12, <1>13, <1>14, <1>15 DEF Shape, Rows, all

\* The dummy goes to the thread that takes the value of the element behind it.
LEMMA AdvanceWrites ==
  ASSUME Types, NEW t \in Threads, Advance(t), ReadsDequeue(t)
  PROVE  /\ pc[t] = "deqSwap" /\ pc'[t] = "deqFree"
         /\ dequeue = deq[t] /\ nxt[t].ptr \in Nodes /\ next[dequeue.ptr].ptr = nxt[t].ptr
         /\ dequeue'.ptr = nxt[t].ptr /\ dequeue'.ctr = dequeue.ctr + 1
         /\ dequeue' \in [ptr : Nodes, ctr : Nat]
         /\ qe'[t] = dequeue.ptr /\ dequeue.ptr \in Nodes
         /\ delivered' = delivered \union {value[t]} /\ value[t] = user_data[nxt[t].ptr]
         /\ sawEmpty' = (IF Len(Contents) = 1 THEN Waiting ELSE sawEmpty) \ {t}
         /\ UNCHANGED <<enqueue, next, user_data, aba_counter, free, nodes, enq, deq, nxt, value,
                        called, refused, misplaced>>
         /\ Others(t)
<1>1. Others(t)
  BY DEF Types, Advance, Goto, Others
<1>2. pc[t] = "deqSwap" /\ dequeue = deq[t]
  BY DEF Advance, Compare
<1>3. /\ nxt[t].ptr # Null /\ nxt[t] \in Pairs
      /\ next[dequeue.ptr].ptr = nxt[t].ptr /\ value[t] = user_data[nxt[t].ptr]
  BY <1>2 DEF ReadsDequeue, Types
<1>4. nxt[t].ptr \in Nodes
  BY <1>3 DEF Pairs
<1>5. dequeue' = Pair(nxt[t].ptr, dequeue.ctr + 1)
  BY <1>2 DEF Advance
<1>6. /\ dequeue'.ptr = nxt[t].ptr /\ dequeue'.ctr = dequeue.ctr + 1
      /\ dequeue' \in [ptr : Nodes, ctr : Nat] /\ dequeue.ptr \in Nodes
  BY <1>4, <1>5 DEF Pair, Types
<1> QED
  BY <1>1, <1>2, <1>3, <1>4, <1>6 DEF Types, Advance, Goto

\* The rows without the list's first element e, which is thread t's.
Passed(rows, t, e) == [[rows EXCEPT ![Queue] = Tail(@)] EXCEPT ![t] = <<e>>]

\* A dequeue moves the first element of the list to the row of its thread.
LEMMA AdvanceShape ==
  ASSUME NEW rows, Types, Shape(rows), NEW t \in Threads, Advance(t), ReadsDequeue(t),
         NEW e, e = dequeue.ptr
  PROVE  LET new == Passed(rows, t, e) IN
         /\ Shape(new)'
         /\ \A q \in Owners \ {t, Queue} : new[q] = rows[q]
         /\ \A q \in Owners, m \in Nodes :
              In(new, q, m) <=> IF q = t THEN m = e ELSE In(rows, q, m) /\ ~(q = Queue /\ m = e)
         /\ \A m : Carries(new, m)' <=> Carries(rows, m) /\ m # nxt[t].ptr
         /\ \A o \in Owners : Open(o)' /\ o # t <=> Open(o) /\ o # t
         /\ Len(new[Queue]) = Len(rows[Queue]) - 1 /\ Len(rows[Queue]) \in Nat /\ Len(rows[Queue]) >= 2
         /\ 2 \in 1..Len(rows[Queue]) /\ rows[Queue][2] = nxt[t].ptr
         /\ rows[t] = <<>> /\ Len(new[t]) = 1
         /\ next[e].ptr # Null
<1> DEFINE rest == [rows EXCEPT ![Queue] = Tail(@)]
<1> DEFINE new == Passed(rows, t, e)
<1>1. /\ pc[t] = "deqSwap" /\ pc'[t] = "deqFree" /\ qe'[t] = e /\ e \in Nodes
      /\ next[e].ptr = nxt[t].ptr /\ dequeue'.ptr = nxt[t].ptr /\ nxt[t].ptr \in Nodes
      /\ UNCHANGED <<next, free, nodes>>
      /\ \A u \in Threads \ {t} : Stays(u)
  BY AdvanceWrites, OthersStay
<1>2. ~Holding(t) /\ Holding(t)' /\ Alone(t)' /\ ~Alone(t) /\ ~Ready(t) /\ ~Ready(t)'
  BY <1>1 DEF Holding, Preparing, Ready, Alone
<1>3. /\ t \in Owners /\ Queue \in Owners /\ t # Queue /\ rows[t] = <<>> /\ Rows(rows)
      /\ rows[Queue] # <<>> /\ rows[Queue][1] = e
  BY <1>2, QueueIsOwner DEF Shape, Heads
<1>4. nxt[t].ptr # Null /\ next[e].ptr # Null
  BY <1>1, SizesAssumption DEF Nodes, Null
<1>5. /\ Len(rows[Queue]) \in Nat /\ Len(rows[Queue]) # 0
      /\ \A q \in Owners : \A i \in 1..Len(rows[q]) : rows[q][i] \in Nodes
  BY <1>3, RowTypes
<1>6. Len(rows[Queue]) # 1
  <2>1. Open(Queue) /\ 1 \in 1..Len(rows[Queue])
    BY <1>5 DEF Open
  <2> QED
    BY <1>3, <1>4, <2>1 DEF Shape, Linked
<1>7. /\ Len(rows[Queue]) >= 2 /\ 1 \in 1..Len(rows[Queue]) /\ 2 \in 1..Len(rows[Queue]) /\ 1 + 1 = 2
  <2> DEFINE a == Len(rows[Queue])
  <2>1. a \in Nat /\ a # 0 /\ a # 1
    BY <1>5, <1>6
  <2> HIDE DEF a
  <2>2. a >= 2 /\ 1 \in 1..a /\ 2 \in 1..a /\ 1 + 1 = 2
    BY <2>1
  <2> QED
    BY <2>2 DEF a
<1>8. rows[Queue][2] = nxt[t].ptr
  BY <1>1, <1>3, <1>6, <1>7 DEF Shape, Linked
<1>9. /\ Rows(rest) /\ \A q \in Owners \ {Queue} : rest[q] = rows[q]
      /\ Len(rest[Queue]) = Len(rows[Queue]) - 1
      /\ \A i \in 1..Len(rows[Queue]) : i # 1 => i - 1 \in 1..Len(rest[Queue]) /\ rest[Queue][i - 1] = rows[Queue][i]
      /\ \A i \in 1..Len(rest[Queue]) : i + 1 \in 1..Len(rows[Queue]) /\ rest[Queue][i] = rows[Queue][i + 1]
      /\ \A q \in Owners, m \in Nodes : In(rest, q, m) <=> In(rows, q, m) /\ ~(q = Queue /\ m = e)
  <2>1. HasRest(rows, Queue, rest)
    BY <1>3, RestOfRow
  <2> HIDE DEF rest, new
  <2> QED
    BY <1>3, <2>1 DEF HasRest
<1>10. new = [rest EXCEPT ![t] = <<e>>]
  BY DEF Passed
<1> HIDE DEF rest, new
<1>11. rest[t] = <<>> /\ ~InRows(rest, e)
  <2>1. In(rows, Queue, e)
    BY <1>3, <1>7 DEF In
  <2> QED
    BY <1>1, <1>3, <1>9, <2>1, OneRow DEF InRows
<1>12. /\ Rows(new) /\ new[t] = <<e>> /\ \A q \in Owners \ {t} : new[q] = rest[q]
       /\ \A q \in Owners, m \in Nodes : In(new, q, m) <=> In(rest, q, m) \/ (q = t /\ m = e)
  <2>1. HasNew(rest, t, e, new)
    <3>1. Rows(rest) /\ t \in Owners /\ e \in Nodes
      BY <1>1, <1>3, <1>9
    <3> QED
      BY <1>10, <1>11, <3>1, NewRow
  <2> QED
    BY <2>1 DEF HasNew
<1>13. Len(new[t]) = 1 /\ new[t][1] = e /\ new[t] # <<>> /\ Len(rows[t]) = 0
  BY <1>3, <1>12
<1>14. \A u \in Threads \ {t} : /\ Holding(u)' <=> Holding(u)
                                /\ Alone(u)' <=> Alone(u)
                                /\ Ready(u)' <=> Ready(u)
                                /\ Holding(u) => qe'[u] = qe[u]
                                /\ u \in Owners \ {t} /\ u # Queue
  BY <1>1, StaysMeans, QueueIsOwner DEF Stays, Owners
<1>15. new[Queue] = rest[Queue] /\ \A q \in Owners \ {t, Queue} : new[q] = rows[q]
  BY <1>3, <1>9, <1>12
<1>16. /\ Len(new[Queue]) # 0 /\ 1 \in 1..Len(new[Queue])
       /\ \A i \in 1..Len(new[Queue]) : i + 1 # 1
       /\ \A i \in 1..Len(new[Queue]) : i = Len(new[Queue]) <=> i + 1 = Len(rows[Queue])
  <2> DEFINE a == Len(rows[Queue])
  <2> DEFINE b == Len(new[Queue])
  <2>1. a \in Nat /\ a >= 2 /\ b = a - 1
    BY <1>5, <1>7, <1>9, <1>15
  <2> HIDE DEF a, b
  <2>2. b # 0 /\ 1 \in 1..b /\ \A i \in 1..b : i + 1 # 1 /\ (i = b <=> i + 1 = a)
    BY <2>1
  <2> QED
    BY <2>2 DEF a, b
<1>17. Heads(new)'
  <2>1. new[Queue][1] = rows[Queue][2]
    <3>1. 1 \in 1..Len(rest[Queue]) /\ new[Queue][1] = rest[Queue][1]
      BY <1>15, <1>16
    <3>2. rest[Queue][1] = rows[Queue][1 + 1]
      BY <1>9, <3>1
    <3> QED
      BY <1>7, <3>1, <3>2
  <2>2. new[Queue] # <<>> /\ new[Queue][1] = dequeue'.ptr
    BY <1>1, <1>8, <1>16, <2>1
  <2>3. \A u \in Threads \ {t} :
          /\ Holding(u)' => new[u] # <<>> /\ new[u][1] = qe'[u]
          /\ ~Holding(u)' => new[u] = <<>>
          /\ Alone(u)' => Len(new[u]) = 1
    BY <1>14, <1>15 DEF Shape, Heads
  <2> QED
    BY <1>1, <1>2, <1>13, <2>2, <2>3 DEF Heads
<1>18. \A o \in Owners : Open(o)' /\ o # t <=> Open(o) /\ o # t
  BY <1>14 DEF Open
<1>19. Linked(new)'
  <2>1. ~Open(t)'
    BY <1>2, <1>3 DEF Open
  <2>2. ASSUME NEW o \in Owners, o # t, o # Queue, NEW i \in 1..Len(new[o])
        PROVE  /\ i # Len(new[o]) => next'[new[o][i]].ptr = new[o][i + 1]
               /\ i = Len(new[o]) /\ Open(o)' => next'[new[o][i]].ptr = Null
    BY <1>1, <1>15, <1>18, <2>2 DEF Shape, Linked
  <2>3. ASSUME NEW i \in 1..Len(new[t]) PROVE i = Len(new[t])
    BY <1>13, <2>3
  <2>4. ASSUME NEW i \in 1..Len(new[Queue])
        PROVE  /\ i # Len(new[Queue]) => next'[new[Queue][i]].ptr = new[Queue][i + 1]
               /\ i = Len(new[Queue]) => next'[new[Queue][i]].ptr = Null
    <3>1. i + 1 \in 1..Len(rows[Queue]) /\ new[Queue][i] = rows[Queue][i + 1]
      BY <1>9, <1>15, <2>4
    <3>2. CASE i = Len(new[Queue])
      <4>1. i + 1 = Len(rows[Queue]) /\ Open(Queue)
        BY <1>16, <3>2 DEF Open
      <4>2. next[rows[Queue][i + 1]].ptr = Null
        BY <1>3, <3>1, <4>1 DEF Shape, Linked
      <4> QED
        BY <1>1, <3>1, <3>2, <4>2
    <3>3. CASE i # Len(new[Queue])
      <4>1. i + 1 # Len(rows[Queue])
        BY <1>16, <2>4, <3>3
      <4>2. next[rows[Queue][i + 1]].ptr = rows[Queue][(i + 1) + 1]
        BY <1>3, <3>1, <4>1 DEF Shape, Linked
      <4>3. i + 1 \in 1..Len(new[Queue])
        <5> DEFINE b == Len(new[Queue])
        <5>1. b \in Nat
          BY <1>3, <1>12, RowTypes
        <5> HIDE DEF b
        <5>2. \A k \in 1..b : k # b => k + 1 \in 1..b
          BY <5>1
        <5> QED
          BY <2>4, <3>3, <5>2 DEF b
      <4>4. new[Queue][i + 1] = rows[Queue][(i + 1) + 1]
        BY <1>9, <1>15, <4>3
      <4> QED
        BY <1>1, <3>1, <3>3, <4>2, <4>4
    <3> QED
      BY <3>2, <3>3
  <2> QED
    BY <2>1, <2>2, <2>3, <2>4 DEF Linked
<1>20. Supply(new)'
  <2>1. \A m \in Nodes : InRows(new, m) <=> InRows(rows, m)
    <3>1. In(rows, Queue, e)
      BY <1>3, <1>7 DEF In
    <3> QED
      BY <1>3, <1>9, <1>12, <3>1 DEF InRows
  <2>2. \A n \in Nodes : IsFree(n)' <=> IsFree(n)
    BY <1>1 DEF IsFree
  <2>3. /\ \A n \in Nodes : IsFree(n)' => ~InRows(new, n)
        /\ \A n \in Nodes : n \in 1..nodes' <=> IsFree(n)' \/ InRows(new, n)
    BY <1>1, <2>1, <2>2 DEF Shape, Supply
  <2> QED
    BY <1>1, <2>3 DEF Shape, Supply, InRows, In
<1>21. \A m : Carries(new, m)' <=> Carries(rows, m) /\ m # nxt[t].ptr
  <2> TAKE m
  <2>1. \A u \in Threads : Ready(u)' <=> Ready(u)
    BY <1>2, <1>14
  <2>2. \A u \in Threads : Ready(u) => u # t /\ qe'[u] = qe[u] /\ In(rows, u, qe[u]) /\ qe[u] # nxt[t].ptr
    <3> SUFFICES ASSUME NEW u \in Threads, Ready(u)
                 PROVE  u # t /\ qe'[u] = qe[u] /\ In(rows, u, qe[u]) /\ qe[u] # nxt[t].ptr
      OBVIOUS
    <3>1. u # t /\ Holding(u) /\ qe'[u] = qe[u] /\ u \in Owners /\ u # Queue
      BY <1>2, <1>14 DEF Holding
    <3>2. rows[u] # <<>> /\ rows[u][1] = qe[u]
      BY <3>1 DEF Shape, Heads
    <3>3. 1 \in 1..Len(rows[u])
      BY <1>3, <3>1, <3>2, RowTypes
    <3>4. rows[u][1] # rows[Queue][2]
      BY <1>3, <1>7, <3>1, <3>3 DEF Rows
    <3> QED
      BY <1>8, <3>1, <3>2, <3>3, <3>4 DEF In
  <2>3. ASSUME Carries(new, m)' PROVE Carries(rows, m) /\ m # nxt[t].ptr
    <3>1. CASE \E u \in Threads : Ready(u)' /\ qe'[u] = m
      BY <2>1, <2>2, <3>1 DEF Carries
    <3>2. ASSUME NEW q \in Owners, NEW i \in 1..Len(new[q]), i # 1, new[q][i] = m
          PROVE  Carries(rows, m) /\ m # nxt[t].ptr
      <4>1. q # t
        BY <1>13, <3>2
      <4>2. CASE q # Queue
        <5>1. i \in 1..Len(rows[q]) /\ rows[q][i] = m
          BY <1>15, <3>2, <4>1, <4>2
        <5>2. m # rows[Queue][2]
          BY <1>3, <1>7, <4>2, <5>1 DEF Rows
        <5> QED
          BY <1>8, <3>2, <5>1, <5>2 DEF Carries
      <4>3. CASE q = Queue
        <5>1. i + 1 \in 1..Len(rows[q]) /\ rows[q][i + 1] = m /\ i + 1 # 1
          BY <1>9, <1>15, <1>16, <3>2, <4>3
        <5>2. i + 1 # 2
          BY <3>2
        <5>3. m # rows[Queue][2]
          BY <1>3, <1>7, <4>3, <5>1, <5>2 DEF Rows
        <5> QED
          BY <1>8, <5>1, <5>3 DEF Carries
      <4> QED
        BY <4>2, <4>3
    <3> QED
      BY <2>3, <3>1, <3>2 DEF Carries
  <2>4. ASSUME Carries(rows, m), m # nxt[t].ptr PROVE Carries(new, m)'
    <3>1. CASE \E u \in Threads : Ready(u) /\ qe[u] = m
      BY <2>1, <2>2, <3>1 DEF Carries
    <3>2. ASSUME NEW q \in Owners, NEW i \in 1..Len(rows[q]), i # 1, rows[q][i] = m
          PROVE  Carries(new, m)'
      <4>1. q # t
        BY <1>13, <3>2
      <4>2. CASE q # Queue
        BY <1>15, <3>2, <4>1, <4>2 DEF Carries, Owners
      <4>3. CASE q = Queue
        <5>1. i - 1 \in 1..Len(new[q]) /\ new[q][i - 1] = m
          BY <1>9, <1>15, <3>2, <4>3
        <5>2. i - 1 # 1
          <6>1. i # 2
            BY <1>8, <2>4, <3>2, <4>3
          <6> QED
            BY <3>2, <6>1
        <5> QED
          BY <5>1, <5>2 DEF Carries, Owners
      <4> QED
        BY <4>2, <4>3
    <3> QED
      BY <2>4, <3>1, <3>2 DEF Carries
  <2> QED
    BY <2>3, <2>4
<1>22. \A q \in Owners, m \in Nodes :
         In(new, q, m) <=> IF q = t THEN m = e ELSE In(rows, q, m) /\ ~(q = Queue /\ m = e)
  <2>1. \A m : ~In(rest, t, m)
    BY <1>11 DEF In
  <2> QED
    BY <1>3, <1>9, <1>12, <2>1
<1>23. Len(new[Queue]) = Len(rows[Queue]) - 1
  BY <1>9, <1>15
<1> QED
  BY <1>3, <1>4, <1>5, <1>7, <1>8, <1>12, <1>13, <1>15, <1>17, <1>18, <1>19, <1>20, <1>21, <1>22, <1>23
     DEF Shape, Rows, new

-----------------------------------------------------------------------------
(***************************************************************************)
(* ListFrom() and the rows: the list from the first element of an open row *)
(* is the row.                                                             *)
(***************************************************************************)
\* Induction over the numbers, for a set of them: the least number outside of it would follow one inside.
LEMMA NatSetInduction ==
  ASSUME NEW S \in SUBSET Nat, 0 \in S, \A n \in S : n + 1 \in S
  PROVE  S = Nat
<1> DEFINE R == {ss \in Nat \X Nat : ss[1] < ss[2]}
<1> DEFINE T == Nat \ S
<1>1. IsWellFoundedOn(R, Nat)
  BY NatLessThanWellFounded DEF OpToRel
<1>2. \A m, n \in Nat : m < n => <<m, n>> \in R
  OBVIOUS
<1>3. T \subseteq Nat /\ (T = {} => S = Nat)
  OBVIOUS
<1>4. \A n \in T : n \in Nat /\ n # 0 /\ n - 1 \in Nat /\ n - 1 < n /\ (n - 1) + 1 = n
  OBVIOUS
<1>5. \A n \in T : n - 1 \in T
  BY <1>4
<1> HIDE DEF R, T
<1>6. ASSUME T # {} PROVE FALSE
  <2>1. PICK m \in T : \A y \in T : ~(<<y, m>> \in R)
    BY <1>1, <1>3, <1>6, WFMin
  <2> QED
    BY <1>2, <1>4, <1>5, <2>1
<1> QED
  BY <1>3, <1>6

\* Elements, each once, that the next fields lead through to null.
At(s, i) == IF i \in 1..Len(s) THEN s[i] ELSE Null
InOrder(s) ==
  /\ s \in Seq(Nodes)
  /\ \A i \in 1..Len(s) : next[s[i]].ptr = At(s, i + 1)
  /\ \A i, j \in 1..Len(s) : s[i] = s[j] => i = j

\* There are no more of them than there can be,
LEMMA NotLonger ==
  ASSUME NEW s, InOrder(s)
  PROVE  Len(s) \in 0..MaxNodes
<1>1. s \in Seq(Nodes) /\ Len(s) \in Nat /\ s \in [1..Len(s) -> Nodes]
  BY LenProperties DEF InOrder
<1>2. s \in Injection(1..Len(s), Nodes)
  <2>1. \A i, j \in 1..Len(s) : s[i] = s[j] => i = j
    BY DEF InOrder
  <2> QED
    BY <1>1, <2>1 DEF Injection, IsInjective
<1>3. MaxNodes \in Nat
  BY SizesAssumption
<1>4. IsFiniteSet(Nodes) /\ Cardinality(Nodes) = MaxNodes
  BY <1>3, FS_Interval DEF Nodes
<1>5. IsFiniteSet(1..Len(s)) /\ Cardinality(1..Len(s)) = Len(s)
  BY <1>1, FS_Interval
<1>6. Cardinality(1..Len(s)) <= Cardinality(Nodes)
  BY <1>2, <1>4, FS_Injection
<1> QED
  BY <1>1, <1>3, <1>4, <1>5, <1>6

\* The body of the recursion in ListFrom().
Body(f) ==
  [k \in 0..MaxNodes + 1 |->
     [m \in 0..MaxNodes |->
        IF k = 0 \/ m = Null THEN <<>> ELSE <<m>> \o f[k - 1][next[m].ptr]]]

\* The recursion has a solution: one up to n extends to one up to n + 1.
LEMMA BodyHasSolution == \E f : f = Body(f)
<1> DEFINE Table(f, n) == [m \in 0..MaxNodes |->
                             IF n = 0 \/ m = Null THEN <<>> ELSE <<m>> \o f[n - 1][next[m].ptr]]
<1> DEFINE Upto(n) == \E f : \A m \in 0..n : f[m] = Table(f, m)
<1> DEFINE S == {n \in Nat : Upto(n)}
<1>1. 0 \in S
  <2> DEFINE f == [m \in {0} |-> Table(<<>>, 0)]
  <2>1. \A m \in 0..0 : f[m] = Table(f, m)
    OBVIOUS
  <2>2. Upto(0)
    BY <2>1
  <2> QED
    BY <2>2
<1>2. ASSUME NEW n \in S PROVE n + 1 \in S
  <2>1. PICK f : \A m \in 0..n : f[m] = Table(f, m)
    BY <1>2
  <2> DEFINE g == [m \in 0..n + 1 |-> IF m <= n THEN f[m] ELSE Table(f, m)]
  <2>2. ASSUME NEW m \in 0..n + 1 PROVE g[m] = Table(g, m)
    <3>1. g[m] = Table(f, m)
      <4>1. m <= n => m \in 0..n
        BY <1>2
      <4> QED
        BY <2>1, <4>1
    <3>2. m # 0 => g[m - 1] = f[m - 1]
      BY <1>2
    <3>3. Table(g, m) = Table(f, m)
      BY <3>2
    <3> QED
      BY <3>1, <3>3
  <2>3. Upto(n + 1)
    <3>1. \A m \in 0..n + 1 : g[m] = Table(g, m)
      BY <2>2
    <3> HIDE DEF g, Table
    <3> QED
      BY <3>1
  <2> HIDE DEF Upto
  <2> QED
    BY <1>2, <2>3
<1>3. MaxNodes + 1 \in S
  <2> HIDE DEF S
  <2>1. S \in SUBSET Nat
    BY DEF S
  <2>2. S = Nat
    BY <1>1, <1>2, <2>1, NatSetInduction
  <2> QED
    BY <2>2, SizesAssumption
<1>4. PICK f : \A m \in 0..MaxNodes + 1 : f[m] = Table(f, m)
  BY <1>3
<1> DEFINE g == [m \in 0..MaxNodes + 1 |-> f[m]]
<1>5. ASSUME NEW m \in 0..MaxNodes + 1 PROVE g[m] = Table(g, m)
  <2>1. m # 0 => g[m - 1] = f[m - 1]
    BY SizesAssumption
  <2>2. Table(g, m) = Table(f, m)
    <3> HIDE DEF g
    <3> QED
      BY <2>1
  <2> QED
    BY <1>4, <2>2
<1>6. g = [m \in 0..MaxNodes + 1 |-> Table(g, m)]
  BY <1>5
<1> QED
  BY <1>6 DEF Body

\* ListFrom() follows the solution,
LEMMA ListSolves == \E f : f = Body(f) /\ \A n : ListFrom(n) = f[MaxNodes + 1][n]
<1> DEFINE h == CHOOSE g : g = Body(g)
<1>1. \A n : ListFrom(n) = h[MaxNodes + 1][n]
  BY DEF ListFrom, Body
<1>2. h = Body(h)
  <2> HIDE DEF Body
  <2> QED
    BY BodyHasSolution
<1> QED
  BY <1>1, <1>2

\* so that it is the list.
LEMMA ListInOrder ==
  ASSUME NEW s, InOrder(s)
  PROVE  ListFrom(At(s, 1)) = s
<1>1. PICK f : f = Body(f) /\ \A n : ListFrom(n) = f[MaxNodes + 1][n]
  BY ListSolves
<1> DEFINE L == Len(s)
<1> DEFINE Suffix(k) == SubSeq(s, (L + 1) - k, L)
<1>2. s \in Seq(Nodes) /\ L \in 0..MaxNodes /\ MaxNodes \in Nat
  BY NotLonger, SizesAssumption DEF InOrder
<1> DEFINE Found(k) == k <= L => \A n \in k..MaxNodes + 1 : f[n][At(s, (L + 1) - k)] = Suffix(k)
<1> DEFINE S == {k \in Nat : Found(k)}
<1>3. 0 \in S
  <2>1. At(s, L + 1) = Null
    BY <1>2 DEF At
  <2>2. \A n \in 0..MaxNodes + 1 : f[n][Null] = <<>>
    <3>1. Null \in 0..MaxNodes
      BY <1>2 DEF Null
    <3>2. \A n \in 0..MaxNodes + 1 : Body(f)[n][Null] = <<>>
      BY <3>1 DEF Body
    <3> QED
      BY <1>1, <3>2
  <2>3. Suffix(0) = <<>>
    BY <1>2, SubSeqEmpty
  <2>4. \A n \in 0..MaxNodes + 1 : f[n][At(s, (L + 1) - 0)] = Suffix(0)
    <3>1. (L + 1) - 0 = L + 1
      BY <1>2
    <3> QED
      BY <2>1, <2>2, <2>3, <3>1
  <2> QED
    BY <2>4
<1>4. ASSUME NEW k \in S PROVE k + 1 \in S
  <2> SUFFICES ASSUME k + 1 <= L, NEW n \in k + 1..MaxNodes + 1
               PROVE  f[n][At(s, (L + 1) - (k + 1))] = Suffix(k + 1)
    BY <1>4
  <2> DEFINE i == L - k
  <2>1. k \in Nat /\ Found(k)
    BY <1>4
  <2>2. /\ i \in 1..L /\ i = (L + 1) - (k + 1) /\ i + 1 = (L + 1) - k
        /\ n # 0 /\ n - 1 \in k..MaxNodes + 1 /\ n \in 0..MaxNodes + 1 /\ k <= L
    BY <1>2, <2>1
  <2>3. f[n - 1][At(s, i + 1)] = SubSeq(s, i + 1, L)
    BY <2>1, <2>2
  <2>4. At(s, i) = s[i] /\ s[i] \in Nodes /\ next[s[i]].ptr = At(s, i + 1)
    BY <1>2, <2>2, ElementOfSeq DEF At, InOrder
  <2>5. s[i] \in 0..MaxNodes /\ s[i] # Null
    BY <1>2, <2>4 DEF Nodes, Null
  <2>6. f[n][s[i]] = <<s[i]>> \o f[n - 1][next[s[i]].ptr]
    <3>1. \A m \in 0..MaxNodes + 1, p \in 0..MaxNodes :
            m # 0 /\ p # Null => Body(f)[m][p] = <<p>> \o f[m - 1][next[p].ptr]
      BY DEF Body
    <3> QED
      BY <1>1, <2>2, <2>5, <3>1
  <2>7. SubSeq(s, i, L) = <<s[i]>> \o SubSeq(s, i + 1, L)
    <3>1. L \in i..L
      BY <1>2, <2>2
    <3> HIDE DEF i
    <3> QED
      BY <1>2, <2>2, <3>1, SubSeqRecursiveFirst
  <2> QED
    BY <2>2, <2>3, <2>4, <2>6, <2>7
<1>5. L \in S
  <2> HIDE DEF S
  <2>1. S \in SUBSET Nat
    BY DEF S
  <2>2. S = Nat
    BY <1>3, <1>4, <2>1, NatSetInduction
  <2> QED
    BY <1>2, <2>2
<1>6. f[MaxNodes + 1][At(s, 1)] = SubSeq(s, 1, L)
  <2>1. (L + 1) - L = 1 /\ MaxNodes + 1 \in L..MaxNodes + 1
    BY <1>2
  <2> QED
    BY <1>2, <1>5, <2>1
<1> QED
  BY <1>1, <1>2, <1>6, SubSeqFull DEF InOrder

\* An open row is in order.
LEMMA RowIsList ==
  ASSUME NEW rows, Rows(rows), Linked(rows), NEW o \in Owners, Open(o), rows[o] # <<>>
  PROVE  ListFrom(rows[o][1]) = rows[o]
<1> DEFINE s == rows[o]
<1>1. s \in Seq(Nodes) /\ Len(s) \in Nat /\ Len(s) # 0
  BY RowTypes
<1>2. /\ \A i \in 1..Len(s) : i # Len(s) => next[s[i]].ptr = s[i + 1]
      /\ \A i \in 1..Len(s) : i = Len(s) => next[s[i]].ptr = Null
      /\ \A i, j \in 1..Len(s) : s[i] = s[j] => i = j
  BY DEF Linked, Rows
<1> HIDE DEF s
<1>3. \A i \in 1..Len(s) : IF i = Len(s) THEN i + 1 \notin 1..Len(s) ELSE i + 1 \in 1..Len(s)
  BY <1>1
<1>4. InOrder(s)
  BY <1>1, <1>2, <1>3 DEF InOrder, At
<1>5. At(s, 1) = s[1]
  BY <1>1 DEF At
<1>6. ListFrom(s[1]) = s
  BY <1>4, <1>5, ListInOrder
<1> QED
  BY <1>6 DEF s

\* The queue's row is the list from dequeue on.
LEMMA QueueIsList ==
  ASSUME NEW rows, Shape(rows)
  PROVE  /\ ListFrom(dequeue.ptr) = rows[Queue]
         /\ \A n : InList(n) <=> In(rows, Queue, n)
         /\ Contents = [i \in 1..Len(rows[Queue]) - 1 |-> user_data[rows[Queue][i + 1]]]
<1>1. Queue \in Owners /\ Open(Queue) /\ rows[Queue] # <<>> /\ rows[Queue][1] = dequeue.ptr
  BY QueueIsOwner DEF Open, Shape, Heads
<1>2. Rows(rows) /\ Linked(rows)
  BY DEF Shape
<1>3. ListFrom(dequeue.ptr) = rows[Queue]
  BY <1>1, <1>2, RowIsList
<1>4. DOMAIN rows[Queue] = 1..Len(rows[Queue])
  BY <1>1, <1>2, RowTypes, LenProperties
<1> QED
  BY <1>3, <1>4 DEF InList, In, Contents

-----------------------------------------------------------------------------
(***************************************************************************)
(* What the other threads have read while thread t makes a step: they rely *)
(* on the counters of enqueue and dequeue, on the next field of an element *)
(* of the list, once it has a successor, and on its value.                 *)
(***************************************************************************)
Relies(rows, new, t) ==
  /\ enqueue' = enqueue \/ enqueue'.ctr = enqueue.ctr + 1
  /\ dequeue' = dequeue \/ dequeue'.ctr = dequeue.ctr + 1
  /\ \A n \in Nodes : In(rows, Queue, n) =>
       /\ next[n].ptr # Null => next'[n].ptr = next[n].ptr
       /\ user_data'[n] = user_data[n]
  /\ dequeue' = dequeue /\ enqueue.ptr # dequeue.ptr => enqueue'.ptr # dequeue.ptr
  /\ \A u \in Threads \ {t} : enq[u].ptr # Null /\ nxt[u].ptr = Null /\ Since(rows, u) => Since(new, u)'
  /\ \A u \in Threads \ {t} :
       pc[u] = "enqSwap" /\ enq[u].ctr = 0 /\ nxt[u].ptr = Null /\ ~In(rows, u, Dummy) => ~In(new, u, Dummy)

\* The first and the second element of the list.
LEMMA QueueHead ==
  ASSUME NEW rows, Types, Shape(rows)
  PROVE  /\ In(rows, Queue, dequeue.ptr) /\ dequeue.ptr \in Nodes
         /\ rows[Queue] # <<>> /\ 1 \in 1..Len(rows[Queue]) /\ rows[Queue][1] = dequeue.ptr
         /\ next[dequeue.ptr].ptr # Null =>
              /\ 2 \in 1..Len(rows[Queue]) /\ rows[Queue][2] = next[dequeue.ptr].ptr
              /\ In(rows, Queue, next[dequeue.ptr].ptr) /\ next[dequeue.ptr].ptr \in Nodes
<1>1. Queue \in Owners /\ Open(Queue) /\ rows[Queue] # <<>> /\ rows[Queue][1] = dequeue.ptr
  BY QueueIsOwner DEF Open, Shape, Heads
<1>2. /\ Len(rows[Queue]) \in Nat /\ Len(rows[Queue]) # 0
      /\ \A i \in 1..Len(rows[Queue]) : rows[Queue][i] \in Nodes
  BY <1>1, RowTypes DEF Shape
<1>3. 1 \in 1..Len(rows[Queue]) /\ (Len(rows[Queue]) # 1 => 2 \in 1..Len(rows[Queue]))
  <2>1. \A a \in Nat : a # 0 => 1 \in 1..a /\ (a # 1 => 2 \in 1..a)
    OBVIOUS
  <2> QED
    BY <1>2, <2>1
<1>4. next[dequeue.ptr].ptr # Null => Len(rows[Queue]) # 1 /\ rows[Queue][2] = next[dequeue.ptr].ptr
  <2>1. 1 = Len(rows[Queue]) => next[rows[Queue][1]].ptr = Null
    BY <1>1, <1>3 DEF Shape, Linked
  <2>2. 1 # Len(rows[Queue]) => next[rows[Queue][1]].ptr = rows[Queue][1 + 1]
    BY <1>1, <1>3 DEF Shape, Linked
  <2> QED
    BY <1>1, <2>1, <2>2
<1> QED
  BY <1>1, <1>2, <1>3, <1>4 DEF In

\* A step of that kind takes nothing from what another thread knows.
LEMMA RelyKeeps ==
  ASSUME NEW rows, NEW new, Types, Types', Shape(rows), Times(rows), NEW t \in Threads, Others(t),
         Relies(rows, new, t), NEW u \in Threads \ {t},
         ReadsEnqueue(u), ReadsDequeue(u), Replaces(rows, u)
  PROVE  ReadsEnqueue(u)' /\ ReadsDequeue(u)' /\ Replaces(new, u)'
<1>1. /\ pc'[u] = pc[u] /\ qe'[u] = qe[u] /\ value'[u] = value[u]
      /\ enq'[u] = enq[u] /\ deq'[u] = deq[u] /\ nxt'[u] = nxt[u]
  BY DEF Others
<1>2. /\ enqueue.ctr \in Nat /\ dequeue.ctr \in Nat /\ enqueue.ptr \in Nodes /\ dequeue.ptr \in Nodes
      /\ enq[u].ctr \in Nat /\ deq[u].ctr \in Nat
  BY DEF Types, Pairs
<1>3. /\ enq[u].ctr <= enqueue'.ctr
      /\ enqueue'.ctr = enq[u].ctr => enqueue' = enqueue
      /\ enqueue' = enq[u] => enqueue' = enqueue
  BY <1>2 DEF ReadsEnqueue, Relies
<1>4. /\ deq[u].ctr <= dequeue'.ctr
      /\ dequeue'.ctr = deq[u].ctr => dequeue' = dequeue
      /\ dequeue' = deq[u] => dequeue' = dequeue
  BY <1>2 DEF ReadsDequeue, Relies
<1>5. next[enqueue.ptr].ptr # Null => next'[enqueue.ptr].ptr = next[enqueue.ptr].ptr
  BY <1>2 DEF Times, Relies
<1>6. next[dequeue.ptr].ptr # Null =>
        /\ next'[dequeue.ptr].ptr = next[dequeue.ptr].ptr
        /\ user_data'[next[dequeue.ptr].ptr] = user_data[next[dequeue.ptr].ptr]
  BY <1>2, QueueHead DEF Relies
<1>7. pc[u] = "enqSwing" => qe[u] # Null
  BY DEF Types, Follows
<1>8. ReadsEnqueue(u)'
  <2>1. enq'[u].ctr <= enqueue'.ctr
    BY <1>1, <1>3
  <2>2. pc'[u] = "enqCheckCounter" /\ enqueue'.ctr = enq'[u].ctr => enqueue' = enq'[u]
    BY <1>1, <1>3 DEF ReadsEnqueue
  <2>3. pc'[u] \in {"enqNextCounter", "enqCheckPointer", "enqCheckCounter", "enqSwap"}
          /\ enqueue' = enq'[u] /\ nxt'[u].ptr # Null => next'[enqueue'.ptr].ptr = nxt'[u].ptr
    BY <1>1, <1>3, <1>5 DEF ReadsEnqueue
  <2>4. pc'[u] \in {"deqCheckPointer", "deqCheckCounter", "deqState"} /\ enq'[u].ptr = deq'[u].ptr
          /\ enqueue' = enq'[u] /\ nxt'[u].ptr # Null => next'[enqueue'.ptr].ptr = nxt'[u].ptr
    BY <1>1, <1>3, <1>5 DEF ReadsEnqueue
  <2>5. pc'[u] = "enqSwing" /\ enqueue' = enq'[u] => next'[enqueue'.ptr].ptr = qe'[u]
    BY <1>1, <1>3, <1>5, <1>7 DEF ReadsEnqueue
  <2> QED
    BY <2>1, <2>2, <2>3, <2>4, <2>5 DEF ReadsEnqueue
<1>9. ReadsDequeue(u)'
  <2>1. deq'[u].ctr <= dequeue'.ctr
    BY <1>1, <1>4
  <2>2. pc'[u] = "deqCheckCounter" /\ dequeue'.ctr = deq'[u].ctr => dequeue' = deq'[u]
    BY <1>1, <1>4 DEF ReadsDequeue
  <2>3. pc'[u] \in {"deqEnqCounter", "deqNextPointer", "deqCheckPointer", "deqCheckCounter", "deqState", "deqSwap"}
          /\ dequeue' = deq'[u] /\ enq'[u].ptr # deq'[u].ptr => enqueue'.ptr # dequeue'.ptr
    BY <1>1, <1>4 DEF ReadsDequeue, Relies
  <2>4. pc'[u] \in {"deqCheckPointer", "deqCheckCounter", "deqState", "deqSwap"} /\ dequeue' = deq'[u]
          => /\ nxt'[u].ptr # Null => next'[dequeue'.ptr].ptr = nxt'[u].ptr
             /\ enq'[u].ptr # deq'[u].ptr => nxt'[u].ptr # Null
    BY <1>1, <1>4, <1>6 DEF ReadsDequeue
  <2>5. /\ pc'[u] = "deqState" /\ enq'[u].ptr # deq'[u].ptr => nxt'[u].ptr # Null
        /\ pc'[u] = "deqSwap" => nxt'[u].ptr # Null /\ enq'[u].ptr # deq'[u].ptr
    BY <1>1 DEF ReadsDequeue
  <2>6. pc'[u] = "deqSwap" /\ dequeue' = deq'[u] => value'[u] = user_data'[nxt'[u].ptr]
    <3> SUFFICES ASSUME pc'[u] = "deqSwap", dequeue' = deq'[u] PROVE value[u] = user_data'[nxt[u].ptr]
      BY <1>1
    <3>1. dequeue = deq[u] /\ pc[u] = "deqSwap"
      BY <1>1, <1>4
    <3>2. nxt[u].ptr # Null /\ next[dequeue.ptr].ptr = nxt[u].ptr /\ value[u] = user_data[nxt[u].ptr]
      BY <3>1 DEF ReadsDequeue
    <3> QED
      BY <1>6, <3>2
  <2> QED
    BY <2>1, <2>2, <2>3, <2>4, <2>5, <2>6 DEF ReadsDequeue
<1>10. Replaces(new, u)'
  <2>1. pc[u] \in {"enqCheckPointer", "enqCheckCounter", "enqSwap"} => enq[u].ptr # Null
    BY DEF Types, Follows
  <2>2. pc'[u] \in {"enqCheckPointer", "enqCheckCounter"} /\ nxt'[u].ptr = Null
          /\ enqueue' = enq'[u] /\ enq'[u].ctr # 0 => Since(new, u)'
    BY <1>1, <1>3, <2>1 DEF Replaces, Relies
  <2>3. pc'[u] = "enqSwap" /\ nxt'[u].ptr = Null /\ enq'[u].ctr # 0 => Since(new, u)'
    BY <1>1, <2>1 DEF Replaces, Relies
  <2>4. pc'[u] = "enqSwap" /\ nxt'[u].ptr = Null /\ enq'[u].ctr = 0
          => enq'[u].ptr = Dummy /\ ~In(new, u, Dummy)
    BY <1>1 DEF Replaces, Relies
  <2> QED
    BY <2>2, <2>3, <2>4 DEF Replaces
<1> QED
  BY <1>8, <1>9, <1>10

-----------------------------------------------------------------------------
(***************************************************************************)
(* Each kind of step keeps the counters and what other threads rely on.    *)
(***************************************************************************)
\* The element behind one of the list.
LEMMA NextInList ==
  ASSUME NEW rows, Types, Shape(rows), NEW m, In(rows, Queue, m), next[m].ptr # Null
  PROVE  /\ m \in Nodes /\ next[m].ptr \in Nodes
         /\ In(rows, Queue, next[m].ptr) /\ Carries(rows, next[m].ptr) /\ next[m].ptr # dequeue.ptr
<1>1. Queue \in Owners /\ Open(Queue) /\ Rows(rows) /\ rows[Queue][1] = dequeue.ptr
  BY QueueIsOwner DEF Open, Shape, Heads
<1>2. PICK i \in 1..Len(rows[Queue]) : rows[Queue][i] = m
  BY DEF In
<1>3. Len(rows[Queue]) \in Nat /\ \A j \in 1..Len(rows[Queue]) : rows[Queue][j] \in Nodes
  BY <1>1, RowTypes
<1>4. i # Len(rows[Queue]) /\ next[m].ptr = rows[Queue][i + 1]
  BY <1>1, <1>2 DEF Shape, Linked
<1>5. i + 1 \in 1..Len(rows[Queue]) /\ i + 1 # 1 /\ 1 \in 1..Len(rows[Queue])
  <2>1. \A a \in Nat : \A j \in 1..a : j # a => j + 1 \in 1..a /\ j + 1 # 1 /\ 1 \in 1..a
    OBVIOUS
  <2> QED
    BY <1>2, <1>3, <1>4, <2>1
<1>6. rows[Queue][i + 1] # rows[Queue][1]
  BY <1>1, <1>5 DEF Rows
<1> QED
  BY <1>1, <1>2, <1>3, <1>4, <1>5, <1>6 DEF In, Carries

\* The element a thread prepares carries no value, and is not in the list.
LEMMA FirstOfRow ==
  ASSUME NEW rows, Shape(rows), NEW t \in Threads, Holding(t), ~Ready(t)
  PROVE  /\ In(rows, t, qe[t]) /\ qe[t] \in Nodes
         /\ ~Carries(rows, qe[t]) /\ ~In(rows, Queue, qe[t])
<1>1. /\ t \in Owners /\ Queue \in Owners /\ t # Queue /\ Rows(rows)
      /\ rows[t] # <<>> /\ rows[t][1] = qe[t]
  BY QueueIsOwner DEF Shape, Heads
<1>2. /\ 1 \in 1..Len(rows[t]) /\ qe[t] \in Nodes
  BY <1>1, RowTypes
<1>3. \A o \in Owners : \A i \in 1..Len(rows[o]) : rows[o][i] = qe[t] => o = t /\ i = 1
  BY <1>1, <1>2 DEF Rows
<1>4. ASSUME NEW u \in Threads, Ready(u), qe[u] = qe[t] PROVE FALSE
  <2>1. u # t /\ Holding(u) /\ u \in Owners
    BY <1>4, QueueIsOwner DEF Holding
  <2>2. rows[u] # <<>> /\ rows[u][1] = qe[u]
    BY <2>1 DEF Shape, Heads
  <2>3. 1 \in 1..Len(rows[u])
    BY <1>1, <2>1, <2>2, RowTypes
  <2> QED
    BY <1>3, <1>4, <2>1, <2>2, <2>3
<1> QED
  BY <1>1, <1>2, <1>3, <1>4 DEF In, Carries

\* enqueue stays, or goes to the element behind it.
Swings ==
  \/ UNCHANGED enqueue
  \/ next[enqueue.ptr].ptr # Null /\ enqueue' = Pair(next[enqueue.ptr].ptr, enqueue.ctr + 1)

\* The bounds of the counters, when enqueue moves on.
LEMMA StillTimes ==
  ASSUME NEW rows, Types, Shape(rows), Times(rows), Still, Swings
  PROVE  Times(rows)'
<1>1. /\ UNCHANGED <<next, aba_counter>>
      /\ \A n : Carries(rows, n)' <=> Carries(rows, n)
      /\ \A o \in Owners : Open(o)' <=> Open(o)
      /\ \A n : Bounded(n)' <=> Bounded(n)
  BY StillShape DEF Still, Bounded
<1>2. \A n \in Nodes : Carries(rows, n)' => Bounded(n)'
  BY <1>1 DEF Times
<1>3. next'[Dummy].ptr = Null => \E o \in Owners : Open(o)' /\ In(rows, o, Dummy)
  BY <1>1 DEF Times
<1>4. CASE UNCHANGED enqueue
  BY <1>1, <1>2, <1>3, <1>4 DEF Times, In
<1>5. CASE /\ next[enqueue.ptr].ptr # Null
           /\ enqueue'.ptr = next[enqueue.ptr].ptr /\ enqueue'.ctr = enqueue.ctr + 1
  <2>1. /\ In(rows, Queue, enqueue'.ptr) /\ Carries(rows, enqueue'.ptr) /\ enqueue'.ptr \in Nodes
    BY <1>5, NextInList DEF Times
  <2>2. enqueue'.ctr # 0
    BY <1>5 DEF Types
  <2>3. Bounded(enqueue.ptr)'
    <3>1. PICK m : m = enqueue'.ptr
      OBVIOUS
    <3>2. Bounded(m)'
      BY <1>1, <1>2, <2>1, <3>1
    <3> QED
      BY <3>1, <3>2 DEF Bounded
  <2> QED
    BY <1>2, <1>3, <2>1, <2>2, <2>3 DEF Times, In
<1> QED
  BY <1>4, <1>5 DEF Swings, Pair

\* What the others rely on, when enqueue moves on.
LEMMA StillRelies ==
  ASSUME NEW rows, Types, Shape(rows), Times(rows), Still, Swings, NEW t \in Threads, Others(t)
  PROVE  Relies(rows, rows, t)
<1>1. /\ UNCHANGED <<dequeue, next, user_data, aba_counter>>
      /\ \A u \in Threads : (Preparing(u)' <=> Preparing(u)) /\ (Holding(u) => qe'[u] = qe[u])
      /\ \A u \in Threads : pc'[u] = "initCounter" <=> pc[u] = "initCounter"
  BY DEF Still, Stays
<1>2. \A n : (BeingPrepared(n)' <=> BeingPrepared(n)) /\ (HalfPrepared(n)' <=> HalfPrepared(n))
  <2>1. \A u \in Threads : pc[u] = "initCounter" => Holding(u)
    BY DEF Holding, Preparing
  <2>2. \A u \in Threads : Preparing(u) => Holding(u)
    BY DEF Holding
  <2> QED
    BY <1>1, <2>1, <2>2 DEF BeingPrepared, HalfPrepared
<1>3. ASSUME NEW u \in Threads \ {t}, Since(rows, u) PROVE Since(rows, u)'
  <2>1. PICK n : n = enq[u].ptr
    OBVIOUS
  <2>2. enq'[u] = enq[u] /\ nxt'[u] = nxt[u] /\ n = enq'[u].ptr
    BY <2>1 DEF Others
  <2> QED
    BY <1>1, <1>2, <1>3, <2>1, <2>2 DEF Since, In
<1>4. enqueue' = enqueue \/ enqueue'.ctr = enqueue.ctr + 1
  BY DEF Swings, Pair
<1>5. enqueue.ptr # dequeue.ptr => enqueue'.ptr # dequeue.ptr
  <2>1. next[enqueue.ptr].ptr # Null => next[enqueue.ptr].ptr # dequeue.ptr
    BY NextInList DEF Times
  <2> QED
    BY <2>1 DEF Swings, Pair
<1> QED
  BY <1>1, <1>3, <1>4, <1>5 DEF Relies

\* The bounds of the counters, when an element is taken: a counter read from it before is out of date.
LEMMA TakesTimes ==
  ASSUME NEW rows, Types, Shape(rows), Times(rows), NEW t \in Threads, NEW n, Takes(t, n)
  PROVE  Times([rows EXCEPT ![t] = <<n>>])'
<1> DEFINE new == [rows EXCEPT ![t] = <<n>>]
<1>1. /\ \A q \in Owners, m \in Nodes : In(new, q, m) <=> In(rows, q, m) \/ (q = t /\ m = n)
      /\ \A m : Carries(new, m)' <=> Carries(rows, m)
      /\ \A o \in Owners : Open(o)' /\ o # t <=> Open(o) /\ o # t
      /\ rows[t] = <<>>
  <2>1. \A q \in Owners, m \in Nodes : In(new, q, m) <=> In(rows, q, m) \/ (q = t /\ m = n)
    <3>1. n \in Nodes /\ ~InRows(rows, n) /\ t \in Owners /\ Rows(rows) /\ rows[t] = <<>>
      BY TakesFree, TakesShape, QueueIsOwner DEF Shape
    <3>2. HasNew(rows, t, n, new)
      BY <3>1, NewRow
    <3> QED
      BY <3>2 DEF HasNew
  <2>2. \A m : Carries(new, m)' <=> Carries(rows, m)
    BY TakesShape
  <2>3. \A o \in Owners : Open(o)' /\ o # t <=> Open(o) /\ o # t
    BY TakesShape
  <2>4. rows[t] = <<>>
    BY TakesShape
  <2> QED
    BY <2>1, <2>2, <2>3, <2>4
<1>2. UNCHANGED <<enqueue, next>> /\ aba_counter' = aba_counter + 1
  BY TakesWrites
<1> HIDE DEF new
<1>3. /\ enqueue.ptr \in Nodes /\ Queue \in Owners /\ Dummy \in Nodes
      /\ \A m \in Nodes : next[m].ctr \in Nat
      /\ aba_counter \in Nat
  BY QueueIsOwner, SizesAssumption DEF Types, Dummy, Nodes, Pairs
<1>4. \A m \in Nodes : Bounded(m) => Bounded(m)'
  BY <1>2, <1>3 DEF Bounded
<1>5. \A m \in Nodes : Carries(new, m)' => Bounded(m)'
  BY <1>1, <1>4 DEF Times
<1>6. In(new, Queue, enqueue.ptr)
  BY <1>1, <1>3 DEF Times
<1>7. enqueue'.ctr # 0 => Bounded(enqueue.ptr)'
  <2>1. PICK m : m = enqueue.ptr
    OBVIOUS
  <2>2. enqueue.ctr # 0 => Bounded(m)'
    BY <1>3, <1>4, <2>1 DEF Times
  <2> QED
    BY <1>2, <2>1, <2>2 DEF Bounded
<1>8. next[Dummy].ptr = Null => \E o \in Owners : Open(o)' /\ In(new, o, Dummy)
  <2> SUFFICES ASSUME next[Dummy].ptr = Null PROVE \E o \in Owners : Open(o)' /\ In(new, o, Dummy)
    OBVIOUS
  <2>1. PICK o \in Owners : Open(o) /\ In(rows, o, Dummy)
    BY DEF Times
  <2>2. o # t
    <3>1. Len(rows[t]) = 0
      BY <1>1
    <3> QED
      BY <2>1, <3>1 DEF In
  <2> QED
    BY <1>1, <1>3, <2>1, <2>2
<1> QED
  BY <1>2, <1>5, <1>6, <1>7, <1>8 DEF Times, In, new

\* What the others rely on, when an element is taken.
LEMMA TakesRelies ==
  ASSUME NEW rows, Types, Shape(rows), Times(rows), NEW t \in Threads, NEW n, Takes(t, n)
  PROVE  Relies(rows, [rows EXCEPT ![t] = <<n>>], t)
<1> DEFINE new == [rows EXCEPT ![t] = <<n>>]
<1>1. /\ pc[t] = "idle" /\ pc'[t] = "initPointer" /\ qe'[t] = n
      /\ UNCHANGED <<enqueue, dequeue, next, user_data>> /\ aba_counter' = aba_counter + 1
      /\ Others(t)
  BY TakesWrites
<1>2. \A q \in Owners \ {t} : new[q] = rows[q]
  BY TakesShape
<1> HIDE DEF new
<1>3. t # Queue /\ Queue \in Owners /\ \A u \in Threads : u \in Owners
  BY QueueIsOwner
<1>4. ASSUME NEW u \in Threads \ {t}, enq[u].ptr # Null, Since(rows, u) PROVE Since(new, u)'
  <2>1. PICK m : m = enq[u].ptr
    OBVIOUS
  <2>2. enq'[u] = enq[u] /\ nxt'[u] = nxt[u] /\ m = enq'[u].ptr
    BY <1>1, <2>1 DEF Others
  <2>3. nxt[u].ctr \in Nat /\ aba_counter \in Nat
    BY DEF Types, Pairs
  <2>4. HalfPrepared(m) => HalfPrepared(m)'
    BY <1>1 DEF HalfPrepared, Others
  <2>5. /\ nxt[u].ctr <= next[m].ctr /\ nxt[u].ctr <= aba_counter + 1
        /\ nxt[u] = next[m] => In(rows, Queue, m) \/ HalfPrepared(m)
    BY <1>4, <2>1 DEF Since
  <2>6. In(new, Queue, m) <=> In(rows, Queue, m)
    BY <1>2, <1>3 DEF In
  <2>7. nxt[u].ctr <= aba_counter' /\ nxt[u].ctr <= aba_counter' + 1
    BY <1>1, <2>3, <2>5
  <2> QED
    BY <1>1, <2>2, <2>4, <2>5, <2>6, <2>7 DEF Since, In
<1>5. \A u \in Threads \ {t} : ~In(rows, u, Dummy) => ~In(new, u, Dummy)
  BY <1>2, <1>3 DEF In
<1> QED
  BY <1>1, <1>4, <1>5 DEF Relies, new

\* The bounds of the counters, when the pointer of an element is set to null.
LEMMA InitPointerTimes ==
  ASSUME NEW rows, Types, Shape(rows), Times(rows), NEW t \in Threads, InitPointer(t)
  PROVE  Times(rows)'
<1>1. PICK e : e = qe[t]
  OBVIOUS
<1>2. /\ e \in Nodes /\ pc[t] = "initPointer"
      /\ \A n \in Nodes \ {e} : next'[n] = next[n]
      /\ UNCHANGED <<enqueue, aba_counter>>
  BY <1>1, InitPointerWrites
<1>3. /\ \A m : Carries(rows, m)' <=> Carries(rows, m)
      /\ \A o \in Owners : Open(o)' <=> Open(o) \/ o = t
  BY InitPointerShape
<1>4. In(rows, t, e) /\ ~Carries(rows, e) /\ ~In(rows, Queue, e)
  BY <1>1, <1>2, FirstOfRow DEF Holding, Preparing, Ready
<1>5. \A n \in Nodes \ {e} : Bounded(n)' <=> Bounded(n)
  BY <1>2 DEF Bounded
<1>6. enqueue.ptr \in Nodes \ {e}
  BY <1>4 DEF Types, Times
<1>7. enqueue'.ctr # 0 => Bounded(enqueue.ptr)'
  <2>1. PICK m : m = enqueue.ptr
    OBVIOUS
  <2>2. enqueue.ctr # 0 => Bounded(m)'
    BY <1>5, <1>6, <2>1 DEF Times
  <2> QED
    BY <1>2, <2>1, <2>2 DEF Bounded
<1>8. next'[Dummy].ptr = Null => \E o \in Owners : Open(o)' /\ In(rows, o, Dummy)
  <2>1. CASE Dummy = e
    BY <1>3, <1>4, <2>1, QueueIsOwner
  <2>2. CASE Dummy # e
    <3>1. Dummy \in Nodes
      BY SizesAssumption DEF Dummy, Nodes
    <3> QED
      BY <1>2, <1>3, <2>2, <3>1 DEF Times
  <2> QED
    BY <2>1, <2>2
<1> QED
  BY <1>2, <1>3, <1>4, <1>5, <1>7, <1>8 DEF Times, In

\* What the others rely on then: a thread that sees the null has the counter of the earlier use.
LEMMA InitPointerRelies ==
  ASSUME NEW rows, Types, Shape(rows), Times(rows), NEW t \in Threads, InitPointer(t)
  PROVE  Relies(rows, rows, t)
<1>1. PICK e : e = qe[t]
  OBVIOUS
<1>2. /\ e \in Nodes /\ pc[t] = "initPointer" /\ pc'[t] = "initCounter"
      /\ next'[e].ctr = next[e].ctr
      /\ \A n \in Nodes \ {e} : next'[n] = next[n]
      /\ UNCHANGED <<enqueue, dequeue, user_data, aba_counter, qe>> /\ Others(t)
  BY <1>1, InitPointerWrites
<1>3. ~In(rows, Queue, e)
  BY <1>1, <1>2, FirstOfRow DEF Holding, Preparing, Ready
<1>4. ASSUME NEW u \in Threads \ {t}, enq[u].ptr # Null, Since(rows, u) PROVE Since(rows, u)'
  <2>1. PICK m : m = enq[u].ptr
    OBVIOUS
  <2>2. enq'[u] = enq[u] /\ nxt'[u] = nxt[u] /\ m = enq'[u].ptr /\ m \in Nodes
    BY <1>2, <1>4, <2>1 DEF Others, Types, Pairs
  <2>3. \A v \in Threads : Preparing(v)' <=> Preparing(v)
    BY <1>2 DEF Others, Preparing
  <2>4. BeingPrepared(m)' <=> BeingPrepared(m)
    BY <1>2, <2>3 DEF BeingPrepared
  <2>5. (HalfPrepared(m) \/ m = e) => HalfPrepared(m)'
    BY <1>1, <1>2 DEF HalfPrepared, Others
  <2>6. /\ nxt[u].ctr <= next[m].ctr /\ nxt[u].ctr <= aba_counter + 1
        /\ BeingPrepared(m) => nxt[u].ctr <= aba_counter
        /\ nxt[u] = next[m] => In(rows, Queue, m) \/ HalfPrepared(m)
    BY <1>4, <2>1 DEF Since
  <2>7. next'[m].ctr = next[m].ctr /\ (m # e => next'[m] = next[m])
    BY <1>2, <2>2
  <2> QED
    BY <1>2, <2>2, <2>4, <2>5, <2>6, <2>7 DEF Since, In
<1> QED
  BY <1>2, <1>3, <1>4 DEF Relies

\* The bounds of the counters, when the counter of an element is written.
LEMMA InitCounterTimes ==
  ASSUME NEW rows, Types, Shape(rows), Times(rows), NEW t \in Threads, InitCounter(t)
  PROVE  Times(rows)'
<1>1. PICK e : e = qe[t]
  OBVIOUS
<1>2. /\ e \in Nodes /\ pc[t] = "initCounter"
      /\ next'[e].ptr = next[e].ptr /\ next'[e].ctr = aba_counter + 1
      /\ \A n \in Nodes \ {e} : next'[n] = next[n]
      /\ UNCHANGED enqueue /\ aba_counter' = aba_counter + 1
  BY <1>1, InitCounterWrites
<1>3. /\ \A m : Carries(rows, m)' <=> Carries(rows, m) \/ m = e
      /\ \A o \in Owners : Open(o)' <=> Open(o)
  BY <1>1, InitCounterShape
<1>4. ~In(rows, Queue, e)
  BY <1>1, <1>2, FirstOfRow DEF Holding, Preparing, Ready
<1>5. aba_counter \in Nat /\ \A n \in Nodes : next[n].ctr \in Nat
  BY DEF Types, Pairs
<1>6. \A n \in Nodes \ {e} : Bounded(n) => Bounded(n)'
  BY <1>2, <1>5 DEF Bounded
<1>7. Bounded(e)'
  BY <1>2, <1>5 DEF Bounded
<1>8. enqueue'.ctr # 0 => Bounded(enqueue.ptr)'
  <2>1. PICK m : m = enqueue.ptr
    OBVIOUS
  <2>2. m \in Nodes \ {e}
    BY <1>4, <2>1 DEF Types, Times
  <2>3. enqueue.ctr # 0 => Bounded(m)'
    BY <1>6, <2>1, <2>2 DEF Times
  <2> QED
    BY <1>2, <2>1, <2>3 DEF Bounded
<1>9. next'[Dummy].ptr = Null => \E o \in Owners : Open(o)' /\ In(rows, o, Dummy)
  <2>1. Dummy \in Nodes
    BY SizesAssumption DEF Dummy, Nodes
  <2> QED
    BY <1>2, <1>3, <2>1 DEF Times
<1>10. \A n \in Nodes : Carries(rows, n)' => Bounded(n)'
  BY <1>3, <1>6, <1>7 DEF Times
<1> QED
  BY <1>2, <1>8, <1>9, <1>10 DEF Times, In

\* What the others rely on then: the counter is one that no thread has read.
LEMMA InitCounterRelies ==
  ASSUME NEW rows, Types, Shape(rows), Times(rows), NEW t \in Threads, InitCounter(t)
  PROVE  Relies(rows, rows, t)
<1>1. PICK e : e = qe[t]
  OBVIOUS
<1>2. /\ e \in Nodes /\ pc[t] = "initCounter" /\ pc'[t] = "enqReadPointer"
      /\ next'[e].ctr = aba_counter + 1 /\ aba_counter' = aba_counter + 1
      /\ \A n \in Nodes \ {e} : next'[n] = next[n] /\ user_data'[n] = user_data[n]
      /\ UNCHANGED <<enqueue, dequeue, qe>> /\ Others(t)
  BY <1>1, InitCounterWrites
<1>3. ~In(rows, Queue, e)
  BY <1>1, <1>2, FirstOfRow DEF Holding, Preparing, Ready
<1>4. ASSUME NEW u \in Threads \ {t}, enq[u].ptr # Null, Since(rows, u) PROVE Since(rows, u)'
  <2>1. PICK m : m = enq[u].ptr
    OBVIOUS
  <2>2. enq'[u] = enq[u] /\ nxt'[u] = nxt[u] /\ m = enq'[u].ptr /\ m \in Nodes
    BY <1>2, <1>4, <2>1 DEF Others, Types, Pairs
  <2>3. m # e /\ HalfPrepared(m) => HalfPrepared(m)'
    BY <1>1, <1>2 DEF HalfPrepared, Others
  <2>4. /\ nxt[u].ctr <= next[m].ctr /\ nxt[u].ctr <= aba_counter + 1
        /\ BeingPrepared(m) => nxt[u].ctr <= aba_counter
        /\ nxt[u] = next[m] => In(rows, Queue, m) \/ HalfPrepared(m)
    BY <1>4, <2>1 DEF Since
  <2>5. nxt[u].ctr \in Nat /\ aba_counter \in Nat
    BY DEF Types, Pairs
  <2>6. nxt[u].ctr <= aba_counter' /\ nxt[u].ctr <= aba_counter' + 1
    BY <1>2, <2>4, <2>5
  <2>7. nxt[u].ctr <= next'[m].ctr /\ (nxt[u] = next'[m] => In(rows, Queue, m) \/ HalfPrepared(m)')
    <3>1. CASE m = e
      <4>1. BeingPrepared(m)
        BY <1>1, <1>2, <3>1 DEF BeingPrepared, Preparing
      <4>2. nxt[u].ctr <= aba_counter
        BY <2>4, <4>1
      <4>3. nxt[u].ctr < next'[m].ctr
        BY <1>2, <2>5, <3>1, <4>2
      <4>4. nxt[u].ctr # next'[m].ctr /\ nxt[u].ctr <= next'[m].ctr
        BY <1>2, <2>5, <3>1, <4>3
      <4> QED
        BY <4>4
    <3>2. CASE m # e
      BY <1>2, <2>2, <2>3, <2>4, <3>2
    <3> QED
      BY <3>1, <3>2
  <2> QED
    BY <2>2, <2>6, <2>7 DEF Since, In
<1> QED
  BY <1>2, <1>3, <1>4 DEF Relies

\* Where the swap of a null pointer links the element: in the queue; to an element whose
\* counter is not prepared; or to the dummy of an enqueue that nobody has moved.
LinksTo(rows, t, o) ==
  /\ o \in Owners \ {t} /\ Open(o) /\ In(rows, o, enq[t].ptr)
  /\ \/ o = Queue
     \/ o \in Threads /\ pc[o] = "initCounter"
     \/ enq[t].ptr = Dummy /\ ~In(rows, t, Dummy)

\* What the link of a thread goes to, if it succeeds.
LEMMA LinkTarget ==
  ASSUME NEW rows, Types, Shape(rows), Times(rows), NEW t \in Threads, Links(t), Replaces(rows, t)
  PROVE  \E o : LinksTo(rows, t, o)
<1>1. /\ pc[t] = "enqSwap" /\ nxt[t].ptr = Null /\ next[enq[t].ptr] = nxt[t]
  BY LinksWrites
<1>2. t \in Owners /\ Queue \in Owners \ {t} /\ Open(Queue) /\ \A u \in Threads : u \in Owners /\ u # Queue
  BY QueueIsOwner DEF Open
<1>3. CASE enq[t].ctr # 0
  <2>1. In(rows, Queue, enq[t].ptr) \/ HalfPrepared(enq[t].ptr)
    BY <1>1, <1>3 DEF Replaces, Since
  <2>2. ASSUME In(rows, Queue, enq[t].ptr) PROVE LinksTo(rows, t, Queue)
    BY <1>2, <2>2 DEF LinksTo
  <2>3. ASSUME NEW u \in Threads, pc[u] = "initCounter", qe[u] = enq[t].ptr PROVE LinksTo(rows, t, u)
    <3>1. In(rows, u, enq[t].ptr)
      BY <2>3, FirstOfRow DEF Holding, Preparing, Ready
    <3>2. u # t /\ Open(u)
      BY <1>1, <2>3 DEF Open, Alone
    <3> QED
      BY <1>2, <2>3, <3>1, <3>2 DEF LinksTo
  <2> QED
    BY <2>1, <2>2, <2>3 DEF HalfPrepared
<1>4. CASE enq[t].ctr = 0
  <2>1. enq[t].ptr = Dummy /\ ~In(rows, t, Dummy)
    BY <1>1, <1>4 DEF Replaces
  <2>2. PICK o \in Owners : Open(o) /\ In(rows, o, Dummy)
    BY <1>1, <2>1 DEF Times
  <2> QED
    BY <2>1, <2>2 DEF LinksTo
<1> QED
  BY <1>3, <1>4

\* The bounds of the counters, after a link.
LEMMA LinksTimes ==
  ASSUME NEW rows, Types, Shape(rows), Times(rows), NEW t \in Threads, Links(t), NEW o, LinksTo(rows, t, o)
  PROVE  Times(Join(rows, o, t))'
<1> DEFINE all == Join(rows, o, t)
<1>1. PICK m : m = enq[t].ptr
  OBVIOUS
<1>2. /\ m \in Nodes /\ next[m].ptr = Null /\ next'[m].ptr = qe[t] /\ next'[m].ctr = next[m].ctr + 1
      /\ \A n \in Nodes \ {m} : next'[n] = next[n]
      /\ pc[t] = "enqSwap" /\ UNCHANGED <<enqueue, aba_counter>>
  BY <1>1, LinksWrites
<1>3. o \in Owners /\ o # t /\ Open(o) /\ In(rows, o, enq[t].ptr) /\ t \in Owners /\ Queue \in Owners /\ t # Queue
  BY QueueIsOwner DEF LinksTo
<1>4. /\ \A n : Carries(all, n)' <=> Carries(rows, n)
      /\ \A q \in Owners : Open(q)' <=> Open(q)
  BY <1>3, LinksShape
<1>5. \A q \in Owners, n \in Nodes :
        In(all, q, n) <=> q # t /\ (In(rows, q, n) \/ (q = o /\ In(rows, t, n)))
  BY <1>3, JoinKeepsRows DEF Shape
<1> HIDE DEF all
<1>6. /\ qe[t] # Null /\ aba_counter \in Nat /\ \A n \in Nodes : next[n].ctr \in Nat
      /\ enqueue.ptr \in Nodes /\ Dummy \in Nodes
  <2>1. Ready(t) /\ Follows(t)
    BY <1>2 DEF Types, Ready
  <2>2. qe[t] # Null
    BY <2>1 DEF Follows, Holding
  <2> QED
    BY <2>2, SizesAssumption DEF Types, Pairs, Dummy, Nodes
<1>7. \A n \in Nodes : Bounded(n) => Bounded(n)'
  BY <1>2, <1>6 DEF Bounded
<1>8. \A n \in Nodes : Carries(all, n)' => Bounded(n)'
  BY <1>4, <1>7 DEF Times
<1>9. In(all, Queue, enqueue.ptr)
  BY <1>3, <1>5, <1>6 DEF Times
<1>10. enqueue'.ctr # 0 => Bounded(enqueue.ptr)'
  <2>1. PICK n : n = enqueue.ptr
    OBVIOUS
  <2>2. enqueue.ctr # 0 => Bounded(n)'
    BY <1>6, <1>7, <2>1 DEF Times
  <2> QED
    BY <1>2, <2>1, <2>2 DEF Bounded
<1>11. next'[Dummy].ptr = Null => \E q \in Owners : Open(q)' /\ In(all, q, Dummy)
  <2> SUFFICES ASSUME next'[Dummy].ptr = Null PROVE \E q \in Owners : Open(q)' /\ In(all, q, Dummy)
    OBVIOUS
  <2>1. next[Dummy].ptr = Null
    BY <1>2, <1>6
  <2>2. PICK q \in Owners : Open(q) /\ In(rows, q, Dummy)
    BY <2>1 DEF Times
  <2> QED
    BY <1>3, <1>4, <1>5, <1>6, <2>2
<1> QED
  BY <1>2, <1>8, <1>9, <1>10, <1>11 DEF Times, In, all

\* What the others rely on, when a link succeeds: the null they may have seen is gone.
LEMMA LinksRelies ==
  ASSUME NEW rows, Types, Shape(rows), Times(rows), NEW t \in Threads, Links(t), NEW o, LinksTo(rows, t, o)
  PROVE  Relies(rows, Join(rows, o, t), t)
<1> DEFINE all == Join(rows, o, t)
<1>1. PICK m : m = enq[t].ptr
  OBVIOUS
<1>2. /\ m \in Nodes /\ next[m].ptr = Null /\ next'[m].ctr = next[m].ctr + 1
      /\ \A n \in Nodes \ {m} : next'[n] = next[n]
      /\ pc[t] = "enqSwap" /\ pc'[t] = "enqSwing"
      /\ UNCHANGED <<enqueue, dequeue, user_data, aba_counter, local>> /\ Others(t)
  BY <1>1, LinksWrites
<1>3. o \in Owners /\ o # t /\ t \in Owners /\ Queue \in Owners /\ t # Queue /\ Rows(rows)
  BY QueueIsOwner DEF LinksTo, Shape
<1>4. \A q \in Owners, n \in Nodes :
        In(all, q, n) <=> q # t /\ (In(rows, q, n) \/ (q = o /\ In(rows, t, n)))
  BY <1>3, JoinKeepsRows
<1> HIDE DEF all
<1>5. ASSUME NEW u \in Threads \ {t}, enq[u].ptr # Null, Since(rows, u) PROVE Since(all, u)'
  <2>1. PICK n : n = enq[u].ptr
    OBVIOUS
  <2>2. enq'[u] = enq[u] /\ nxt'[u] = nxt[u] /\ n = enq'[u].ptr /\ n \in Nodes
    BY <1>2, <1>5, <2>1 DEF Others, Types, Pairs
  <2>3. BeingPrepared(n)' <=> BeingPrepared(n)
    <3>1. \A v \in Threads : qe'[v] = qe[v] /\ (Preparing(v)' <=> Preparing(v))
      BY <1>2 DEF Others, Preparing, local
    <3> QED
      BY <3>1 DEF BeingPrepared
  <2>4. HalfPrepared(n) => HalfPrepared(n)'
    BY <1>2 DEF HalfPrepared, Others
  <2>5. /\ nxt[u].ctr <= next[n].ctr /\ nxt[u].ctr <= aba_counter + 1
        /\ BeingPrepared(n) => nxt[u].ctr <= aba_counter
        /\ nxt[u] = next[n] => In(rows, Queue, n) \/ HalfPrepared(n)
    BY <1>5, <2>1 DEF Since
  <2>6. In(rows, Queue, n) => In(all, Queue, n)
    BY <1>3, <1>4, <2>2
  <2>7. nxt[u].ctr <= next'[n].ctr /\ (nxt[u] = next'[n] => nxt[u] = next[n])
    <3>1. CASE n = m
      <4>1. nxt[u].ctr \in Nat /\ next[m].ctr \in Nat
        BY <1>2 DEF Types, Pairs
      <4>2. nxt[u].ctr <= next'[m].ctr /\ nxt[u].ctr # next'[m].ctr
        BY <1>2, <2>5, <3>1, <4>1
      <4> QED
        BY <3>1, <4>2
    <3>2. CASE n # m
      BY <1>2, <2>2, <2>5, <3>2
    <3> QED
      BY <3>1, <3>2
  <2> QED
    BY <1>2, <2>2, <2>3, <2>4, <2>5, <2>6, <2>7 DEF Since, In
<1>6. ASSUME NEW u \in Threads \ {t}, pc[u] = "enqSwap", ~In(rows, u, Dummy) PROVE ~In(all, u, Dummy)
  <2>1. u \in Owners /\ u # Queue /\ Dummy \in Nodes
    BY QueueIsOwner, SizesAssumption DEF Dummy, Nodes
  <2>2. u = o => ~In(rows, t, Dummy)
    BY <1>6, <2>1 DEF LinksTo
  <2> QED
    BY <1>4, <1>6, <2>1, <2>2
<1> QED
  BY <1>2, <1>5, <1>6 DEF Relies, all

\* The bounds of the counters, when an element leaves the list: enqueue does not point to it.
LEMMA AdvanceTimes ==
  ASSUME NEW rows, Types, Shape(rows), Times(rows), NEW t \in Threads, Advance(t), ReadsDequeue(t),
         NEW e, e = dequeue.ptr
  PROVE  Times(Passed(rows, t, e))'
<1> DEFINE new == Passed(rows, t, e)
<1>1. /\ pc[t] = "deqSwap" /\ dequeue = deq[t] /\ e \in Nodes
      /\ UNCHANGED <<enqueue, next, aba_counter>>
  BY AdvanceWrites
<1>2. /\ \A q \in Owners, m \in Nodes :
           In(new, q, m) <=> IF q = t THEN m = e ELSE In(rows, q, m) /\ ~(q = Queue /\ m = e)
      /\ \A m : Carries(new, m)' <=> Carries(rows, m) /\ m # nxt[t].ptr
      /\ \A o \in Owners : Open(o)' /\ o # t <=> Open(o) /\ o # t
      /\ rows[t] = <<>> /\ next[e].ptr # Null
  BY AdvanceShape
<1> HIDE DEF new
<1>3. /\ enqueue.ptr \in Nodes /\ Dummy \in Nodes /\ Queue \in Owners /\ t # Queue /\ t \in Owners
  BY QueueIsOwner, SizesAssumption DEF Types, Dummy, Nodes
<1>4. enqueue.ptr # e
  BY <1>1 DEF ReadsDequeue
<1>5. \A n : Bounded(n)' <=> Bounded(n)
  BY <1>1 DEF Bounded
<1>6. \A n \in Nodes : Carries(new, n)' => Bounded(n)'
  BY <1>2, <1>5 DEF Times
<1>7. In(new, Queue, enqueue.ptr)
  BY <1>2, <1>3, <1>4 DEF Times
<1>8. enqueue'.ctr # 0 => Bounded(enqueue.ptr)'
  BY <1>1 DEF Times, Bounded
<1>9. next[Dummy].ptr = Null => \E o \in Owners : Open(o)' /\ In(new, o, Dummy)
  <2> SUFFICES ASSUME next[Dummy].ptr = Null PROVE \E o \in Owners : Open(o)' /\ In(new, o, Dummy)
    OBVIOUS
  <2>1. PICK o \in Owners : Open(o) /\ In(rows, o, Dummy)
    BY DEF Times
  <2>2. o # t /\ Dummy # e
    <3>1. Len(rows[t]) = 0
      BY <1>2
    <3> QED
      BY <1>2, <2>1, <3>1 DEF In
  <2> QED
    BY <1>2, <1>3, <2>1, <2>2
<1> QED
  BY <1>1, <1>6, <1>7, <1>8, <1>9 DEF Times, In, new

\* What the others rely on, when an element leaves the list.
LEMMA AdvanceRelies ==
  ASSUME NEW rows, Types, Shape(rows), Times(rows), NEW t \in Threads, Advance(t), ReadsDequeue(t),
         NEW e, e = dequeue.ptr
  PROVE  Relies(rows, Passed(rows, t, e), t)
<1> DEFINE new == Passed(rows, t, e)
<1>1. /\ pc[t] = "deqSwap" /\ pc'[t] = "deqFree" /\ e \in Nodes /\ dequeue'.ctr = dequeue.ctr + 1
      /\ UNCHANGED <<enqueue, next, user_data, aba_counter>> /\ Others(t)
  BY AdvanceWrites
<1>2. /\ \A q \in Owners, m \in Nodes :
           In(new, q, m) <=> IF q = t THEN m = e ELSE In(rows, q, m) /\ ~(q = Queue /\ m = e)
      /\ next[e].ptr # Null
  BY AdvanceShape
<1> HIDE DEF new
<1>3. Dummy \in Nodes /\ Queue \in Owners /\ t # Queue /\ \A u \in Threads : u \in Owners /\ u # Queue
  BY QueueIsOwner, SizesAssumption DEF Dummy, Nodes
<1>4. ASSUME NEW u \in Threads \ {t}, enq[u].ptr # Null, nxt[u].ptr = Null, Since(rows, u) PROVE Since(new, u)'
  <2>1. PICK n : n = enq[u].ptr
    OBVIOUS
  <2>2. enq'[u] = enq[u] /\ nxt'[u] = nxt[u] /\ n = enq'[u].ptr /\ n \in Nodes
    BY <1>1, <1>4, <2>1 DEF Others, Types, Pairs
  <2>3. BeingPrepared(n)' => BeingPrepared(n)
    <3>1. ASSUME NEW v \in Threads, Preparing(v)' PROVE qe'[v] = qe[v] /\ Preparing(v)
      BY <1>1, <3>1 DEF Others, Preparing
    <3> QED
      BY <3>1 DEF BeingPrepared
  <2>4. HalfPrepared(n) => HalfPrepared(n)'
    BY <1>1 DEF HalfPrepared, Others
  <2>5. nxt[u] = next[n] => n # e
    BY <1>2, <1>4
  <2>6. In(rows, Queue, n) /\ n # e => In(new, Queue, n)
    BY <1>2, <1>3, <2>2
  <2> QED
    BY <1>1, <1>4, <2>1, <2>2, <2>3, <2>4, <2>5, <2>6 DEF Since, In
<1>5. \A u \in Threads \ {t} : ~In(rows, u, Dummy) => ~In(new, u, Dummy)
  BY <1>2, <1>3
<1> QED
  BY <1>1, <1>4, <1>5 DEF Relies, new

\* The bounds of the counters, when an element is given back.
LEMMA ReturnTimes ==
  ASSUME NEW rows, Types, Shape(rows), Times(rows), NEW t \in Threads, DequeueReturn(t)
  PROVE  Times([rows EXCEPT ![t] = <<>>])'
<1> DEFINE new == [rows EXCEPT ![t] = <<>>]
<1>1. UNCHANGED <<enqueue, next, aba_counter>>
  BY ReturnWrites
<1>2. /\ \A q \in Owners, m \in Nodes : In(new, q, m) <=> In(rows, q, m) /\ q # t
      /\ \A m : Carries(new, m)' <=> Carries(rows, m)
      /\ \A o \in Owners : Open(o) => Open(o)' /\ o # t
  BY ReturnShape
<1> HIDE DEF new
<1>3. /\ enqueue.ptr \in Nodes /\ Dummy \in Nodes /\ Queue \in Owners /\ t # Queue
  BY QueueIsOwner, SizesAssumption DEF Types, Dummy, Nodes
<1>4. \A n : Bounded(n)' <=> Bounded(n)
  BY <1>1 DEF Bounded
<1>5. \A n \in Nodes : Carries(new, n)' => Bounded(n)'
  BY <1>2, <1>4 DEF Times
<1>6. In(new, Queue, enqueue.ptr)
  BY <1>2, <1>3 DEF Times
<1>7. enqueue'.ctr # 0 => Bounded(enqueue.ptr)'
  BY <1>1 DEF Times, Bounded
<1>8. next[Dummy].ptr = Null => \E o \in Owners : Open(o)' /\ In(new, o, Dummy)
  BY <1>2, <1>3 DEF Times
<1> QED
  BY <1>1, <1>5, <1>6, <1>7, <1>8 DEF Times, In, new

\* What the others rely on, when an element is given back.
LEMMA ReturnRelies ==
  ASSUME NEW rows, Types, Shape(rows), Times(rows), NEW t \in Threads, DequeueReturn(t)
  PROVE  Relies(rows, [rows EXCEPT ![t] = <<>>], t)
<1> DEFINE new == [rows EXCEPT ![t] = <<>>]
<1>1. /\ pc[t] = "deqFree" /\ pc'[t] = "idle"
      /\ UNCHANGED <<enqueue, dequeue, next, user_data, aba_counter>> /\ Others(t)
  BY ReturnWrites
<1>2. \A q \in Owners \ {t} : new[q] = rows[q]
  BY ReturnShape
<1> HIDE DEF new
<1>3. t # Queue /\ Queue \in Owners /\ \A u \in Threads : u \in Owners
  BY QueueIsOwner
<1>4. ASSUME NEW u \in Threads \ {t}, Since(rows, u) PROVE Since(new, u)'
  <2>1. PICK n : n = enq[u].ptr
    OBVIOUS
  <2>2. enq'[u] = enq[u] /\ nxt'[u] = nxt[u] /\ n = enq'[u].ptr
    BY <1>1, <2>1 DEF Others
  <2>3. BeingPrepared(n)' => BeingPrepared(n)
    <3>1. ASSUME NEW v \in Threads, Preparing(v)' PROVE qe'[v] = qe[v] /\ Preparing(v)
      BY <1>1, <3>1 DEF Others, Preparing
    <3> QED
      BY <3>1 DEF BeingPrepared
  <2>4. HalfPrepared(n) => HalfPrepared(n)'
    BY <1>1 DEF HalfPrepared, Others
  <2>5. In(rows, Queue, n) => In(new, Queue, n)
    BY <1>2, <1>3 DEF In
  <2> QED
    BY <1>1, <1>4, <2>1, <2>2, <2>3, <2>4, <2>5 DEF Since, In
<1>5. \A u \in Threads \ {t} : ~In(rows, u, Dummy) => ~In(new, u, Dummy)
  BY <1>2, <1>3 DEF In
<1> QED
  BY <1>1, <1>4, <1>5 DEF Relies, new

-----------------------------------------------------------------------------
(***************************************************************************)
(* What a thread does to its own variables.                                *)
(***************************************************************************)
\* Reads of enqueue and of next.
LEMMA ReadEnqueuePointer ==
  ASSUME Types, NEW t \in Threads, NEW at, NEW to \in States, ReadEnqueue(t, at, to, "ptr")
  PROVE  /\ pc[t] = at /\ pc'[t] = to /\ pc' \in [Threads -> States]
         /\ enq' \in [Threads -> Pairs] /\ enq'[t].ptr = enqueue.ptr /\ enq'[t].ctr = enq[t].ctr
         /\ UNCHANGED <<qe, value, deq, nxt>>
<1>1. enq \in [Threads -> Pairs] /\ pc \in [Threads -> States]
  BY DEF Types
<1>2. PICK p : p = enqueue.ptr
  OBVIOUS
<1>3. p \in Nodes \union {Null}
  BY <1>1, <1>2 DEF Types, Pairs
<1>4. PICK f, g : f = enq /\ g = enq'
  OBVIOUS
<1>5. f \in [Threads -> Pairs] /\ g = [f EXCEPT ![t]["ptr"] = p]
  BY <1>1, <1>2, <1>4 DEF ReadEnqueue
<1>6. g \in [Threads -> Pairs] /\ g[t].ptr = p /\ g[t].ctr = f[t].ctr
  BY <1>3, <1>5 DEF Pairs
<1> QED
  BY <1>1, <1>2, <1>4, <1>6 DEF ReadEnqueue, Read, Goto

\* A read of the counter of enqueue.
LEMMA ReadEnqueueCounter ==
  ASSUME Types, NEW t \in Threads, NEW at, NEW to \in States, ReadEnqueue(t, at, to, "ctr")
  PROVE  /\ pc[t] = at /\ pc'[t] = to /\ pc' \in [Threads -> States]
         /\ enq' \in [Threads -> Pairs] /\ enq'[t].ctr = enqueue.ctr /\ enq'[t].ptr = enq[t].ptr
         /\ UNCHANGED <<qe, value, deq, nxt>>
<1>1. enq \in [Threads -> Pairs] /\ pc \in [Threads -> States]
  BY DEF Types
<1>2. PICK p : p = enqueue.ctr
  OBVIOUS
<1>3. p \in Nat
  BY <1>1, <1>2 DEF Types, Pairs
<1>4. PICK f, g : f = enq /\ g = enq'
  OBVIOUS
<1>5. f \in [Threads -> Pairs] /\ g = [f EXCEPT ![t]["ctr"] = p]
  BY <1>1, <1>2, <1>4 DEF ReadEnqueue
<1>6. g \in [Threads -> Pairs] /\ g[t].ctr = p /\ g[t].ptr = f[t].ptr
  BY <1>3, <1>5 DEF Pairs
<1> QED
  BY <1>1, <1>2, <1>4, <1>6 DEF ReadEnqueue, Read, Goto

\* A read of the pointer of a next field.
LEMMA ReadNextPointer ==
  ASSUME Types, NEW t \in Threads, NEW at, NEW to \in States, NEW e \in Nodes,
         ReadNext(t, at, to, e, "ptr")
  PROVE  /\ pc[t] = at /\ pc'[t] = to /\ pc' \in [Threads -> States]
         /\ nxt' \in [Threads -> Pairs] /\ nxt'[t].ptr = next[e].ptr /\ nxt'[t].ctr = nxt[t].ctr
         /\ UNCHANGED <<qe, value, enq, deq>>
<1>1. nxt \in [Threads -> Pairs] /\ pc \in [Threads -> States] /\ next[e] \in Pairs
  BY DEF Types
<1>2. PICK p : p = next[e].ptr
  OBVIOUS
<1>3. p \in Nodes \union {Null}
  BY <1>1, <1>2 DEF Types, Pairs
<1>4. PICK f, g : f = nxt /\ g = nxt'
  OBVIOUS
<1>5. f \in [Threads -> Pairs] /\ g = [f EXCEPT ![t]["ptr"] = p]
  BY <1>1, <1>2, <1>4 DEF ReadNext
<1>6. g \in [Threads -> Pairs] /\ g[t].ptr = p /\ g[t].ctr = f[t].ctr
  BY <1>3, <1>5 DEF Pairs
<1> QED
  BY <1>1, <1>2, <1>4, <1>6 DEF ReadNext, Read, Goto

\* A read of the counter of a next field.
LEMMA ReadNextCounter ==
  ASSUME Types, NEW t \in Threads, NEW at, NEW to \in States, NEW e \in Nodes,
         ReadNext(t, at, to, e, "ctr")
  PROVE  /\ pc[t] = at /\ pc'[t] = to /\ pc' \in [Threads -> States]
         /\ nxt' \in [Threads -> Pairs] /\ nxt'[t].ctr = next[e].ctr /\ nxt'[t].ptr = nxt[t].ptr
         /\ UNCHANGED <<qe, value, enq, deq>>
<1>1. nxt \in [Threads -> Pairs] /\ pc \in [Threads -> States] /\ next[e] \in Pairs
  BY DEF Types
<1>2. PICK p : p = next[e].ctr
  OBVIOUS
<1>3. p \in Nat
  BY <1>1, <1>2 DEF Types, Pairs
<1>4. PICK f, g : f = nxt /\ g = nxt'
  OBVIOUS
<1>5. f \in [Threads -> Pairs] /\ g = [f EXCEPT ![t]["ctr"] = p]
  BY <1>1, <1>2, <1>4 DEF ReadNext
<1>6. g \in [Threads -> Pairs] /\ g[t].ctr = p /\ g[t].ptr = f[t].ptr
  BY <1>3, <1>5 DEF Pairs
<1> QED
  BY <1>1, <1>2, <1>4, <1>6 DEF ReadNext, Read, Goto

\* dequeue is read word by word as well.
LEMMA ReadDequeuePointer ==
  ASSUME Types, NEW t \in Threads, deq' = [deq EXCEPT ![t].ptr = dequeue.ptr]
  PROVE  deq' \in [Threads -> Pairs] /\ deq'[t].ptr = dequeue.ptr /\ deq'[t].ctr = deq[t].ctr
<1>1. PICK p : p = dequeue.ptr
  OBVIOUS
<1>2. p \in Nodes \union {Null}
  BY <1>1 DEF Types
<1>3. PICK f, g : f = deq /\ g = deq'
  OBVIOUS
<1>4. f \in [Threads -> Pairs] /\ g = [f EXCEPT ![t]["ptr"] = p]
  BY <1>1, <1>3 DEF Types
<1>5. g \in [Threads -> Pairs] /\ g[t].ptr = p /\ g[t].ctr = f[t].ctr
  BY <1>2, <1>4 DEF Pairs
<1> QED
  BY <1>1, <1>3, <1>5

\* A read of the counter of dequeue.
LEMMA ReadDequeueCounter ==
  ASSUME Types, NEW t \in Threads, deq' = [deq EXCEPT ![t].ctr = dequeue.ctr]
  PROVE  deq' \in [Threads -> Pairs] /\ deq'[t].ctr = dequeue.ctr /\ deq'[t].ptr = deq[t].ptr
<1>1. PICK p : p = dequeue.ctr
  OBVIOUS
<1>2. p \in Nat
  BY <1>1 DEF Types
<1>3. PICK f, g : f = deq /\ g = deq'
  OBVIOUS
<1>4. f \in [Threads -> Pairs] /\ g = [f EXCEPT ![t]["ctr"] = p]
  BY <1>1, <1>3 DEF Types
<1>5. g \in [Threads -> Pairs] /\ g[t].ctr = p /\ g[t].ptr = f[t].ptr
  BY <1>2, <1>4 DEF Pairs
<1> QED
  BY <1>1, <1>3, <1>5

\* Return() and Again() forget what was read.
LEMMA ForgetWrites ==
  ASSUME Types, NEW t \in Threads
  PROVE  /\ Return(t) => /\ pc'[t] = "idle" /\ pc' \in [Threads -> States]
                         /\ enq'[t].ctr = 0 /\ deq'[t].ctr = 0
                         /\ qe' \in [Threads -> Nodes \union {Null}]
                         /\ value' \in [Threads -> Values \union {NoValue}]
                         /\ enq' \in [Threads -> Pairs] /\ deq' \in [Threads -> Pairs] /\ nxt' \in [Threads -> Pairs]
         /\ \A to \in States :
              Again(t, to) => /\ pc'[t] = to /\ pc' \in [Threads -> States]
                              /\ enq'[t].ctr = 0 /\ deq'[t].ctr = 0
                              /\ UNCHANGED <<qe, value>>
                              /\ enq' \in [Threads -> Pairs] /\ deq' \in [Threads -> Pairs]
                              /\ nxt' \in [Threads -> Pairs]
<1>1. Nothing \in Pairs /\ Nothing.ctr = 0 /\ "idle" \in States
  BY DEF Nothing, Pair, Pairs, States
<1>2. ASSUME enq' = [enq EXCEPT ![t] = Nothing], deq' = [deq EXCEPT ![t] = Nothing],
             nxt' = [nxt EXCEPT ![t] = Nothing]
      PROVE  /\ enq'[t].ctr = 0 /\ deq'[t].ctr = 0
             /\ enq' \in [Threads -> Pairs] /\ deq' \in [Threads -> Pairs] /\ nxt' \in [Threads -> Pairs]
  BY <1>1, <1>2 DEF Types
<1>3. ASSUME Return(t)
      PROVE  /\ pc'[t] = "idle" /\ pc' \in [Threads -> States]
             /\ qe' \in [Threads -> Nodes \union {Null}]
             /\ value' \in [Threads -> Values \union {NoValue}]
  BY <1>1, <1>3 DEF Types, Return, Goto
<1>4. ASSUME NEW to \in States, Again(t, to)
      PROVE  pc'[t] = to /\ pc' \in [Threads -> States] /\ UNCHANGED <<qe, value>>
  BY <1>4 DEF Types, Again, Goto
<1> QED
  BY <1>2, <1>3, <1>4 DEF Return, Again

-----------------------------------------------------------------------------
(***************************************************************************)
(* The steps that write no element: the reads and checks, the failed       *)
(* swaps, and the swaps of enqueue.                                        *)
(***************************************************************************)
LinkFails(t) == Link(t) /\ next[enq[t].ptr] # nxt[t]
Quiet(t) ==
  \/ EnqueueReads(t) \/ LinkFails(t) \/ HelpEnqueue(t) \/ EnqueueReturn(t)
  \/ Dequeue(t) \/ DequeueReads(t) \/ DequeueEmpty(t) \/ HelpDequeue(t) \/ ReadData(t) \/ AdvanceFails(t)

\* The actions of a thread, by kind.
LEMMA Kinds ==
  ASSUME Types, NEW t \in Threads, Call(t) \/ Go(t)
  PROVE  \/ \E n : Takes(t, n)
         \/ EnqueueRefused(t) \/ Quiet(t)
         \/ InitPointer(t) \/ InitCounter(t) \/ Links(t) \/ Advance(t) \/ DequeueReturn(t)
<1>1. Enqueue(t) => Takes(t, Head(free))
  BY DEF Enqueue, MayCall, Takes
<1>2. GuaranteedEnqueue(t) => Takes(t, nodes + 1)
  BY DEF GuaranteedEnqueue, MayCall, Takes
<1>3. Link(t) => Links(t) \/ LinkFails(t)
  BY DEF Links, LinkFails
<1> QED
  BY <1>1, <1>2, <1>3 DEF Call, Go, Quiet

\* Where thread t was, and where it goes.
Goes(t, at, to) == pc[t] = at /\ pc'[t] = to

\* Where such a step takes its thread.
LEMMA QuietGoes ==
  ASSUME Types, NEW t \in Threads, Quiet(t)
  PROVE  \/ Ready(t) /\ Ready(t)' /\ UNCHANGED <<qe, value>>
         \/ Goes(t, "enqSwing", "idle")
         \/ /\ pc[t] \in {"idle", "deqReadPointer", "deqReadCounter", "deqEnqPointer", "deqEnqCounter",
                          "deqNextPointer", "deqCheckPointer", "deqCheckCounter", "deqState", "deqSwap"}
            /\ pc'[t] \in {"idle", "deqReadPointer", "deqReadCounter", "deqEnqPointer", "deqEnqCounter",
                           "deqNextPointer", "deqCheckPointer", "deqCheckCounter", "deqState", "deqSwap"}
<1>1. CASE EnqueueReads(t)
  BY <1>1 DEF Types, EnqueueReads, ReadEnqueue, ReadNext, Read, Check, Again, Goto, Ready, local
<1>2. CASE LinkFails(t) \/ HelpEnqueue(t)
  BY <1>2 DEF Types, LinkFails, Link, HelpEnqueue, Again, Goto, Ready
<1>3. CASE EnqueueReturn(t)
  BY <1>3 DEF Types, EnqueueReturn, Return, Goto, Goes
<1>4. CASE Dequeue(t) \/ DequeueEmpty(t) \/ HelpDequeue(t) \/ ReadData(t) \/ AdvanceFails(t)
  BY <1>4 DEF Types, Dequeue, DequeueEmpty, HelpDequeue, ReadData, AdvanceFails, Return, Again, Goto
<1>5. CASE DequeueReads(t)
  BY <1>5 DEF Types, DequeueReads, ReadEnqueue, ReadNext, Read, Check, Again, Goto
<1> QED
  BY <1>1, <1>2, <1>3, <1>4, <1>5 DEF Quiet

\* What such a step leaves as it was.
LEMMA QuietWrites ==
  ASSUME Types, NEW t \in Threads, Quiet(t)
  PROVE  /\ Still /\ Others(t)
         /\ UNCHANGED <<called, refused, delivered, misplaced>>
         /\ \A u \in Threads : Stays(u)
<1>1. UNCHANGED <<dequeue, next, user_data, aba_counter, free, nodes, called, refused, delivered, misplaced>>
  <2>1. CASE EnqueueReads(t)
    BY <2>1 DEF EnqueueReads, ReadEnqueue, ReadNext, Read, Check, shared, history
  <2>2. CASE LinkFails(t) \/ HelpEnqueue(t) \/ EnqueueReturn(t)
    BY <2>2 DEF LinkFails, Link, HelpEnqueue, EnqueueReturn, Swing, history
  <2>3. CASE Dequeue(t) \/ DequeueEmpty(t) \/ HelpDequeue(t) \/ ReadData(t) \/ AdvanceFails(t)
    BY <2>3 DEF Dequeue, DequeueEmpty, HelpDequeue, ReadData, AdvanceFails, Swing, shared, history
  <2>4. CASE DequeueReads(t)
    BY <2>4 DEF DequeueReads, ReadEnqueue, ReadNext, Read, Check, shared, history
  <2> QED
    BY <2>1, <2>2, <2>3, <2>4 DEF Quiet
<1>2. Others(t)
  <2>1. ASSUME pc[t] # "idle" \/ ~Dequeue(t) PROVE Call(t) \/ Go(t)
    BY <2>1 DEF Quiet, LinkFails, Go
  <2>2. ASSUME pc[t] = "idle", Dequeue(t) PROVE Call(t)
    BY <2>2 DEF Call
  <2> QED
    BY <2>1, <2>2, OnlyOne
<1>3. Stays(t)
  BY QuietGoes DEF Goes, Stays, Preparing, Ready, Holding
<1>4. \A u \in Threads : Stays(u)
  BY <1>2, <1>3, OthersStay
<1> QED
  BY <1>1, <1>2, <1>4 DEF Still

\* What a thread knows of enqueue, dequeue and next.
Knows(rows, t) == ReadsEnqueue(t) /\ ReadsDequeue(t) /\ Replaces(rows, t)

\* At these places a thread relies on nothing but the order of the counters.
LEMMA KnowsLittle ==
  ASSUME NEW rows, NEW t \in Threads,
         pc'[t] \in {"idle", "initPointer", "initCounter", "enqReadPointer", "enqReadCounter", "enqNextPointer",
                     "deqReadPointer", "deqReadCounter", "deqEnqPointer", "deqFree"},
         enq'[t].ctr <= enqueue'.ctr, deq'[t].ctr <= dequeue'.ctr
  PROVE  Knows(rows, t)'
<1>1. ReadsEnqueue(t)'
  BY DEF ReadsEnqueue
<1>2. ReadsDequeue(t)'
  BY DEF ReadsDequeue
<1>3. Replaces(rows, t)'
  BY DEF Replaces
<1> QED
  BY <1>1, <1>2, <1>3 DEF Knows

Locals ==
  /\ pc \in [Threads -> States] /\ qe \in [Threads -> Nodes \union {Null}]
  /\ enq \in [Threads -> Pairs] /\ deq \in [Threads -> Pairs] /\ nxt \in [Threads -> Pairs]
  /\ value \in [Threads -> Values \union {NoValue}]

\* The counters are what they were, or larger.
LEMMA SwingsGrow ==
  ASSUME NEW rows, Types, Swings, NEW t \in Threads, Knows(rows, t)
  PROVE  /\ enq[t].ctr \in Nat /\ deq[t].ctr \in Nat /\ enqueue.ctr \in Nat /\ dequeue.ctr \in Nat
         /\ enqueue'.ctr \in Nat /\ enq[t].ctr <= enqueue'.ctr /\ enqueue.ctr <= enqueue'.ctr
         /\ 0 <= enqueue'.ctr /\ 0 <= dequeue.ctr /\ deq[t].ctr <= dequeue.ctr
<1>1. enq[t].ctr \in Nat /\ deq[t].ctr \in Nat /\ enqueue.ctr \in Nat /\ dequeue.ctr \in Nat
  BY DEF Types, Pairs
<1>2. enq[t].ctr <= enqueue.ctr /\ deq[t].ctr <= dequeue.ctr
  BY DEF Knows, ReadsEnqueue, ReadsDequeue
<1>3. enqueue' = enqueue \/ enqueue'.ctr = enqueue.ctr + 1
  BY DEF Swings, Pair
<1> QED
  BY <1>1, <1>2, <1>3

\* A pair with both words equal is equal.
LEMMA SamePair ==
  ASSUME NEW p, NEW q, p \in [ptr : Nodes, ctr : Nat], q \in Pairs, p.ptr = q.ptr, p.ctr = q.ctr
  PROVE  p = q
BY DEF Pairs

\* The threads that go back to where they know nothing.
LEMMA ForgetKnows ==
  ASSUME NEW rows, Types, Swings, UNCHANGED dequeue, NEW t \in Threads, Knows(rows, t),
         \/ Return(t)
         \/ Again(t, "enqReadPointer") /\ Ready(t)
         \/ Again(t, "deqReadPointer")
  PROVE  Knows(rows, t)' /\ Locals' /\ Follows(t)'
<1>1. /\ pc'[t] \in {"idle", "enqReadPointer", "deqReadPointer"}
      /\ enq'[t].ctr = 0 /\ deq'[t].ctr = 0 /\ Locals'
  <2>1. "idle" \in States /\ "enqReadPointer" \in States /\ "deqReadPointer" \in States
    BY DEF States
  <2>2. qe \in [Threads -> Nodes \union {Null}] /\ value \in [Threads -> Values \union {NoValue}]
    BY DEF Types
  <2>3. CASE Return(t)
    BY <2>3, ForgetWrites DEF Locals
  <2>4. ASSUME NEW to \in {"enqReadPointer", "deqReadPointer"}, Again(t, to)
        PROVE  pc'[t] = to /\ enq'[t].ctr = 0 /\ deq'[t].ctr = 0 /\ Locals'
    BY <2>1, <2>2, <2>4, ForgetWrites DEF Locals
  <2> QED
    BY <2>3, <2>4
<1>2. Knows(rows, t)'
  BY <1>1, KnowsLittle, SwingsGrow
<1>3. Follows(t)'
  <2>1. CASE pc'[t] # "enqReadPointer"
    BY <1>1, <2>1 DEF Follows, Holding, Preparing, Ready
  <2>2. CASE pc'[t] = "enqReadPointer"
    <3>1. Again(t, "enqReadPointer") /\ Ready(t)
      <4>1. "idle" \in States /\ "deqReadPointer" \in States
        BY DEF States
      <4> QED
        BY <2>2, <4>1, ForgetWrites
    <3>2. qe'[t] = qe[t] /\ qe[t] # Null
      BY <3>1 DEF Again, Types, Follows, Holding
    <3> QED
      BY <2>2, <3>2 DEF Follows
  <2> QED
    BY <2>1, <2>2
<1> QED
  BY <1>1, <1>2, <1>3

\* lfds611_queue_internal_queue() up to the swap.
LEMMA EnqueueReadsKnows ==
  ASSUME NEW rows, Types, Shape(rows), Times(rows), NEW t \in Threads, Knows(rows, t), EnqueueReads(t)
  PROVE  Knows(rows, t)' /\ Locals' /\ Follows(t)' /\ UNCHANGED enqueue
<1>1. UNCHANGED <<enqueue, dequeue, next, user_data, aba_counter, qe, value>>
  BY DEF EnqueueReads, ReadEnqueue, ReadNext, Read, Check, Again, shared, local
<1>2. Ready(t) /\ qe[t] # Null /\ Locals /\ Follows(t)
  <2>1. Ready(t)
    BY DEF EnqueueReads, ReadEnqueue, ReadNext, Read, Check, Ready
  <2> QED
    BY <2>1 DEF Types, Follows, Holding, Locals
<1>3. {"enqReadPointer", "enqReadCounter", "enqNextPointer", "enqNextCounter", "enqCheckPointer",
       "enqCheckCounter", "enqSwap"} \subseteq States
  BY DEF States
<1>4. Swings
  BY <1>1 DEF Swings
<1>5. /\ enq[t].ctr <= enqueue.ctr /\ enqueue.ctr <= enqueue.ctr /\ deq[t].ctr <= dequeue.ctr
      /\ enqueue \in [ptr : Nodes, ctr : Nat] /\ enq[t] \in Pairs
      /\ enqueue.ptr # Null /\ Null \notin Nodes
  <2>1. enqueue.ptr \in Nodes /\ Null \notin Nodes
    BY DEF Types, Nodes, Null
  <2> QED
    BY <1>1, <1>4, <2>1, SwingsGrow DEF Types
<1>6. CASE ReadEnqueue(t, "enqReadPointer", "enqReadCounter", "ptr")
  <2>1. /\ pc'[t] = "enqReadCounter" /\ pc' \in [Threads -> States]
        /\ enq' \in [Threads -> Pairs] /\ enq'[t].ptr = enqueue.ptr /\ enq'[t].ctr = enq[t].ctr
        /\ UNCHANGED <<qe, value, deq, nxt>>
    BY <1>3, <1>6, ReadEnqueuePointer
  <2>2. Knows(rows, t)'
    BY <1>1, <1>5, <2>1, KnowsLittle
  <2> QED
    BY <1>1, <1>2, <1>5, <2>1, <2>2 DEF Locals, Follows
<1>7. CASE ReadEnqueue(t, "enqReadCounter", "enqNextPointer", "ctr")
  <2>1. /\ pc[t] = "enqReadCounter" /\ pc'[t] = "enqNextPointer" /\ pc' \in [Threads -> States]
        /\ enq' \in [Threads -> Pairs] /\ enq'[t].ptr = enq[t].ptr /\ enq'[t].ctr = enqueue.ctr
        /\ UNCHANGED <<qe, value, deq, nxt>>
    BY <1>3, <1>7, ReadEnqueueCounter
  <2>2. Knows(rows, t)'
    BY <1>1, <1>5, <2>1, KnowsLittle
  <2> QED
    BY <1>1, <1>2, <1>5, <2>1, <2>2 DEF Locals, Follows
<1>8. ASSUME pc[t] \in {"enqNextPointer", "enqNextCounter", "enqCheckPointer", "enqCheckCounter"}
      PROVE  enq[t].ptr \in Nodes
  BY <1>2, <1>5, <1>8 DEF Follows, Pairs
<1>9. CASE ReadNext(t, "enqNextPointer", "enqNextCounter", enq[t].ptr, "ptr")
  <2>1. PICK e : e = enq[t].ptr
    OBVIOUS
  <2>2. ReadNext(t, "enqNextPointer", "enqNextCounter", e, "ptr")
    BY <1>9, <2>1
  <2>3. e \in Nodes
    BY <1>8, <2>1, <2>2 DEF ReadNext, Read
  <2>4. /\ pc[t] = "enqNextPointer" /\ pc'[t] = "enqNextCounter" /\ pc' \in [Threads -> States]
        /\ nxt' \in [Threads -> Pairs] /\ nxt'[t].ptr = next[e].ptr
        /\ UNCHANGED <<qe, value, enq, deq>>
    <3>1. "enqNextCounter" \in States
      BY DEF States
    <3>2. pc[t] = "enqNextPointer" /\ pc'[t] = "enqNextCounter" /\ pc' \in [Threads -> States]
      BY <2>2, <2>3, <3>1, ReadNextPointer
    <3>3. nxt' \in [Threads -> Pairs] /\ nxt'[t].ptr = next[e].ptr
      BY <2>2, <2>3, <3>1, ReadNextPointer
    <3>4. nxt'[t].ctr = nxt[t].ctr /\ UNCHANGED <<qe, value, enq, deq>>
      BY <2>2, <2>3, <3>1, ReadNextPointer
    <3> QED
      BY <3>2, <3>3, <3>4
  <2>5. ReadsEnqueue(t)'
    BY <1>1, <1>5, <2>1, <2>4 DEF ReadsEnqueue
  <2>6. ReadsDequeue(t)' /\ Replaces(rows, t)'
    BY <1>1, <1>5, <2>4 DEF ReadsDequeue, Replaces
  <2> QED
    BY <1>1, <1>2, <2>4, <2>5, <2>6 DEF Knows, Locals, Follows
<1>10. CASE ReadNext(t, "enqNextCounter", "enqCheckPointer", enq[t].ptr, "ctr")
  <2>1. PICK e : e = enq[t].ptr
    OBVIOUS
  <2>2. ReadNext(t, "enqNextCounter", "enqCheckPointer", e, "ctr")
    BY <1>10, <2>1
  <2>3. e \in Nodes
    BY <1>8, <2>1, <2>2 DEF ReadNext, Read
  <2>4. /\ pc[t] = "enqNextCounter" /\ pc'[t] = "enqCheckPointer" /\ pc' \in [Threads -> States]
        /\ nxt' \in [Threads -> Pairs] /\ nxt'[t].ptr = nxt[t].ptr /\ nxt'[t].ctr = next[e].ctr
        /\ UNCHANGED <<qe, value, enq, deq>>
    <3>1. "enqCheckPointer" \in States
      BY DEF States
    <3>2. pc[t] = "enqNextCounter" /\ pc'[t] = "enqCheckPointer" /\ pc' \in [Threads -> States]
      BY <2>2, <2>3, <3>1, ReadNextCounter
    <3>3. nxt' \in [Threads -> Pairs] /\ nxt'[t].ctr = next[e].ctr
      BY <2>2, <2>3, <3>1, ReadNextCounter
    <3>4. nxt'[t].ptr = nxt[t].ptr /\ UNCHANGED <<qe, value, enq, deq>>
      BY <2>2, <2>3, <3>1, ReadNextCounter
    <3> QED
      BY <3>2, <3>3, <3>4
  <2>5. ReadsEnqueue(t)'
    BY <1>1, <1>5, <2>1, <2>4 DEF Knows, ReadsEnqueue
  <2>6. ReadsDequeue(t)'
    BY <1>1, <1>5, <2>4 DEF ReadsDequeue
  <2>7. ASSUME enqueue = enq[t], enq[t].ctr # 0 PROVE Since(rows, t)'
    <3>1. In(rows, Queue, e) /\ Bounded(e)
      BY <1>5, <2>1, <2>7 DEF Times
    <3>2. ~BeingPrepared(e)'
      <4>1. ASSUME NEW u \in Threads, Preparing(u)', qe'[u] = e PROVE FALSE
        <5>1. Preparing(u) /\ qe[u] = e
          <6>1. u # t => pc'[u] = pc[u]
            BY OnlyOne DEF Go, Others
          <6> QED
            BY <1>1, <2>4, <4>1, <6>1 DEF Preparing
        <5>2. Holding(u) /\ ~Ready(u)
          BY <5>1 DEF Preparing, Holding, Ready
        <5> QED
          BY <3>1, <5>1, <5>2, FirstOfRow
      <4> QED
        BY <4>1 DEF BeingPrepared
    <3>3. next[e].ctr \in Nat /\ aba_counter \in Nat
      BY <2>3 DEF Types, Pairs
    <3>4. nxt'[t].ctr <= next[e].ctr /\ nxt'[t].ctr <= aba_counter + 1
      BY <2>4, <3>1, <3>3 DEF Bounded
    <3> QED
      BY <1>1, <2>1, <2>4, <3>1, <3>2, <3>4 DEF Since, In
  <2>8. Replaces(rows, t)'
    BY <1>1, <2>4, <2>7 DEF Replaces
  <2> QED
    BY <1>1, <1>2, <2>4, <2>5, <2>6, <2>8 DEF Knows, Locals, Follows
<1>11. ASSUME Again(t, "enqReadPointer") PROVE Knows(rows, t)' /\ Locals' /\ Follows(t)'
  BY <1>1, <1>2, <1>4, <1>11, ForgetKnows
<1>12. ASSUME NEW to \in {"enqCheckCounter", "enqSwap"}, Goto(t, to), UNCHANGED local,
              pc[t] \in {"enqCheckPointer", "enqCheckCounter"}
       PROVE  /\ pc'[t] = to /\ Locals' /\ Follows(t)' /\ ReadsDequeue(t)' /\ UNCHANGED <<enq, nxt, deq>>
              /\ Since(rows, t) => Since(rows, t)'
  <2>1. pc'[t] = to /\ Locals' /\ UNCHANGED <<enq, nxt, deq, qe>>
    BY <1>2, <1>3, <1>12 DEF Goto, Locals, local
  <2>2. Follows(t)'
    BY <1>2, <1>8, <1>12, <2>1 DEF Follows, Null, Nodes
  <2>3. ReadsDequeue(t)'
    BY <1>1, <1>5, <2>1 DEF ReadsDequeue
  <2>4. ASSUME Since(rows, t) PROVE Since(rows, t)'
    <3>1. \A u \in Threads : (Preparing(u)' <=> Preparing(u)) /\ (pc'[u] = "initCounter" <=> pc[u] = "initCounter")
      BY <1>12 DEF Types, Goto, Preparing
    <3>2. \A n : (BeingPrepared(n)' <=> BeingPrepared(n)) /\ (HalfPrepared(n)' <=> HalfPrepared(n))
      BY <1>1, <3>1 DEF BeingPrepared, HalfPrepared
    <3>3. PICK n : n = enq[t].ptr
      OBVIOUS
    <3> QED
      BY <1>1, <2>1, <2>4, <3>2, <3>3 DEF Since, In
  <2> QED
    BY <2>1, <2>2, <2>3, <2>4
<1>13. CASE Check(t, "enqCheckPointer", "enqCheckCounter", "enqReadPointer", enqueue.ptr = enq[t].ptr)
  <2>1. pc[t] = "enqCheckPointer"
    BY <1>13 DEF Check
  <2>2. CASE enqueue.ptr = enq[t].ptr
    <3>1. /\ pc'[t] = "enqCheckCounter" /\ Locals' /\ Follows(t)' /\ ReadsDequeue(t)' /\ UNCHANGED <<enq, nxt, deq>>
          /\ Since(rows, t) => Since(rows, t)'
      BY <1>12, <1>13, <2>1, <2>2 DEF Check
    <3>2. enqueue.ctr = enq[t].ctr => enqueue = enq[t]
      BY <1>5, <2>2, SamePair
    <3>3. ReadsEnqueue(t)'
      BY <1>1, <1>5, <2>1, <3>1, <3>2 DEF Knows, ReadsEnqueue
    <3>4. Replaces(rows, t)'
      BY <1>1, <2>1, <3>1 DEF Knows, Replaces
    <3> QED
      BY <1>1, <3>1, <3>3, <3>4 DEF Knows
  <2>3. CASE enqueue.ptr # enq[t].ptr
    BY <1>1, <1>11, <1>13, <2>3 DEF Check
  <2> QED
    BY <2>2, <2>3
<1>14. CASE Check(t, "enqCheckCounter", "enqSwap", "enqReadPointer", enqueue.ctr = enq[t].ctr)
  <2>1. pc[t] = "enqCheckCounter"
    BY <1>14 DEF Check
  <2>2. CASE enqueue.ctr = enq[t].ctr
    <3>1. /\ pc'[t] = "enqSwap" /\ Locals' /\ Follows(t)' /\ ReadsDequeue(t)' /\ UNCHANGED <<enq, nxt, deq>>
          /\ Since(rows, t) => Since(rows, t)'
      BY <1>12, <1>14, <2>1, <2>2 DEF Check
    <3>2. enqueue = enq[t]
      BY <2>1, <2>2 DEF Knows, ReadsEnqueue
    <3>3. ReadsEnqueue(t)'
      BY <1>1, <1>5, <2>1, <3>1, <3>2 DEF Knows, ReadsEnqueue
    <3>4. enq[t].ctr = 0 => enq[t].ptr = Dummy /\ ~In(rows, t, Dummy)
      <4> SUFFICES ASSUME enq[t].ctr = 0 PROVE enq[t].ptr = Dummy /\ ~In(rows, t, Dummy)
        OBVIOUS
      <4>1. enq[t].ptr = Dummy /\ In(rows, Queue, Dummy)
        BY <3>2 DEF Times
      <4> QED
        BY <4>1, OneRow, QueueIsOwner DEF Shape
    <3>5. Replaces(rows, t)'
      BY <1>1, <2>1, <3>1, <3>2, <3>4 DEF Knows, Replaces, In
    <3> QED
      BY <1>1, <3>1, <3>3, <3>5 DEF Knows
  <2>3. CASE enqueue.ctr # enq[t].ctr
    BY <1>1, <1>11, <1>14, <2>3 DEF Check
  <2> QED
    BY <2>2, <2>3
<1> QED
  BY <1>1, <1>6, <1>7, <1>9, <1>10, <1>13, <1>14 DEF EnqueueReads

\* lfds611_queue_dequeue() up to the swap.
LEMMA DequeueReadsKnows ==
  ASSUME NEW rows, Types, Shape(rows), Times(rows), NEW t \in Threads, Knows(rows, t),
         Dequeue(t) \/ DequeueReads(t) \/ ReadData(t)
  PROVE  Knows(rows, t)' /\ Locals' /\ Follows(t)' /\ UNCHANGED enqueue
<1>1. UNCHANGED <<enqueue, dequeue, next, user_data, aba_counter, qe>>
  BY DEF Dequeue, DequeueReads, ReadData, ReadEnqueue, ReadNext, Read, Check, Again, shared, local
<1>2. Locals /\ Follows(t)
  BY DEF Types, Locals
<1>3. Swings
  BY <1>1 DEF Swings
<1>4. /\ enq[t].ctr <= enqueue.ctr /\ enqueue.ctr <= enqueue.ctr
      /\ deq[t].ctr <= dequeue.ctr /\ dequeue.ctr <= dequeue.ctr
      /\ enqueue \in [ptr : Nodes, ctr : Nat] /\ dequeue \in [ptr : Nodes, ctr : Nat]
      /\ enq[t] \in Pairs /\ deq[t] \in Pairs
      /\ enqueue.ptr \in Nodes /\ dequeue.ptr \in Nodes /\ Null \notin Nodes
      /\ enqueue.ptr # Null /\ dequeue.ptr # Null
  <2>1. enqueue.ptr \in Nodes /\ dequeue.ptr \in Nodes /\ Null \notin Nodes
    BY DEF Types, Nodes, Null
  <2>2. enqueue.ctr \in Nat /\ dequeue.ctr \in Nat
    BY DEF Types
  <2>3. enq[t].ctr <= enqueue.ctr /\ deq[t].ctr <= dequeue.ctr
    BY <1>1, <1>3, SwingsGrow
  <2>4. enqueue.ctr <= enqueue.ctr /\ dequeue.ctr <= dequeue.ctr
    BY <2>2
  <2>5. /\ enqueue \in [ptr : Nodes, ctr : Nat] /\ dequeue \in [ptr : Nodes, ctr : Nat]
        /\ enq[t] \in Pairs /\ deq[t] \in Pairs
    BY DEF Types
  <2> QED
    BY <2>1, <2>3, <2>4, <2>5
\* These are not the states of a thread that holds an element.
<1>5. ASSUME pc'[t] \in {"deqReadCounter", "deqEnqPointer", "deqEnqCounter", "deqNextPointer",
                         "deqCheckPointer", "deqCheckCounter", "deqState", "deqSwap"},
             deq'[t].ptr # Null
      PROVE  Follows(t)' /\ Replaces(rows, t)'
  BY <1>5 DEF Follows, Holding, Preparing, Ready, Replaces
<1>6. CASE Dequeue(t)
  <2>1. pc'[t] = "deqReadCounter" /\ pc' \in [Threads -> States] /\ UNCHANGED <<enq, nxt, value>>
    <3>1. "deqReadCounter" \in States
      BY DEF States
    <3> QED
      BY <1>2, <1>6, <3>1 DEF Dequeue, Goto, Locals
  <2>2. deq' \in [Threads -> Pairs] /\ deq'[t].ptr = dequeue.ptr /\ deq'[t].ctr = deq[t].ctr
    BY <1>6, ReadDequeuePointer DEF Dequeue
  <2>3. Follows(t)'
    BY <1>4, <1>5, <2>1, <2>2
  <2>4. Knows(rows, t)'
    BY <1>1, <1>4, <2>1, <2>2, KnowsLittle
  <2> QED
    BY <1>1, <1>2, <2>1, <2>2, <2>3, <2>4 DEF Locals
<1>7. ASSUME Read(t, "deqReadCounter", "deqEnqPointer"), deq' = [deq EXCEPT ![t].ctr = dequeue.ctr],
             UNCHANGED <<enq, nxt>>
      PROVE  Knows(rows, t)' /\ Locals' /\ Follows(t)'
  <2>1. pc[t] = "deqReadCounter" /\ pc'[t] = "deqEnqPointer" /\ pc' \in [Threads -> States] /\ UNCHANGED value
    <3>1. "deqEnqPointer" \in States
      BY DEF States
    <3> QED
      BY <1>2, <1>7, <3>1 DEF Read, Goto, Locals
  <2>2. deq' \in [Threads -> Pairs] /\ deq'[t].ptr = deq[t].ptr /\ deq'[t].ctr = dequeue.ctr
    BY <1>7, ReadDequeueCounter
  <2>3. deq[t].ptr # Null
    BY <1>2, <2>1 DEF Follows
  <2>4. Follows(t)'
    BY <1>5, <2>1, <2>2, <2>3
  <2>5. Knows(rows, t)'
    BY <1>1, <1>4, <1>7, <2>1, <2>2, KnowsLittle
  <2> QED
    BY <1>1, <1>2, <1>7, <2>1, <2>2, <2>4, <2>5 DEF Locals
<1>8. CASE ReadEnqueue(t, "deqEnqPointer", "deqEnqCounter", "ptr")
  <2>1. /\ pc[t] = "deqEnqPointer" /\ pc'[t] = "deqEnqCounter" /\ pc' \in [Threads -> States]
        /\ enq' \in [Threads -> Pairs] /\ enq'[t].ptr = enqueue.ptr /\ enq'[t].ctr = enq[t].ctr
        /\ UNCHANGED <<value, deq, nxt>>
    <3>1. "deqEnqCounter" \in States
      BY DEF States
    <3> QED
      BY <1>8, <3>1, ReadEnqueuePointer
  <2>2. Follows(t)' /\ Replaces(rows, t)'
    BY <1>2, <1>5, <2>1 DEF Follows
  <2>3. ReadsEnqueue(t)'
    BY <1>1, <1>4, <2>1 DEF ReadsEnqueue
  <2>4. ReadsDequeue(t)'
    BY <1>1, <1>4, <2>1 DEF ReadsDequeue
  <2> QED
    BY <1>1, <1>2, <2>1, <2>2, <2>3, <2>4 DEF Locals, Knows
<1>9. CASE ReadEnqueue(t, "deqEnqCounter", "deqNextPointer", "ctr")
  <2>1. /\ pc[t] = "deqEnqCounter" /\ pc'[t] = "deqNextPointer" /\ pc' \in [Threads -> States]
        /\ enq' \in [Threads -> Pairs] /\ enq'[t].ptr = enq[t].ptr /\ enq'[t].ctr = enqueue.ctr
        /\ UNCHANGED <<value, deq, nxt>>
    <3>1. "deqNextPointer" \in States
      BY DEF States
    <3> QED
      BY <1>9, <3>1, ReadEnqueueCounter
  <2>2. Follows(t)' /\ Replaces(rows, t)'
    BY <1>2, <1>5, <2>1 DEF Follows
  <2>3. ReadsEnqueue(t)'
    BY <1>1, <1>4, <2>1 DEF ReadsEnqueue
  <2>4. ReadsDequeue(t)'
    BY <1>1, <1>4, <2>1 DEF Knows, ReadsDequeue
  <2> QED
    BY <1>1, <1>2, <2>1, <2>2, <2>3, <2>4 DEF Locals, Knows
\* When enqueue was elsewhere, there is an element behind the first one.
<1>10. enqueue.ptr # dequeue.ptr => next[dequeue.ptr].ptr # Null
  <2> SUFFICES ASSUME enqueue.ptr # dequeue.ptr, next[dequeue.ptr].ptr = Null PROVE FALSE
    OBVIOUS
  <2>1. Queue \in Owners /\ Open(Queue) /\ rows[Queue][1] = dequeue.ptr /\ 1 \in 1..Len(rows[Queue])
    BY QueueIsOwner, QueueHead DEF Open, Shape, Heads
  <2>2. PICK i \in 1..Len(rows[Queue]) : rows[Queue][i] = enqueue.ptr
    BY DEF Times, In
  <2>3. Len(rows[Queue]) # 1
    BY <2>1, <2>2
  <2>4. rows[Queue][1 + 1] = Null
    BY <2>1, <2>3 DEF Shape, Linked
  <2>5. Len(rows[Queue]) \in Nat /\ \A j \in 1..Len(rows[Queue]) : rows[Queue][j] \in Nodes
    BY <2>1, RowTypes DEF Shape
  <2>6. 1 + 1 \in 1..Len(rows[Queue])
    <3>1. \A a \in Nat : 1 \in 1..a /\ a # 1 => 1 + 1 \in 1..a
      OBVIOUS
    <3> QED
      BY <2>1, <2>3, <2>5, <3>1
  <2> QED
    BY <1>4, <2>4, <2>5, <2>6
<1>11. CASE ReadNext(t, "deqNextPointer", "deqCheckPointer", deq[t].ptr, "ptr")
  <2>1. PICK e : e = deq[t].ptr
    OBVIOUS
  <2>2. ReadNext(t, "deqNextPointer", "deqCheckPointer", e, "ptr") /\ pc[t] = "deqNextPointer"
    BY <1>11, <2>1 DEF ReadNext, Read
  <2>3. e \in Nodes
    BY <1>2, <1>4, <2>1, <2>2 DEF Follows, Pairs
  <2>4. "deqCheckPointer" \in States
    BY DEF States
  <2>5. pc'[t] = "deqCheckPointer" /\ pc' \in [Threads -> States]
    BY <2>2, <2>3, <2>4, ReadNextPointer
  <2>6. nxt' \in [Threads -> Pairs] /\ nxt'[t].ptr = next[e].ptr
    BY <2>2, <2>3, <2>4, ReadNextPointer
  <2>7. UNCHANGED <<value, enq, deq>>
    BY <2>2, <2>3, <2>4, ReadNextPointer
  <2>8. Follows(t)' /\ Replaces(rows, t)'
    BY <1>2, <1>5, <2>2, <2>5, <2>7 DEF Follows
  <2>9. ReadsEnqueue(t)'
    BY <1>1, <1>4, <2>1, <2>5, <2>6, <2>7 DEF ReadsEnqueue
  <2>10. dequeue = deq[t] /\ enq[t].ptr # deq[t].ptr => enqueue.ptr # dequeue.ptr
    BY <2>2 DEF Knows, ReadsDequeue
  <2>11. ReadsDequeue(t)'
    BY <1>1, <1>4, <1>10, <2>1, <2>5, <2>6, <2>7, <2>10 DEF ReadsDequeue
  <2> QED
    BY <1>1, <1>2, <2>5, <2>6, <2>7, <2>8, <2>9, <2>11 DEF Locals, Knows
<1>12. ASSUME Again(t, "deqReadPointer") PROVE Knows(rows, t)' /\ Locals' /\ Follows(t)'
  BY <1>1, <1>3, <1>12, ForgetKnows
<1>13. CASE Check(t, "deqCheckPointer", "deqCheckCounter", "deqReadPointer", dequeue.ptr = deq[t].ptr)
  <2>1. CASE dequeue.ptr = deq[t].ptr
    <3>1. /\ pc[t] = "deqCheckPointer" /\ pc'[t] = "deqCheckCounter" /\ pc' \in [Threads -> States]
          /\ UNCHANGED local
      <4>1. "deqCheckCounter" \in States
        BY DEF States
      <4> QED
        BY <1>2, <1>13, <2>1, <4>1 DEF Check, Goto, Locals
    <3>2. UNCHANGED <<qe, enq, deq, nxt, value>>
      BY <3>1 DEF local
    <3>3. Follows(t)' /\ Replaces(rows, t)'
      BY <1>4, <1>5, <2>1, <3>1, <3>2
    <3>4. dequeue.ctr = deq[t].ctr => dequeue = deq[t]
      BY <1>4, <2>1, SamePair
    <3>5. ReadsEnqueue(t)'
      BY <1>1, <1>4, <3>1, <3>2 DEF Knows, ReadsEnqueue
    <3>6. ReadsDequeue(t)'
      BY <1>1, <1>4, <3>1, <3>2, <3>4 DEF Knows, ReadsDequeue
    <3> QED
      BY <1>1, <1>2, <3>1, <3>2, <3>3, <3>5, <3>6 DEF Locals, Knows
  <2>2. CASE dequeue.ptr # deq[t].ptr
    BY <1>1, <1>12, <1>13, <2>2 DEF Check
  <2> QED
    BY <2>1, <2>2
<1>14. CASE Check(t, "deqCheckCounter", "deqState", "deqReadPointer", dequeue.ctr = deq[t].ctr)
  <2>1. CASE dequeue.ctr = deq[t].ctr
    <3>1. /\ pc[t] = "deqCheckCounter" /\ pc'[t] = "deqState" /\ pc' \in [Threads -> States]
          /\ UNCHANGED local
      <4>1. "deqState" \in States
        BY DEF States
      <4> QED
        BY <1>2, <1>14, <2>1, <4>1 DEF Check, Goto, Locals
    <3>2. UNCHANGED <<qe, enq, deq, nxt, value>>
      BY <3>1 DEF local
    <3>3. dequeue = deq[t]
      BY <2>1, <3>1 DEF Knows, ReadsDequeue
    <3>4. Follows(t)' /\ Replaces(rows, t)'
      BY <1>4, <1>5, <3>1, <3>2, <3>3
    <3>5. ReadsEnqueue(t)'
      BY <1>1, <1>4, <3>1, <3>2 DEF Knows, ReadsEnqueue
    <3>6. ReadsDequeue(t)'
      BY <1>1, <1>4, <3>1, <3>2, <3>3 DEF Knows, ReadsDequeue
    <3> QED
      BY <1>1, <1>2, <3>1, <3>2, <3>4, <3>5, <3>6 DEF Locals, Knows
  <2>2. CASE dequeue.ctr # deq[t].ctr
    BY <1>1, <1>12, <1>14, <2>2 DEF Check
  <2> QED
    BY <2>1, <2>2
<1>15. CASE ReadData(t)
  <2>1. nxt[t].ptr # Null
    BY <1>15 DEF ReadData, Knows, ReadsDequeue
  <2>2. nxt[t].ptr \in Nodes
    BY <2>1 DEF Types, Pairs
  <2>3. user_data[nxt[t].ptr] \in Values \union {NoValue}
    BY <2>2 DEF Types
  <2>4. /\ pc[t] = "deqState" /\ enq[t].ptr # deq[t].ptr /\ pc'[t] = "deqSwap" /\ pc' \in [Threads -> States]
        /\ UNCHANGED <<qe, enq, deq, nxt>>
        /\ value'[t] = user_data[nxt[t].ptr] /\ value' \in [Threads -> Values \union {NoValue}]
    <3>1. "deqSwap" \in States
      BY DEF States
    <3> QED
      BY <1>2, <1>15, <2>3, <3>1 DEF ReadData, Goto, Locals
  <2>5. Follows(t)' /\ Replaces(rows, t)'
    BY <1>2, <1>5, <2>4 DEF Follows
  <2>6. ReadsEnqueue(t)'
    BY <1>1, <1>4, <2>4 DEF Knows, ReadsEnqueue
  <2>7. ReadsDequeue(t)'
    BY <1>1, <1>4, <2>1, <2>4 DEF Knows, ReadsDequeue
  <2> QED
    BY <1>1, <1>2, <2>4, <2>5, <2>6, <2>7 DEF Locals, Knows
<1> QED
  BY <1>1, <1>6, <1>7, <1>8, <1>9, <1>11, <1>13, <1>14, <1>15 DEF DequeueReads

\* The swaps of enqueue move it to the next element, or fail.
LEMMA QuietSwings ==
  ASSUME NEW rows, Types, NEW t \in Threads, Knows(rows, t), Quiet(t)
  PROVE  Swings
<1>1. ASSUME NEW to, Swing(t, to), enqueue = enq[t] => next[enqueue.ptr].ptr = to /\ to # Null
      PROVE  Swings
  BY <1>1 DEF Swing, Swings, Pair
<1>2. CASE EnqueueReads(t)
  BY <1>2 DEF EnqueueReads, ReadEnqueue, ReadNext, Read, Check, shared, Swings
<1>3. CASE LinkFails(t) \/ Dequeue(t) \/ DequeueReads(t) \/ DequeueEmpty(t) \/ ReadData(t) \/ AdvanceFails(t)
  BY <1>3 DEF LinkFails, Link, Dequeue, DequeueReads, DequeueEmpty, ReadData, AdvanceFails,
              ReadEnqueue, ReadNext, Read, Check, shared, Swings
<1>4. CASE HelpEnqueue(t)
  <2>1. Swing(t, nxt[t].ptr) /\ nxt[t].ptr # Null
    BY <1>4 DEF HelpEnqueue
  <2>2. enqueue = enq[t] => next[enqueue.ptr].ptr = nxt[t].ptr
    BY <1>4 DEF HelpEnqueue, Knows, ReadsEnqueue
  <2> QED
    BY <1>1, <2>1, <2>2
<1>5. CASE HelpDequeue(t)
  <2>1. Swing(t, nxt[t].ptr) /\ nxt[t].ptr # Null
    BY <1>5 DEF HelpDequeue
  <2>2. enqueue = enq[t] => next[enqueue.ptr].ptr = nxt[t].ptr
    BY <1>5 DEF HelpDequeue, Knows, ReadsEnqueue
  <2> QED
    BY <1>1, <2>1, <2>2
<1>6. CASE EnqueueReturn(t)
  <2>1. Swing(t, qe[t]) /\ qe[t] # Null
    BY <1>6 DEF EnqueueReturn, Types, Follows
  <2>2. enqueue = enq[t] => next[enqueue.ptr].ptr = qe[t]
    BY <1>6 DEF EnqueueReturn, Knows, ReadsEnqueue
  <2> QED
    BY <1>1, <2>1, <2>2
<1> QED
  BY <1>2, <1>3, <1>4, <1>5, <1>6 DEF Quiet

\* Whatever such a step reads or forgets, its thread knows what it must.
LEMMA QuietKnows ==
  ASSUME NEW rows, Types, Shape(rows), Times(rows), NEW t \in Threads, Knows(rows, t), Quiet(t)
  PROVE  Knows(rows, t)' /\ Locals' /\ Follows(t)'
<1>1. Swings /\ UNCHANGED dequeue
  BY QuietSwings, QuietWrites DEF Still
<1>2. CASE EnqueueReads(t)
  BY <1>2, EnqueueReadsKnows
<1>3. CASE Dequeue(t) \/ DequeueReads(t) \/ ReadData(t)
  BY <1>3, DequeueReadsKnows
<1>4. CASE LinkFails(t) \/ HelpEnqueue(t)
  <2>1. Again(t, "enqReadPointer") /\ Ready(t)
    BY <1>4 DEF LinkFails, Link, HelpEnqueue, Ready
  <2> QED
    BY <1>1, <2>1, ForgetKnows
<1>5. CASE EnqueueReturn(t) \/ DequeueEmpty(t)
  <2>1. Return(t)
    BY <1>5 DEF EnqueueReturn, DequeueEmpty
  <2> QED
    BY <1>1, <2>1, ForgetKnows
<1>6. CASE HelpDequeue(t)
  <2>1. Again(t, "deqReadPointer")
    BY <1>6 DEF HelpDequeue
  <2> QED
    BY <1>1, <2>1, ForgetKnows
<1>7. CASE AdvanceFails(t)
  <2>1. /\ pc'[t] = "deqReadPointer" /\ enq'[t].ctr = 0 /\ deq'[t].ctr = 0 /\ Locals'
    <3>1. Nothing \in Pairs /\ Nothing.ctr = 0 /\ "deqReadPointer" \in States
      BY DEF Nothing, Pair, Pairs, States
    <3>2. pc'[t] = "deqReadPointer" /\ pc' \in [Threads -> States] /\ UNCHANGED qe
      BY <1>7, <3>1 DEF Types, AdvanceFails, Goto
    <3>3. /\ enq' \in [Threads -> Pairs] /\ deq' \in [Threads -> Pairs] /\ nxt' \in [Threads -> Pairs]
          /\ enq'[t].ctr = 0 /\ deq'[t].ctr = 0
      BY <1>7, <3>1 DEF Types, AdvanceFails
    <3>4. value' \in [Threads -> Values \union {NoValue}]
      BY <1>7 DEF Types, AdvanceFails
    <3> QED
      BY <3>2, <3>3, <3>4 DEF Locals, Types
  <2>2. Knows(rows, t)'
    BY <1>1, <2>1, KnowsLittle, SwingsGrow
  <2>3. Follows(t)'
    BY <2>1 DEF Follows, Holding, Preparing, Ready
  <2> QED
    BY <2>1, <2>2, <2>3
<1> QED
  BY <1>2, <1>3, <1>4, <1>5, <1>6, <1>7 DEF Quiet

\* The others follow what they followed.
LEMMA OthersFollow ==
  ASSUME Types, NEW t \in Threads, Others(t)
  PROVE  \A u \in Threads \ {t} : Follows(u)'
BY DEF Types, Others, Follows, Holding, Preparing, Ready

\* The types, after such a step.
LEMMA QuietTypes ==
  ASSUME NEW rows, Types, Shape(rows), Times(rows), NEW t \in Threads, Knows(rows, t), Quiet(t)
  PROVE  Types'
<1>1. /\ UNCHANGED <<dequeue, next, user_data, aba_counter, free, nodes, called, refused, delivered, misplaced>>
      /\ Others(t) /\ Swings
  BY QuietSwings, QuietWrites DEF Still
<1>2. Locals' /\ \A u \in Threads : Follows(u)'
  BY <1>1, QuietKnows, OthersFollow
<1>3. enqueue' \in [ptr : Nodes, ctr : Nat]
  <2>1. CASE UNCHANGED enqueue
    BY <2>1 DEF Types
  <2>2. CASE /\ next[enqueue.ptr].ptr # Null
             /\ enqueue' = Pair(next[enqueue.ptr].ptr, enqueue.ctr + 1)
    <3>1. In(rows, Queue, enqueue.ptr)
      BY DEF Times
    <3>2. next[enqueue.ptr].ptr \in Nodes
      BY <2>2, <3>1, NextInList
    <3>3. enqueue.ctr + 1 \in Nat
      BY DEF Types
    <3> QED
      BY <2>2, <3>2, <3>3 DEF Pair
  <2> QED
    BY <1>1, <2>1, <2>2 DEF Swings
<1> QED
  BY <1>1, <1>2, <1>3 DEF Types, Locals

-----------------------------------------------------------------------------
(***************************************************************************)
(* The other steps keep the types, and what their thread knows.            *)
(***************************************************************************)
LEMMA TakesTypes ==
  ASSUME NEW rows, Types, Shape(rows), NEW t \in Threads, Knows(rows, t), NEW n, Takes(t, n)
  PROVE  Types' /\ \A all : Knows(all, t)'
<1>1. /\ pc[t] = "idle" /\ pc'[t] = "initPointer" /\ qe'[t] = n
      /\ UNCHANGED <<enqueue, dequeue, next, user_data>> /\ aba_counter' = aba_counter + 1
      /\ Others(t)
  BY TakesWrites
<1>2. n \in Nodes /\ free' \in Seq(Nodes) /\ n # Null
  BY TakesFree DEF Nodes, Null
<1>3. UNCHANGED <<enq, deq, nxt, refused, delivered, misplaced>>
  BY DEF Takes, Take
<1>4. nodes' \in 0..MaxNodes /\ aba_counter' \in Nat
  BY <1>1, SizesAssumption DEF Takes, Types
<1>5. called' \in [Threads -> 0..MaxCalls] /\ called'[t] \in 1..MaxCalls
  <2>1. called \in [Threads -> 0..MaxCalls] /\ called[t] < MaxCalls /\ called' = [called EXCEPT ![t] = @ + 1]
    BY DEF Types, Takes, Take
  <2>2. called[t] + 1 \in 1..MaxCalls /\ called[t] + 1 \in 0..MaxCalls
    BY <2>1, SizesAssumption
  <2> QED
    BY <2>1, <2>2
<1>6. value' \in [Threads -> Values \union {NoValue}]
  <2>1. <<t, called'[t]>> \in Values
    BY <1>5 DEF Values
  <2>2. value' = [value EXCEPT ![t] = <<t, called'[t]>>]
    BY DEF Takes, Take
  <2> QED
    BY <2>1, <2>2 DEF Types
<1>7. Locals'
  <2>1. "initPointer" \in States
    BY DEF States
  <2>2. pc' \in [Threads -> States] /\ qe' \in [Threads -> Nodes \union {Null}]
    BY <1>2, <2>1 DEF Types, Takes, Take, Goto
  <2> QED
    BY <1>3, <1>6, <2>2 DEF Types, Locals
<1>8. \A u \in Threads : Follows(u)'
  <2>1. Follows(t)'
    BY <1>1, <1>2 DEF Follows
  <2> QED
    BY <1>1, <2>1, OthersFollow
<1>9. Types'
  BY <1>1, <1>2, <1>3, <1>4, <1>5, <1>7, <1>8 DEF Types, Locals
<1>10. \A all : Knows(all, t)'
  <2>1. enq'[t].ctr <= enqueue'.ctr /\ deq'[t].ctr <= dequeue'.ctr
    BY <1>1, <1>3 DEF Knows, ReadsEnqueue, ReadsDequeue
  <2> QED
    BY <1>1, <2>1, KnowsLittle
<1> QED
  BY <1>9, <1>10

\* The steps that prepare an element.
LEMMA InitTypes ==
  ASSUME NEW rows, Types, NEW t \in Threads, Knows(rows, t), InitPointer(t) \/ InitCounter(t)
  PROVE  Types' /\ \A all : Knows(all, t)'
<1>1. /\ next' \in [Nodes -> Pairs] /\ user_data' \in [Nodes -> Values \union {NoValue}]
      /\ aba_counter' \in Nat
      /\ UNCHANGED <<enqueue, dequeue, free, nodes, history>> /\ Others(t)
  <2>1. CASE InitPointer(t)
    BY <2>1, InitPointerWrites DEF Types
  <2>2. CASE InitCounter(t)
    <3>1. aba_counter' \in Nat
      BY <2>2, InitCounterWrites DEF Types
    <3> QED
      BY <2>2, <3>1, InitCounterWrites
  <2> QED
    BY <2>1, <2>2
<1>2. /\ Preparing(t) /\ pc'[t] \in {"initCounter", "enqReadPointer"} /\ UNCHANGED local
  BY DEF Types, InitPointer, InitCounter, Goto, Preparing
<1>3. UNCHANGED <<qe, enq, deq, nxt, value, called, refused, delivered, misplaced>>
  BY <1>1, <1>2 DEF local, history
<1>4. Locals'
  <2>1. "initCounter" \in States /\ "enqReadPointer" \in States
    BY DEF States
  <2>2. pc' \in [Threads -> States]
    BY <2>1 DEF Types, InitPointer, InitCounter, Goto
  <2> QED
    BY <1>3, <2>2 DEF Types, Locals
<1>5. \A u \in Threads : Follows(u)'
  <2>1. Follows(t)'
    BY <1>2, <1>3 DEF Types, Follows, Holding
  <2> QED
    BY <1>1, <2>1, OthersFollow
<1>6. Types'
  BY <1>1, <1>3, <1>4, <1>5 DEF Types, Locals
<1>7. \A all : Knows(all, t)'
  <2>1. enq'[t].ctr <= enqueue'.ctr /\ deq'[t].ctr <= dequeue'.ctr
    BY <1>1, <1>3 DEF Knows, ReadsEnqueue, ReadsDequeue
  <2> QED
    BY <1>2, <2>1, KnowsLittle
<1> QED
  BY <1>6, <1>7

\* The link.
LEMMA LinksTypes ==
  ASSUME NEW rows, Types, NEW t \in Threads, Knows(rows, t), Links(t)
  PROVE  Types' /\ \A all : Knows(all, t)'
<1>1. PICK m : m = enq[t].ptr
  OBVIOUS
<1>2. /\ m \in Nodes /\ pc[t] = "enqSwap" /\ pc'[t] = "enqSwing" /\ next'[m].ptr = qe[t]
      /\ next' \in [Nodes -> Pairs] /\ misplaced' = (misplaced \/ ~InList(m))
      /\ UNCHANGED <<enqueue, dequeue, user_data, aba_counter, free, nodes, local, called, refused, delivered>>
      /\ Others(t)
  BY <1>1, LinksWrites
<1>3. UNCHANGED <<qe, enq, deq, nxt, value>>
  BY <1>2 DEF local
<1>4. Locals'
  <2>1. "enqSwing" \in States
    BY DEF States
  <2>2. pc' \in [Threads -> States]
    BY <2>1 DEF Types, Links, Link, Goto
  <2> QED
    BY <1>3, <2>2 DEF Types, Locals
<1>5. \A u \in Threads : Follows(u)'
  <2>1. Follows(t)'
    BY <1>2, <1>3 DEF Types, Follows, Holding, Ready
  <2> QED
    BY <1>2, <2>1, OthersFollow
<1>6. misplaced' \in BOOLEAN
  BY <1>2 DEF Types, InList
<1>7. Types'
  BY <1>2, <1>4, <1>5, <1>6 DEF Types, Locals
<1>8. ReadsEnqueue(t)'
  <2>1. enq'[t].ctr <= enqueue'.ctr
    BY <1>2, <1>3 DEF Knows, ReadsEnqueue
  <2> QED
    BY <1>1, <1>2, <1>3, <2>1 DEF ReadsEnqueue
<1>9. ReadsDequeue(t)'
  <2>1. deq'[t].ctr <= dequeue'.ctr
    BY <1>2, <1>3 DEF Knows, ReadsDequeue
  <2> QED
    BY <1>2, <2>1 DEF ReadsDequeue
<1>10. \A all : Replaces(all, t)'
  BY <1>2 DEF Replaces
<1> QED
  BY <1>7, <1>8, <1>9, <1>10 DEF Knows

\* The dequeue.
LEMMA AdvanceTypes ==
  ASSUME NEW rows, Types, NEW t \in Threads, Knows(rows, t), Advance(t), value[t] \in Values
  PROVE  Types' /\ \A all : Knows(all, t)'
<1>1. /\ pc'[t] = "deqFree" /\ dequeue = deq[t] /\ dequeue'.ctr = dequeue.ctr + 1
      /\ dequeue' \in [ptr : Nodes, ctr : Nat]
      /\ qe'[t] = dequeue.ptr /\ dequeue.ptr \in Nodes
      /\ delivered' = delivered \union {value[t]}
      /\ UNCHANGED <<enqueue, next, user_data, aba_counter, free, nodes, enq, deq, nxt, value,
                     called, refused, misplaced>>
      /\ Others(t)
  BY AdvanceWrites DEF Knows
<1>2. Locals'
  <2>1. "deqFree" \in States
    BY DEF States
  <2>2. pc' \in [Threads -> States]
    BY <2>1 DEF Types, Advance, Goto
  <2>3. qe' \in [Threads -> Nodes \union {Null}]
    <3>1. qe' = [qe EXCEPT ![t] = dequeue.ptr]
      BY <1>1 DEF Advance
    <3> QED
      BY <1>1, <3>1 DEF Types
  <2> QED
    BY <1>1, <2>2, <2>3 DEF Types, Locals
<1>3. \A u \in Threads : Follows(u)'
  <2>1. dequeue.ptr # Null
    BY <1>1 DEF Nodes, Null
  <2>2. Follows(t)'
    BY <1>1, <2>1 DEF Follows
  <2> QED
    BY <1>1, <2>2, OthersFollow
<1>4. Types'
  BY <1>1, <1>2, <1>3 DEF Types, Locals
<1>5. \A all : Knows(all, t)'
  <2>1. enq'[t].ctr <= enqueue'.ctr
    BY <1>1 DEF Knows, ReadsEnqueue
  <2>2. deq'[t].ctr <= dequeue'.ctr
    <3>1. dequeue.ctr \in Nat
      BY DEF Types
    <3> QED
      BY <1>1, <3>1
  <2> QED
    BY <1>1, <2>1, <2>2, KnowsLittle
<1> QED
  BY <1>4, <1>5

\* The return of an element to the freelist.
LEMMA ReturnTypes ==
  ASSUME NEW rows, Types, Shape(rows), NEW t \in Threads, Knows(rows, t), DequeueReturn(t)
  PROVE  Types' /\ \A all : Knows(all, t)'
<1>1. /\ UNCHANGED <<enqueue, dequeue, next, user_data, aba_counter, nodes, history>> /\ Others(t)
  BY ReturnWrites
<1>2. free' \in Seq(Nodes)
  BY ReturnShape
<1>3. Return(t)
  BY DEF DequeueReturn
<1>4. Knows(rows, t)' /\ Locals' /\ Follows(t)'
  BY <1>1, <1>3, ForgetKnows DEF Swings
<1>5. pc'[t] = "idle" /\ enq'[t].ctr = 0 /\ deq'[t].ctr = 0
  BY <1>3, ForgetWrites
<1>6. Types'
  <2>1. \A u \in Threads : Follows(u)'
    BY <1>1, <1>4, OthersFollow
  <2> QED
    BY <1>1, <1>2, <1>4, <2>1 DEF Types, Locals, history
<1>7. \A all : Knows(all, t)'
  <2>1. enq'[t].ctr <= enqueue'.ctr /\ deq'[t].ctr <= dequeue'.ctr
    BY <1>4 DEF Knows, ReadsEnqueue, ReadsDequeue
  <2> QED
    BY <1>5, <2>1, KnowsLittle
<1> QED
  BY <1>6, <1>7

\* An enqueue that finds no element changes nothing but the history.
LEMMA RefusedKeeps ==
  ASSUME NEW rows, Types, NEW t \in Threads, EnqueueRefused(t)
  PROVE  /\ UNCHANGED <<shared, pc, local, delivered, sawEmpty, misplaced>>
         /\ Still /\ Swings /\ Types' /\ \A u \in Threads : Knows(rows, u) => Knows(rows, u)'
         /\ called' = [called EXCEPT ![t] = @ + 1] /\ called[t] + 1 \in 1..MaxCalls
         /\ pc[t] = "idle"
         /\ refused' = refused \union {<<t, called[t] + 1>>} /\ <<t, called[t] + 1>> \in Values
<1>1. /\ pc[t] = "idle" /\ called[t] < MaxCalls
      /\ called' = [called EXCEPT ![t] = @ + 1] /\ refused' = refused \union {<<t, called'[t]>>}
      /\ UNCHANGED <<shared, pc, local, delivered, sawEmpty, misplaced>>
  BY DEF EnqueueRefused, MayCall
<1>2. UNCHANGED <<enqueue, dequeue, next, user_data, aba_counter, free, nodes, pc, qe, enq, deq, nxt, value>>
  BY <1>1 DEF shared, local
<1>3. called[t] + 1 \in 1..MaxCalls /\ called'[t] = called[t] + 1 /\ called' \in [Threads -> 0..MaxCalls]
  <2>1. called[t] \in 0..MaxCalls /\ called \in [Threads -> 0..MaxCalls]
    BY DEF Types
  <2>2. called[t] + 1 \in 1..MaxCalls /\ called[t] + 1 \in 0..MaxCalls
    BY <1>1, <2>1, SizesAssumption
  <2> QED
    BY <1>1, <2>1, <2>2
<1>4. <<t, called[t] + 1>> \in Values
  BY <1>3 DEF Values
<1>5. Still
  BY <1>2 DEF Still, Stays, Preparing, Ready, Holding
<1>6. \A u \in Threads : Follows(u)' <=> Follows(u)
  BY <1>2 DEF Follows, Holding, Preparing, Ready
<1>7. Types'
  BY <1>1, <1>2, <1>3, <1>4, <1>6 DEF Types
<1>8. ASSUME NEW u \in Threads, Knows(rows, u) PROVE Knows(rows, u)'
  <2>1. ReadsEnqueue(u)'
    BY <1>2, <1>8 DEF Knows, ReadsEnqueue
  <2>2. ReadsDequeue(u)'
    BY <1>2, <1>8 DEF Knows, ReadsDequeue
  <2>3. Since(rows, u)' <=> Since(rows, u)
    BY <1>2 DEF Since, In, BeingPrepared, HalfPrepared, Preparing
  <2>4. Replaces(rows, u)'
    BY <1>2, <1>8, <2>3 DEF Knows, Replaces, In
  <2> QED
    BY <2>1, <2>2, <2>4 DEF Knows
<1> QED
  BY <1>1, <1>2, <1>3, <1>4, <1>5, <1>7, <1>8 DEF Swings

-----------------------------------------------------------------------------
(***************************************************************************)
(* Values.                                                                 *)
(***************************************************************************)
\* A call of enqueue has a value that none had before.
LEMMA CallsGrow ==
  ASSUME Types, NEW t \in Threads, called[t] < MaxCalls, called' = [called EXCEPT ![t] = @ + 1],
         NEW p, p = <<t, called[t] + 1>>
  PROVE  /\ ~Called(p) /\ Called(p)' /\ p \in Values
         /\ \A v : Called(v) => Called(v)'
         /\ \A v : Called(v)' => Called(v) \/ v = p
         /\ called'[t] = called[t] + 1 /\ called'[t] # 0
         /\ \A u \in Threads \ {t} : called'[u] = called[u]
<1>1. /\ called \in [Threads -> 0..MaxCalls] /\ called[t] \in Nat /\ MaxCalls \in Nat
  BY SizesAssumption DEF Types
<1>2. /\ called'[t] = called[t] + 1 /\ called[t] + 1 \in 1..MaxCalls
      /\ \A u \in Threads \ {t} : called'[u] = called[u]
  BY <1>1
<1>3. p \in Values /\ p[1] = t /\ p[2] = called[t] + 1
  BY <1>2 DEF Values
<1>4. ~Called(p) /\ Called(p)'
  BY <1>1, <1>2, <1>3 DEF Called
<1>5. ASSUME NEW v PROVE /\ Called(v) => Called(v)'
                         /\ Called(v)' => Called(v) \/ v = p
  <2>1. SUFFICES ASSUME v \in Values PROVE /\ Called(v) => Called(v)'
                                           /\ Called(v)' => Called(v) \/ v = p
    BY DEF Called
  <2>2. v[1] \in Threads /\ v[2] \in Nat /\ v = <<v[1], v[2]>>
    <3>1. v \in Threads \X (1..MaxCalls)
      BY <2>1 DEF Values
    <3>2. v[1] \in Threads /\ v[2] \in 1..MaxCalls /\ v = <<v[1], v[2]>>
      BY <3>1
    <3> QED
      BY <3>2
  <2>3. CASE v[1] # t
    BY <1>2, <2>2, <2>3 DEF Called
  <2>4. CASE v[1] = t
    <3>1. v[2] <= called[t] + 1 => v[2] <= called[t] \/ v[2] = called[t] + 1
      BY <1>1, <2>2
    <3>2. v[2] <= called[t] => v[2] <= called[t] + 1
      BY <1>1, <2>2
    <3>3. v[2] = called[t] + 1 => v = p
      BY <2>2, <2>4
    <3> QED
      BY <1>2, <2>1, <2>4, <3>1, <3>2, <3>3 DEF Called
  <2> QED
    BY <2>3, <2>4
<1>6. called[t] + 1 # 0
  BY <1>1
<1> QED
  BY <1>2, <1>3, <1>4, <1>5, <1>6

\* A step that changes no value, and lets no thread become ready.
SameValues(rows, new) ==
  /\ UNCHANGED <<user_data, called, refused, delivered>>
  /\ \A n : Carries(new, n)' <=> Carries(rows, n)
  /\ \A u \in Threads : /\ Preparing(u)' <=> Preparing(u)
                        /\ Ready(u)' => Ready(u)
                        /\ Preparing(u) \/ Ready(u)' => qe'[u] = qe[u] /\ value'[u] = value[u]

\* Such a step keeps every value where it is.
LEMMA SameKept ==
  ASSUME NEW rows, NEW new, Kept(rows), SameValues(rows, new)
  PROVE  Kept(new)'
<1>2. (\A v \in refused \union delivered : Called(v))'
  BY DEF SameValues, Kept, Called
<1>3. (refused \intersect delivered = {})'
  BY DEF SameValues, Kept
<1>4. (\A n \in Nodes : Carries(new, n) => Called(user_data[n]) /\ ~Out(user_data[n]))'
  <2>1. SUFFICES ASSUME NEW n \in Nodes, Carries(new, n)'
                 PROVE  (Called(user_data[n]) /\ ~Out(user_data[n]))'
    OBVIOUS
  <2>2. Carries(rows, n) /\ UNCHANGED <<user_data, called, refused, delivered>>
    BY <2>1 DEF SameValues
  <2>3. Called(user_data[n]) /\ ~Out(user_data[n])
    BY <2>2 DEF Kept
  <2> QED
    BY <2>2, <2>3 DEF Called, Out
<1>5. (\A m, n \in Nodes : Carries(new, m) /\ Carries(new, n) /\ user_data[m] = user_data[n] => m = n)'
  BY DEF SameValues, Kept
<1>6. ASSUME NEW u \in Threads
      PROVE  (/\ Preparing(u) \/ Ready(u) => value[u] = <<u, called[u]>> /\ called[u] # 0
              /\ Ready(u) => user_data[qe[u]] = value[u]
              /\ Preparing(u) => /\ ~Out(value[u])
                                 /\ \A n \in Nodes : Carries(new, n) => user_data[n] # value[u])'
  <2>1. CASE Preparing(u)'
    <3>1. /\ Preparing(u) /\ UNCHANGED <<user_data, called, refused, delivered>>
          /\ qe'[u] = qe[u] /\ value'[u] = value[u]
      BY <2>1 DEF SameValues
    <3>2. /\ value[u] = <<u, called[u]>> /\ called[u] # 0 /\ ~Out(value[u])
          /\ \A n \in Nodes : Carries(rows, n) => user_data[n] # value[u]
      BY <3>1 DEF Kept
    <3>3. ~Ready(u)'
      BY <2>1 DEF Preparing, Ready
    <3>4. (\A n \in Nodes : Carries(new, n) => user_data[n] # value[u])'
      BY <3>1, <3>2 DEF SameValues
    <3>5. (~Out(value[u]))'
      BY <3>1, <3>2 DEF Out
    <3> QED
      BY <3>1, <3>2, <3>3, <3>4, <3>5
  <2>2. CASE Ready(u)'
    <3>1. Ready(u) /\ UNCHANGED <<user_data, called, refused, delivered>> /\ qe'[u] = qe[u] /\ value'[u] = value[u]
      BY <2>2 DEF SameValues
    <3>2. value[u] = <<u, called[u]>> /\ called[u] # 0 /\ user_data[qe[u]] = value[u]
      BY <3>1 DEF Kept
    <3>3. ~Preparing(u)'
      BY <2>2 DEF Preparing, Ready
    <3> QED
      BY <3>1, <3>2, <3>3
  <2> QED
    BY <2>1, <2>2
<1>7. (\A v \in Values : Called(v) =>
         \/ Out(v)
         \/ \E n \in Nodes : Carries(new, n) /\ user_data[n] = v
         \/ \E u \in Threads : Preparing(u) /\ value[u] = v)'
  <2>1. SUFFICES ASSUME NEW v \in Values, Called(v)'
                 PROVE  \/ Out(v)'
                        \/ \E n \in Nodes : Carries(new, n)' /\ user_data'[n] = v
                        \/ \E u \in Threads : Preparing(u)' /\ value'[u] = v
    OBVIOUS
  <2>2. Called(v) /\ (Out(v) => Out(v)')
    BY <2>1 DEF SameValues, Called, Out
  <2>3. \/ Out(v)
        \/ \E n \in Nodes : Carries(rows, n) /\ user_data[n] = v
        \/ \E u \in Threads : Preparing(u) /\ value[u] = v
    BY <2>2 DEF Kept
  <2> QED
    BY <2>2, <2>3 DEF SameValues
<1> QED
  BY <1>2, <1>3, <1>4, <1>5, <1>6, <1>7 DEF Kept

\* A new call: its value is refused, or prepared by its thread.
LEMMA RefusedKept ==
  ASSUME NEW rows, Types, Kept(rows), NEW t \in Threads, EnqueueRefused(t)
  PROVE  Kept(rows)'
<1>1. PICK p : p = <<t, called[t] + 1>>
  OBVIOUS
<1>2. /\ UNCHANGED <<pc, qe, value, user_data, delivered>> /\ pc[t] = "idle" /\ called[t] < MaxCalls
      /\ called' = [called EXCEPT ![t] = @ + 1]
  BY DEF EnqueueRefused, MayCall, shared, local
<1>3. /\ ~Called(p) /\ Called(p)' /\ p \in Values
      /\ \A v : Called(v) => Called(v)'
      /\ \A v : Called(v)' => Called(v) \/ v = p
      /\ called'[t] = called[t] + 1 /\ called'[t] # 0
      /\ \A u \in Threads \ {t} : called'[u] = called[u]
  BY <1>1, <1>2, CallsGrow
<1>4. refused' = refused \union {p}
  BY <1>1, <1>3 DEF EnqueueRefused
<1>5. \A n : Carries(rows, n)' <=> Carries(rows, n)
  BY <1>2 DEF Carries, Ready
<1>6. \A v : Out(v)' <=> Out(v) \/ v = p
  BY <1>2, <1>4 DEF Out
<1>7. ~Out(p)
  BY <1>3 DEF Kept, Out
<1>8. (\A v \in refused \union delivered : Called(v))'
  BY <1>2, <1>3, <1>4 DEF Kept
<1>9. (refused \intersect delivered = {})'
  BY <1>2, <1>4, <1>7 DEF Kept, Out
<1>10. (\A n \in Nodes : Carries(rows, n) => Called(user_data[n]) /\ ~Out(user_data[n]))'
  <2>1. SUFFICES ASSUME NEW n \in Nodes, Carries(rows, n)' PROVE (Called(user_data[n]) /\ ~Out(user_data[n]))'
    OBVIOUS
  <2>2. PICK d : d = user_data[n]
    OBVIOUS
  <2>3. Called(d) /\ ~Out(d) /\ user_data'[n] = d
    BY <1>2, <1>5, <2>1, <2>2 DEF Kept
  <2>4. Called(d)' /\ ~Out(d)'
    BY <1>3, <1>6, <2>3
  <2> QED
    BY <2>3, <2>4 DEF Called, Out
<1>11. (\A m, n \in Nodes : Carries(rows, m) /\ Carries(rows, n) /\ user_data[m] = user_data[n] => m = n)'
  BY <1>2, <1>5 DEF Kept
<1>12. ASSUME NEW u \in Threads
       PROVE  (/\ Preparing(u) \/ Ready(u) => value[u] = <<u, called[u]>> /\ called[u] # 0
               /\ Ready(u) => user_data[qe[u]] = value[u]
               /\ Preparing(u) => /\ ~Out(value[u])
                                  /\ \A n \in Nodes : Carries(rows, n) => user_data[n] # value[u])'
  <2>1. SUFFICES ASSUME (Preparing(u) \/ Ready(u))'
                 PROVE  (/\ value[u] = <<u, called[u]>> /\ called[u] # 0
                         /\ Ready(u) => user_data[qe[u]] = value[u]
                         /\ Preparing(u) => /\ ~Out(value[u])
                                            /\ \A n \in Nodes : Carries(rows, n) => user_data[n] # value[u])'
    OBVIOUS
  <2>2. u # t /\ called'[u] = called[u] /\ (Preparing(u)' <=> Preparing(u)) /\ (Ready(u)' <=> Ready(u))
    BY <1>2, <1>3, <2>1 DEF Preparing, Ready
  <2>3. PICK d : d = value[u]
    OBVIOUS
  <2>4. /\ d = <<u, called[u]>> /\ called[u] # 0 /\ (Ready(u) => user_data[qe[u]] = d)
        /\ Preparing(u) => ~Out(d) /\ \A n \in Nodes : Carries(rows, n) => user_data[n] # d
    BY <2>1, <2>2, <2>3 DEF Kept
  <2>5. d # p
    BY <1>1, <2>2, <2>4
  <2>6. value'[u] = d /\ UNCHANGED <<user_data, qe>>
    BY <1>2, <2>3
  <2>7. Preparing(u)' => ~Out(d)'
    BY <1>6, <2>2, <2>4, <2>5
  <2>8. Preparing(u)' => (~Out(value[u]))'
    BY <2>6, <2>7 DEF Out
  <2> QED
    BY <1>5, <2>2, <2>4, <2>6, <2>8
<1>13. (\A v \in Values : Called(v) =>
          \/ Out(v)
          \/ \E n \in Nodes : Carries(rows, n) /\ user_data[n] = v
          \/ \E u \in Threads : Preparing(u) /\ value[u] = v)'
  <2>1. SUFFICES ASSUME NEW v \in Values, Called(v)', v # p
                 PROVE  \/ Out(v)'
                        \/ \E n \in Nodes : Carries(rows, n)' /\ user_data'[n] = v
                        \/ \E u \in Threads : Preparing(u)' /\ value'[u] = v
    BY <1>6
  <2>2. \/ Out(v)
        \/ \E n \in Nodes : Carries(rows, n) /\ user_data[n] = v
        \/ \E u \in Threads : Preparing(u) /\ value[u] = v
    BY <1>3, <2>1 DEF Kept
  <2>3. \A u \in Threads : Preparing(u)' <=> Preparing(u)
    BY <1>2 DEF Preparing
  <2> QED
    BY <1>2, <1>5, <1>6, <2>2, <2>3
<1> QED
  BY <1>8, <1>9, <1>10, <1>11, <1>12, <1>13 DEF Kept

\* The new value is with its thread, and nowhere else.
LEMMA TakesKept ==
  ASSUME NEW rows, NEW new, Types, Kept(rows), NEW t \in Threads, NEW n, Takes(t, n),
         \A m : Carries(new, m)' <=> Carries(rows, m)
  PROVE  Kept(new)'
<1>1. PICK p : p = <<t, called[t] + 1>>
  OBVIOUS
<1>2. /\ UNCHANGED <<user_data, refused, delivered>> /\ pc[t] = "idle" /\ pc'[t] = "initPointer"
      /\ called[t] < MaxCalls /\ called' = [called EXCEPT ![t] = @ + 1] /\ Others(t)
  BY TakesWrites DEF Takes, Take
<1>3. /\ ~Called(p) /\ Called(p)' /\ p \in Values
      /\ \A v : Called(v) => Called(v)'
      /\ \A v : Called(v)' => Called(v) \/ v = p
      /\ called'[t] = called[t] + 1 /\ called'[t] # 0
      /\ \A u \in Threads \ {t} : called'[u] = called[u]
  BY <1>1, <1>2, CallsGrow
<1>4. value'[t] = p
  BY <1>1, <1>3 DEF Takes, Take, Types
<1>5. \A v : Out(v)' <=> Out(v)
  BY <1>2 DEF Out
<1>6. ~Out(p) /\ \A m \in Nodes : Carries(rows, m) => user_data[m] # p
  <2>1. ~Out(p)
    BY <1>3 DEF Kept, Out
  <2>2. ASSUME NEW m \in Nodes, Carries(rows, m), user_data[m] = p PROVE FALSE
    <3>1. Called(user_data[m])
      BY <2>2 DEF Kept
    <3> QED
      BY <1>3, <2>2, <3>1 DEF Called
  <2> QED
    BY <2>1, <2>2
<1>7. Preparing(t)' /\ ~Ready(t)' /\ ~Preparing(t)
  BY <1>2 DEF Preparing, Ready
<1>8. (\A v \in refused \union delivered : Called(v))'
  BY <1>2, <1>3 DEF Kept
<1>9. (refused \intersect delivered = {})'
  BY <1>2 DEF Kept
<1>10. (\A m \in Nodes : Carries(new, m) => Called(user_data[m]) /\ ~Out(user_data[m]))'
  <2>1. SUFFICES ASSUME NEW m \in Nodes, Carries(new, m)' PROVE (Called(user_data[m]) /\ ~Out(user_data[m]))'
    OBVIOUS
  <2>2. PICK d : d = user_data[m]
    OBVIOUS
  <2>3. Called(d) /\ ~Out(d) /\ user_data'[m] = d
    BY <1>2, <2>1, <2>2 DEF Kept
  <2>4. Called(d)' /\ ~Out(d)'
    BY <1>3, <1>5, <2>3
  <2> QED
    BY <2>3, <2>4 DEF Called, Out
<1>11. (\A m, k \in Nodes : Carries(new, m) /\ Carries(new, k) /\ user_data[m] = user_data[k] => m = k)'
  BY <1>2 DEF Kept
<1>12. ASSUME NEW u \in Threads
       PROVE  (/\ Preparing(u) \/ Ready(u) => value[u] = <<u, called[u]>> /\ called[u] # 0
               /\ Ready(u) => user_data[qe[u]] = value[u]
               /\ Preparing(u) => /\ ~Out(value[u])
                                  /\ \A m \in Nodes : Carries(new, m) => user_data[m] # value[u])'
  <2>1. CASE u = t
    <3>1. ~Out(p)'
      BY <1>5, <1>6
    <3>2. (~Out(value[t]))'
      BY <1>4, <3>1 DEF Out
    <3>3. (\A m \in Nodes : Carries(new, m) => user_data[m] # value[t])'
      BY <1>2, <1>4, <1>6
    <3> QED
      BY <1>1, <1>3, <1>4, <1>7, <2>1, <3>2, <3>3
  <2>2. ASSUME u # t, (Preparing(u) \/ Ready(u))'
        PROVE  (/\ value[u] = <<u, called[u]>> /\ called[u] # 0
                /\ Ready(u) => user_data[qe[u]] = value[u]
                /\ Preparing(u) => /\ ~Out(value[u])
                                   /\ \A m \in Nodes : Carries(new, m) => user_data[m] # value[u])'
    <3>1. /\ called'[u] = called[u] /\ (Preparing(u)' <=> Preparing(u)) /\ (Ready(u)' <=> Ready(u))
          /\ value'[u] = value[u] /\ qe'[u] = qe[u]
      BY <1>2, <1>3, <2>2 DEF Others, Preparing, Ready
    <3>2. PICK d : d = value[u]
      OBVIOUS
    <3>3. /\ d = <<u, called[u]>> /\ called[u] # 0 /\ (Ready(u) => user_data[qe[u]] = d)
          /\ Preparing(u) => ~Out(d) /\ \A m \in Nodes : Carries(rows, m) => user_data[m] # d
      BY <2>2, <3>1, <3>2 DEF Kept
    <3>4. Preparing(u)' => (~Out(value[u]))'
      BY <1>2, <3>1, <3>2, <3>3 DEF Out
    <3> QED
      BY <1>2, <3>1, <3>2, <3>3, <3>4
  <2> QED
    BY <2>1, <2>2
<1>13. (\A v \in Values : Called(v) =>
          \/ Out(v)
          \/ \E m \in Nodes : Carries(new, m) /\ user_data[m] = v
          \/ \E u \in Threads : Preparing(u) /\ value[u] = v)'
  <2>1. SUFFICES ASSUME NEW v \in Values, Called(v)', v # p
                 PROVE  \/ Out(v)'
                        \/ \E m \in Nodes : Carries(new, m)' /\ user_data'[m] = v
                        \/ \E u \in Threads : Preparing(u)' /\ value'[u] = v
    BY <1>4, <1>7
  <2>2. \/ Out(v)
        \/ \E m \in Nodes : Carries(rows, m) /\ user_data[m] = v
        \/ \E u \in Threads : Preparing(u) /\ value[u] = v
    BY <1>3, <2>1 DEF Kept
  <2>3. \A u \in Threads : Preparing(u) => Preparing(u)' /\ value'[u] = value[u]
    BY <1>2, <1>7 DEF Others, Preparing
  <2> QED
    BY <1>2, <1>5, <2>2, <2>3
<1> QED
  BY <1>8, <1>9, <1>10, <1>11, <1>12, <1>13 DEF Kept

\* The value gets into its element: from now on, the element carries it.
LEMMA InitCounterKept ==
  ASSUME NEW rows, Types, Shape(rows), Kept(rows), NEW t \in Threads, InitCounter(t)
  PROVE  Kept(rows)'
<1>1. PICK e : e = qe[t]
  OBVIOUS
<1>2. PICK p : p = value[t]
  OBVIOUS
<1>3. /\ e \in Nodes /\ pc[t] = "initCounter" /\ pc'[t] = "enqReadPointer"
      /\ user_data'[e] = p /\ \A n \in Nodes \ {e} : user_data'[n] = user_data[n]
      /\ UNCHANGED <<qe, value, history>> /\ Others(t)
  BY <1>1, <1>2, InitCounterWrites
<1>4. UNCHANGED <<called, refused, delivered>>
  BY <1>3 DEF history
<1>5. Preparing(t) /\ ~Ready(t) /\ Ready(t)' /\ ~Preparing(t)'
  BY <1>3 DEF Preparing, Ready
<1>6. ~Carries(rows, e)
  BY <1>1, <1>5, FirstOfRow DEF Holding
<1>7. \A n : Carries(rows, n)' <=> Carries(rows, n) \/ n = e
  BY <1>1, InitCounterShape
<1>8. /\ p = <<t, called[t]>> /\ called[t] # 0 /\ ~Out(p)
      /\ \A n \in Nodes : Carries(rows, n) => user_data[n] # p
  BY <1>2, <1>5 DEF Kept
<1>9. Called(p)
  <2>1. called[t] \in 0..MaxCalls /\ MaxCalls \in Nat
    BY SizesAssumption DEF Types
  <2>2. called[t] \in 1..MaxCalls /\ called[t] <= called[t]
    BY <1>8, <2>1
  <2>3. p[1] = t /\ p[2] = called[t]
    BY <1>8
  <2> QED
    BY <1>8, <2>2, <2>3 DEF Called, Values
<1>10. \A v : (Called(v)' <=> Called(v)) /\ (Out(v)' <=> Out(v))
  BY <1>4 DEF Called, Out
<1>11. (\A v \in refused \union delivered : Called(v))'
  BY <1>4, <1>10 DEF Kept
<1>12. (refused \intersect delivered = {})'
  BY <1>4 DEF Kept
<1>13. (\A n \in Nodes : Carries(rows, n) => Called(user_data[n]) /\ ~Out(user_data[n]))'
  <2>1. SUFFICES ASSUME NEW n \in Nodes, Carries(rows, n)' PROVE (Called(user_data[n]) /\ ~Out(user_data[n]))'
    OBVIOUS
  <2>2. PICK d : d = user_data'[n]
    OBVIOUS
  <2>3. Called(d) /\ ~Out(d)
    <3>1. CASE n = e
      BY <1>3, <1>8, <1>9, <2>2, <3>1
    <3>2. CASE n # e
      BY <1>3, <1>7, <2>1, <2>2, <3>2 DEF Kept
    <3> QED
      BY <3>1, <3>2
  <2>4. Called(d)' /\ ~Out(d)'
    BY <1>10, <2>3
  <2> QED
    BY <2>2, <2>4 DEF Called, Out
<1>14. (\A m, n \in Nodes : Carries(rows, m) /\ Carries(rows, n) /\ user_data[m] = user_data[n] => m = n)'
  <2>1. SUFFICES ASSUME NEW m \in Nodes, NEW n \in Nodes, Carries(rows, m)', Carries(rows, n)',
                        user_data'[m] = user_data'[n]
                 PROVE  m = n
    OBVIOUS
  <2>2. CASE m = e \/ n = e
    BY <1>3, <1>7, <1>8, <2>1, <2>2
  <2>3. CASE m # e /\ n # e
    BY <1>3, <1>7, <2>1, <2>3 DEF Kept
  <2> QED
    BY <2>2, <2>3
<1>15. ASSUME NEW u \in Threads
       PROVE  (/\ Preparing(u) \/ Ready(u) => value[u] = <<u, called[u]>> /\ called[u] # 0
               /\ Ready(u) => user_data[qe[u]] = value[u]
               /\ Preparing(u) => /\ ~Out(value[u])
                                  /\ \A n \in Nodes : Carries(rows, n) => user_data[n] # value[u])'
  <2>1. CASE u = t
    BY <1>1, <1>2, <1>3, <1>4, <1>5, <1>8, <2>1
  <2>2. ASSUME u # t, (Preparing(u) \/ Ready(u))'
        PROVE  (/\ value[u] = <<u, called[u]>> /\ called[u] # 0
                /\ Ready(u) => user_data[qe[u]] = value[u]
                /\ Preparing(u) => /\ ~Out(value[u])
                                   /\ \A n \in Nodes : Carries(rows, n) => user_data[n] # value[u])'
    <3>1. (Preparing(u)' <=> Preparing(u)) /\ (Ready(u)' <=> Ready(u))
      BY <1>3, <2>2 DEF Others, Preparing, Ready
    <3>2. PICK d : d = value[u]
      OBVIOUS
    <3>3. /\ d = <<u, called[u]>> /\ called[u] # 0 /\ (Ready(u) => user_data[qe[u]] = d)
          /\ Preparing(u) => ~Out(d) /\ \A n \in Nodes : Carries(rows, n) => user_data[n] # d
      BY <2>2, <3>1, <3>2 DEF Kept
    <3>4. value'[u] = d /\ called'[u] = called[u] /\ qe'[u] = qe[u]
      BY <1>3, <1>4, <3>2
    <3>5. d # p
      BY <1>8, <2>2, <3>3
    <3>6. Ready(u)' => user_data'[qe'[u]] = d
      <4>1. SUFFICES ASSUME Ready(u) PROVE user_data'[qe[u]] = d
        BY <3>1, <3>4
      <4>2. qe[u] \in Nodes
        BY <4>1 DEF Types, Follows, Holding
      <4>3. Carries(rows, qe[u])
        BY <4>1 DEF Carries
      <4>4. qe[u] # e
        BY <1>6, <4>3
      <4> QED
        BY <1>3, <3>3, <4>1, <4>2, <4>4
    <3>7. Preparing(u)' => (~Out(value[u]))'
      BY <1>4, <3>1, <3>3, <3>4 DEF Out
    <3>8. Preparing(u)' => \A n \in Nodes : Carries(rows, n)' => user_data'[n] # d
      BY <1>3, <1>7, <3>1, <3>3, <3>5
    <3> QED
      BY <3>3, <3>4, <3>6, <3>7, <3>8
  <2> QED
    BY <2>1, <2>2
<1>16. (\A v \in Values : Called(v) =>
          \/ Out(v)
          \/ \E n \in Nodes : Carries(rows, n) /\ user_data[n] = v
          \/ \E u \in Threads : Preparing(u) /\ value[u] = v)'
  <2>1. SUFFICES ASSUME NEW v \in Values, Called(v)', v # p
                 PROVE  \/ Out(v)'
                        \/ \E n \in Nodes : Carries(rows, n)' /\ user_data'[n] = v
                        \/ \E u \in Threads : Preparing(u)' /\ value'[u] = v
    BY <1>3, <1>7
  <2>2. \/ Out(v)
        \/ \E n \in Nodes : Carries(rows, n) /\ user_data[n] = v
        \/ \E u \in Threads : Preparing(u) /\ value[u] = v
    BY <1>10, <2>1 DEF Kept
  <2>3. \A u \in Threads \ {t} : Preparing(u) => Preparing(u)' /\ value'[u] = value[u]
    BY <1>3 DEF Others, Preparing
  <2>4. ASSUME NEW n \in Nodes, Carries(rows, n) PROVE Carries(rows, n)' /\ user_data'[n] = user_data[n]
    BY <1>3, <1>6, <1>7, <2>4
  <2> QED
    BY <1>2, <1>10, <2>1, <2>2, <2>3, <2>4
<1> QED
  BY <1>11, <1>12, <1>13, <1>14, <1>15, <1>16 DEF Kept

\* The value is delivered: its element does not carry it any more.
LEMMA AdvanceKept ==
  ASSUME NEW rows, NEW new, Types, Shape(rows), Kept(rows), NEW t \in Threads, Advance(t), ReadsDequeue(t),
         \A n : Carries(new, n)' <=> Carries(rows, n) /\ n # nxt[t].ptr
  PROVE  Kept(new)' /\ value[t] \in Values
<1>1. PICK e : e = nxt[t].ptr
  OBVIOUS
<1>2. PICK p : p = value[t]
  OBVIOUS
<1>3. /\ pc[t] = "deqSwap" /\ pc'[t] = "deqFree" /\ e \in Nodes /\ next[dequeue.ptr].ptr = e
      /\ delivered' = delivered \union {p} /\ p = user_data[e]
      /\ UNCHANGED <<user_data, value, called, refused>> /\ Others(t)
  BY <1>1, <1>2, AdvanceWrites
<1>4. Carries(rows, e)
  <2>1. In(rows, Queue, dequeue.ptr)
    BY QueueHead
  <2> QED
    BY <1>3, <2>1, NextInList DEF Nodes, Null
<1>5. Called(p) /\ ~Out(p) /\ \A n \in Nodes : Carries(rows, n) /\ user_data[n] = p => n = e
  BY <1>3, <1>4 DEF Kept
<1>6. p \in Values
  BY <1>5 DEF Called
<1>7. (\A v : Called(v)' <=> Called(v)) /\ (\A v : Out(v)' <=> Out(v) \/ v = p)
  BY <1>3 DEF Called, Out
<1>8. \A u \in Threads : (Preparing(u)' <=> Preparing(u)) /\ (Ready(u)' <=> Ready(u))
  BY <1>3 DEF Others, Preparing, Ready
<1>9. \A u \in Threads : Preparing(u) \/ Ready(u) => qe'[u] = qe[u]
  BY <1>3 DEF Others, Preparing, Ready
<1>10. \A n : Carries(new, n)' <=> Carries(rows, n) /\ n # e
  BY <1>1
<1>11. (\A v \in refused \union delivered : Called(v))'
  BY <1>3, <1>5, <1>7 DEF Kept
<1>12. (refused \intersect delivered = {})'
  BY <1>3, <1>5 DEF Kept, Out
<1>13. (\A n \in Nodes : Carries(new, n) => Called(user_data[n]) /\ ~Out(user_data[n]))'
  <2>1. SUFFICES ASSUME NEW n \in Nodes, Carries(new, n)' PROVE (Called(user_data[n]) /\ ~Out(user_data[n]))'
    OBVIOUS
  <2>2. PICK d : d = user_data[n]
    OBVIOUS
  <2>3. Called(d) /\ ~Out(d) /\ d # p
    BY <1>5, <1>10, <2>1, <2>2 DEF Kept
  <2>4. Called(d)' /\ ~Out(d)'
    BY <1>7, <2>3
  <2> QED
    BY <1>3, <2>2, <2>4 DEF Called, Out
<1>14. (\A m, n \in Nodes : Carries(new, m) /\ Carries(new, n) /\ user_data[m] = user_data[n] => m = n)'
  BY <1>3, <1>10 DEF Kept
<1>15. ASSUME NEW u \in Threads
       PROVE  (/\ Preparing(u) \/ Ready(u) => value[u] = <<u, called[u]>> /\ called[u] # 0
               /\ Ready(u) => user_data[qe[u]] = value[u]
               /\ Preparing(u) => /\ ~Out(value[u])
                                  /\ \A n \in Nodes : Carries(new, n) => user_data[n] # value[u])'
  <2>1. SUFFICES ASSUME (Preparing(u) \/ Ready(u))'
        PROVE  (/\ value[u] = <<u, called[u]>> /\ called[u] # 0
                /\ Ready(u) => user_data[qe[u]] = value[u]
                /\ Preparing(u) => /\ ~Out(value[u])
                                   /\ \A n \in Nodes : Carries(new, n) => user_data[n] # value[u])'
    OBVIOUS
  <2>2. PICK d : d = value[u]
    OBVIOUS
  <2>3. /\ d = <<u, called[u]>> /\ called[u] # 0 /\ (Ready(u) => user_data[qe[u]] = d)
        /\ Preparing(u) => ~Out(d) /\ \A n \in Nodes : Carries(rows, n) => user_data[n] # d
    BY <1>8, <2>1, <2>2 DEF Kept
  <2>4. Preparing(u) => d # p
    BY <1>3, <1>4, <2>3
  <2>5. Preparing(u)' => ~Out(d)'
    BY <1>7, <1>8, <2>3, <2>4
  <2>6. Preparing(u)' => (~Out(value[u]))'
    BY <1>3, <2>2, <2>5 DEF Out
  <2>7. Preparing(u)' => \A n \in Nodes : Carries(new, n)' => user_data'[n] # d
    BY <1>3, <1>8, <1>10, <2>3
  <2>8. Ready(u)' => user_data'[qe'[u]] = d
    BY <1>3, <1>8, <1>9, <2>3
  <2> QED
    BY <1>3, <2>2, <2>3, <2>6, <2>7, <2>8
<1>16. (\A v \in Values : Called(v) =>
          \/ Out(v)
          \/ \E n \in Nodes : Carries(new, n) /\ user_data[n] = v
          \/ \E u \in Threads : Preparing(u) /\ value[u] = v)'
  <2>1. SUFFICES ASSUME NEW v \in Values, Called(v)', v # p
                 PROVE  \/ Out(v)'
                        \/ \E n \in Nodes : Carries(new, n)' /\ user_data'[n] = v
                        \/ \E u \in Threads : Preparing(u)' /\ value'[u] = v
    BY <1>7
  <2>2. \/ Out(v)
        \/ \E n \in Nodes : Carries(rows, n) /\ user_data[n] = v
        \/ \E u \in Threads : Preparing(u) /\ value[u] = v
    BY <1>7, <2>1 DEF Kept
  <2> QED
    BY <1>3, <1>7, <1>8, <1>10, <2>1, <2>2
<1> QED
  BY <1>2, <1>6, <1>11, <1>12, <1>13, <1>14, <1>15, <1>16 DEF Kept

-----------------------------------------------------------------------------
(***************************************************************************)
(* The dequeues that have found the queue empty.                           *)
(***************************************************************************)
Checks(u) == pc[u] \in {"deqCheckPointer", "deqCheckCounter", "deqState"}

\* A step that lets no dequeue go on, and does not make the queue empty.
SameDequeues(rows, new) ==
  /\ UNCHANGED <<sawEmpty, dequeue>>
  /\ Len(new[Queue]) = 1 => Len(rows[Queue]) = 1
  /\ \A u \in Threads : /\ (u \in Waiting)' <=> u \in Waiting
                        /\ Checks(u)' => pc'[u] = pc[u] /\ deq'[u] = deq[u] /\ nxt'[u] = nxt[u]
  /\ ~misplaced' => \A u \in Threads : Len(new[u]) <= 1

\* Such a step keeps what the dequeues have seen.
LEMMA SameEmptied ==
  ASSUME NEW rows, NEW new, Emptied(rows), SameDequeues(rows, new)
  PROVE  Emptied(new)'
<1>1. Waiting' = Waiting
  BY DEF SameDequeues, Waiting
<1>2. (Len(new[Queue]) = 1 => Waiting \subseteq sawEmpty)' /\ (sawEmpty \subseteq Waiting)'
  BY <1>1 DEF SameDequeues, Emptied
<1>3. ASSUME NEW u \in Threads
      PROVE  (/\ pc[u] \in {"deqCheckPointer", "deqCheckCounter"} /\ dequeue = deq[u] /\ nxt[u].ptr = Null
                   => u \in sawEmpty
              /\ pc[u] = "deqState" /\ nxt[u].ptr = Null => u \in sawEmpty)'
  BY DEF SameDequeues, Emptied, Checks
<1>4. (~misplaced => \A u \in Threads : Len(new[u]) <= 1)'
  BY DEF SameDequeues
<1> QED
  BY <1>2, <1>3, <1>4 DEF Emptied

\* The steps of the others change nothing for a dequeue.
LEMMA OthersWait ==
  ASSUME NEW t \in Threads, Others(t), NEW u \in Threads \ {t}
  PROVE  /\ (u \in Waiting)' <=> u \in Waiting
         /\ Checks(u)' <=> Checks(u)
         /\ pc'[u] = pc[u] /\ deq'[u] = deq[u] /\ nxt'[u] = nxt[u]
BY DEF Others, Waiting, Checks

\* An enqueue that takes an element does nothing to the dequeues.
LEMMA TakesEmptied ==
  ASSUME NEW rows, Types, Shape(rows), Emptied(rows), NEW t \in Threads, NEW n, Takes(t, n)
  PROVE  Emptied([rows EXCEPT ![t] = <<n>>])'
<1> DEFINE new == [rows EXCEPT ![t] = <<n>>]
<1>1. pc[t] = "idle" /\ pc'[t] = "initPointer" /\ Others(t) /\ UNCHANGED <<dequeue, sawEmpty, misplaced>>
  BY TakesWrites DEF Takes, Take
<1>2. (\A q \in Owners \ {t} : new[q] = rows[q]) /\ Len(new[t]) <= 1
  <2>1. \A q \in Owners \ {t} : new[q] = rows[q]
    BY TakesShape
  <2>2. new[t] = <<n>>
    BY QueueIsOwner DEF Shape, Rows
  <2>3. Len(<<n>>) <= 1
    OBVIOUS
  <2> QED
    BY <2>1, <2>2, <2>3
<1> HIDE DEF new
<1>3. (t \in Waiting)' <=> t \in Waiting
  BY <1>1 DEF Waiting
<1>4. ~Checks(t)'
  BY <1>1 DEF Checks
<1>5. new[Queue] = rows[Queue] /\ \A u \in Threads \ {t} : new[u] = rows[u]
  BY <1>2, QueueIsOwner
<1>6. SameDequeues(rows, new)
  <2>1. \A u \in Threads : /\ (u \in Waiting)' <=> u \in Waiting
                           /\ Checks(u)' => pc'[u] = pc[u] /\ deq'[u] = deq[u] /\ nxt'[u] = nxt[u]
    BY <1>1, <1>3, <1>4, OthersWait
  <2>2. ASSUME ~misplaced', NEW u \in Threads PROVE Len(new[u]) <= 1
    <3>1. CASE u = t
      BY <1>2, <3>1
    <3>2. CASE u # t
      BY <1>1, <1>5, <2>2, <3>2 DEF Emptied
    <3> QED
      BY <3>1, <3>2
  <2> QED
    BY <1>1, <1>5, <2>1, <2>2 DEF SameDequeues
<1>7. Emptied(new)'
  BY <1>6, SameEmptied
<1> QED
  BY <1>7 DEF new

\* Neither does one that is refused.
LEMMA RefusedEmptied ==
  ASSUME NEW rows, Emptied(rows), UNCHANGED <<shared, pc, local, sawEmpty, misplaced>>
  PROVE  Emptied(rows)'
BY DEF Emptied, Waiting, shared, local

\* Nor one that prepares its element.
LEMMA InitEmptied ==
  ASSUME NEW rows, Types, Emptied(rows), NEW t \in Threads, InitPointer(t) \/ InitCounter(t)
  PROVE  Emptied(rows)'
<1>1. /\ pc[t] \in {"initPointer", "initCounter"} /\ pc'[t] \in {"initCounter", "enqReadPointer"}
      /\ Others(t) /\ UNCHANGED <<dequeue, sawEmpty, misplaced>>
  BY InitPointerWrites, InitCounterWrites DEF history
<1>2. ((t \in Waiting)' <=> t \in Waiting) /\ ~Checks(t)'
  BY <1>1 DEF Waiting, Checks
<1>3. SameDequeues(rows, rows)
  <2>1. \A u \in Threads : /\ (u \in Waiting)' <=> u \in Waiting
                           /\ Checks(u)' => pc'[u] = pc[u] /\ deq'[u] = deq[u] /\ nxt'[u] = nxt[u]
    BY <1>1, <1>2, OthersWait
  <2> QED
    BY <1>1, <2>1 DEF SameDequeues, Emptied
<1> QED
  BY <1>3, SameEmptied

\* As long as no element has been linked behind one outside the queue, every row but the list is of
\* one element.
LEMMA LinksEmptied ==
  ASSUME NEW rows, Types, Shape(rows), Emptied(rows), NEW t \in Threads, Links(t), NEW o, LinksTo(rows, t, o)
  PROVE  Emptied(Join(rows, o, t))'
<1> DEFINE new == Join(rows, o, t)
<1>1. PICK m : m = enq[t].ptr
  OBVIOUS
<1>2. /\ m \in Nodes /\ pc[t] = "enqSwap" /\ pc'[t] = "enqSwing" /\ misplaced' = (misplaced \/ ~InList(m))
      /\ UNCHANGED <<dequeue, sawEmpty>> /\ Others(t)
  BY <1>1, LinksWrites
<1>3. /\ o \in Owners /\ o # t /\ t \in Owners /\ Queue \in Owners /\ t # Queue /\ Rows(rows)
      /\ In(rows, o, m) /\ Open(o)
  BY <1>1, QueueIsOwner DEF LinksTo, Shape
<1>4. rows[t] # <<>>
  BY <1>1, <1>3, LinksShape
<1>5. IsJoin(rows, o, t, new)
  BY <1>3, JoinedRows
<1> HIDE DEF new
<1>6. Len(rows[t]) \in Nat \ {0} /\ Len(rows[Queue]) \in Nat \ {0}
  BY <1>3, <1>4, RowTypes, QueueHead
<1>7. Len(new[Queue]) = 1 => Len(rows[Queue]) = 1
  <2>1. CASE o = Queue
    <3>1. Len(new[Queue]) = Len(rows[Queue]) + Len(rows[t])
      BY <1>5, <2>1 DEF IsJoin
    <3>2. \A a \in Nat \ {0}, b \in Nat \ {0} : a + b # 1
      OBVIOUS
    <3> QED
      BY <1>6, <3>1, <3>2
  <2>2. CASE o # Queue
    BY <1>3, <1>5, <2>2 DEF IsJoin
  <2> QED
    BY <2>1, <2>2
<1>8. ASSUME ~misplaced', NEW u \in Threads PROVE Len(new[u]) <= 1
  <2>1. ~misplaced /\ InList(m)
    BY <1>2, <1>8
  <2>2. In(rows, Queue, m)
    BY <2>1, QueueIsList
  <2>3. o = Queue
    BY <1>3, <2>2, OneRow
  <2>4. u \in Owners /\ u # o
    BY <2>3, QueueIsOwner
  <2>5. CASE u = t
    <3>1. new[u] = <<>>
      BY <1>5, <2>5 DEF IsJoin
    <3> QED
      BY <3>1
  <2>6. CASE u # t
    BY <1>5, <2>1, <2>4, <2>6 DEF IsJoin, Emptied
  <2> QED
    BY <2>5, <2>6
<1>9. ((t \in Waiting)' <=> t \in Waiting) /\ ~Checks(t)'
  BY <1>2 DEF Waiting, Checks
<1>10. SameDequeues(rows, new)
  <2>1. \A u \in Threads : /\ (u \in Waiting)' <=> u \in Waiting
                           /\ Checks(u)' => pc'[u] = pc[u] /\ deq'[u] = deq[u] /\ nxt'[u] = nxt[u]
    BY <1>2, <1>9, OthersWait
  <2> QED
    BY <1>2, <1>7, <1>8, <2>1 DEF SameDequeues
<1>11. Emptied(new)'
  BY <1>10, SameEmptied
<1> QED
  BY <1>11 DEF new

\* Nor does a dequeue that gives its element back.
LEMMA ReturnEmptied ==
  ASSUME NEW rows, Types, Shape(rows), Emptied(rows), NEW t \in Threads, DequeueReturn(t)
  PROVE  Emptied([rows EXCEPT ![t] = <<>>])'
<1> DEFINE new == [rows EXCEPT ![t] = <<>>]
<1>1. /\ pc[t] = "deqFree" /\ pc'[t] = "idle" /\ Others(t) /\ UNCHANGED <<dequeue, sawEmpty, misplaced>>
  BY ReturnWrites DEF history
<1>2. (\A q \in Owners \ {t} : new[q] = rows[q]) /\ new[t] = <<>>
  BY ReturnShape
<1> HIDE DEF new
<1>3. Len(new[t]) <= 1
  BY <1>2
<1>4. ((t \in Waiting)' <=> t \in Waiting) /\ ~Checks(t)'
  BY <1>1 DEF Waiting, Checks
<1>5. new[Queue] = rows[Queue] /\ \A u \in Threads \ {t} : new[u] = rows[u]
  BY <1>2, QueueIsOwner
<1>6. SameDequeues(rows, new)
  <2>1. \A u \in Threads : /\ (u \in Waiting)' <=> u \in Waiting
                           /\ Checks(u)' => pc'[u] = pc[u] /\ deq'[u] = deq[u] /\ nxt'[u] = nxt[u]
    BY <1>1, <1>4, OthersWait
  <2>2. ~misplaced' => \A u \in Threads : Len(new[u]) <= 1
    BY <1>1, <1>3, <1>5 DEF Emptied
  <2> QED
    BY <1>1, <1>5, <2>1, <2>2 DEF SameDequeues
<1>7. Emptied(new)'
  BY <1>6, SameEmptied
<1> QED
  BY <1>7 DEF new

\* The values in the queue are one less than the elements of the list.
LEMMA ContentsLength ==
  ASSUME NEW rows, Shape(rows)
  PROVE  /\ Contents \in Seq({user_data[n] : n \in Nodes})
         /\ Len(Contents) = Len(rows[Queue]) - 1 /\ Len(rows[Queue]) \in Nat \ {0}
         /\ \A i \in 1..Len(Contents) :
              i + 1 \in 1..Len(rows[Queue]) /\ Contents[i] = user_data[rows[Queue][i + 1]]
         /\ Contents = <<>> <=> Len(rows[Queue]) = 1
<1>1. /\ rows[Queue] # <<>> /\ Rows(rows) /\ Queue \in Owners
  BY QueueIsOwner DEF Shape, Heads
<1>2. PICK k : k = Len(rows[Queue])
  OBVIOUS
<1>3. k \in Nat \ {0} /\ \A i \in 1..k : rows[Queue][i] \in Nodes
  BY <1>1, <1>2, RowTypes
<1>4. PICK j : j = k - 1
  OBVIOUS
<1>5. j \in Nat /\ k = j + 1 /\ \A i \in 1..j : i + 1 \in 1..k
  BY <1>3, <1>4
<1>6. Contents = [i \in 1..j |-> user_data[rows[Queue][i + 1]]]
  BY <1>2, <1>4, QueueIsList
<1>7. PICK c : c = Contents
  OBVIOUS
<1>8. c = [i \in 1..j |-> user_data[rows[Queue][i + 1]]]
  BY <1>6, <1>7
<1>9. \A i \in 1..j : user_data[rows[Queue][i + 1]] \in {user_data[n] : n \in Nodes}
  BY <1>3, <1>5
<1>10. c \in Seq({user_data[n] : n \in Nodes}) /\ Len(c) = j
  BY <1>5, <1>8, <1>9
<1>11. c = <<>> <=> j = 0
  BY <1>10
<1>12. \A i \in 1..j : c[i] = user_data[rows[Queue][i + 1]]
  BY <1>8
<1>13. k = 1 <=> j = 0
  BY <1>5
<1> QED
  BY <1>2, <1>3, <1>4, <1>5, <1>7, <1>10, <1>11, <1>12, <1>13

\* A dequeue that takes the last value leaves the queue empty for all the others.
LEMMA AdvanceEmptied ==
  ASSUME NEW rows, Types, Shape(rows), Emptied(rows), NEW t \in Threads, Advance(t),
         \A u \in Threads : ReadsDequeue(u), NEW e, e = dequeue.ptr
  PROVE  Emptied(Passed(rows, t, e))'
<1> DEFINE new == Passed(rows, t, e)
<1>1. /\ pc[t] = "deqSwap" /\ pc'[t] = "deqFree" /\ dequeue'.ctr = dequeue.ctr + 1
      /\ sawEmpty' = (IF Len(Contents) = 1 THEN Waiting ELSE sawEmpty) \ {t}
      /\ UNCHANGED misplaced /\ Others(t)
  BY AdvanceWrites
<1>2. \A q \in Owners \ {t, Queue} : new[q] = rows[q]
  BY AdvanceShape
<1>3. Len(new[Queue]) = Len(rows[Queue]) - 1
  BY AdvanceShape
<1>4. new[t] = <<e>>
  BY QueueIsOwner DEF Passed, Shape, Rows
<1> HIDE DEF new
<1>5. Len(new[t]) <= 1
  <2>1. Len(<<e>>) <= 1
    OBVIOUS
  <2> QED
    BY <1>4, <2>1
<1>6. Len(Contents) = Len(new[Queue])
  BY <1>3, ContentsLength
<1>7. Waiting' = Waiting \ {t}
  <2>1. (t \notin Waiting)'
    BY <1>1 DEF Waiting
  <2>2. \A u \in Threads \ {t} : (u \in Waiting)' <=> u \in Waiting
    BY <1>1, OthersWait
  <2>3. Waiting \subseteq Threads /\ (Waiting \subseteq Threads)'
    BY DEF Waiting
  <2> QED
    BY <2>1, <2>2, <2>3
<1>8. sawEmpty \subseteq Waiting
  BY DEF Emptied
<1>9. (Len(new[Queue]) = 1 => Waiting \subseteq sawEmpty)'
  BY <1>1, <1>6, <1>7
<1>10. (sawEmpty \subseteq Waiting)'
  BY <1>1, <1>7, <1>8
<1>11. ASSUME NEW u \in Threads
       PROVE  (/\ pc[u] \in {"deqCheckPointer", "deqCheckCounter"} /\ dequeue = deq[u] /\ nxt[u].ptr = Null
                    => u \in sawEmpty
               /\ pc[u] = "deqState" /\ nxt[u].ptr = Null => u \in sawEmpty)'
  <2>1. CASE u = t
    BY <1>1, <2>1
  <2>2. CASE u # t
    <3>1. pc'[u] = pc[u] /\ deq'[u] = deq[u] /\ nxt'[u] = nxt[u]
      BY <1>1, <2>2, OthersWait
    <3>2. dequeue' # deq'[u]
      <4>1. deq[u].ctr <= dequeue.ctr
        BY DEF ReadsDequeue
      <4>2. deq[u].ctr \in Nat /\ dequeue.ctr \in Nat
        BY DEF Types, Pairs
      <4> QED
        BY <1>1, <3>1, <4>1, <4>2
    <3>3. u \in sawEmpty => u \in sawEmpty'
      BY <1>1, <1>8, <2>2
    <3>4. pc[u] = "deqState" /\ nxt[u].ptr = Null => u \in sawEmpty
      BY DEF Emptied
    <3> QED
      BY <3>1, <3>2, <3>3, <3>4
  <2> QED
    BY <2>1, <2>2
<1>12. ASSUME ~misplaced', NEW u \in Threads PROVE Len(new[u]) <= 1
  <2>1. CASE u = t
    BY <1>5, <2>1
  <2>2. CASE u # t
    <3>1. new[u] = rows[u]
      BY <1>2, <2>2, QueueIsOwner
    <3> QED
      BY <1>1, <1>12, <3>1 DEF Emptied
  <2> QED
    BY <2>1, <2>2
<1>13. Emptied(new)'
  <2>1. (~misplaced => \A u \in Threads : Len(new[u]) <= 1)'
    BY <1>12
  <2> QED
    BY <1>9, <1>10, <1>11, <2>1 DEF Emptied
<1> QED
  BY <1>13 DEF new

\* A dequeue that sees no element after the one dequeue points to, sees the queue empty.
LEMMA NullIsEmpty ==
  ASSUME NEW rows, Types, Shape(rows), Emptied(rows), next[dequeue.ptr].ptr = Null
  PROVE  Len(rows[Queue]) = 1 /\ Waiting \subseteq sawEmpty
<1>1. PICK k : k = Len(rows[Queue])
  OBVIOUS
<1>2. /\ Queue \in Owners /\ Rows(rows) /\ rows[Queue][1] = dequeue.ptr /\ rows[Queue] # <<>>
  BY QueueIsOwner DEF Shape, Heads
<1>3. k \in Nat \ {0} /\ \A i \in 1..k : rows[Queue][i] \in Nodes
  BY <1>1, <1>2, RowTypes
<1>4. ASSUME k # 1 PROVE FALSE
  <2>1. 1 \in 1..k /\ 1 + 1 \in 1..k
    BY <1>3, <1>4
  <2>2. next[rows[Queue][1]].ptr = rows[Queue][1 + 1]
    BY <1>1, <1>2, <1>4, <2>1 DEF Shape, Linked
  <2> QED
    BY <1>2, <1>3, <2>1, <2>2 DEF Nodes, Null
<1> QED
  BY <1>1, <1>4 DEF Emptied

\* What such a thread's step does to the dequeues that have seen the queue empty.
LEMMA QuietDequeues ==
  ASSUME NEW rows, Types, Shape(rows), Emptied(rows), NEW t \in Threads, ReadsDequeue(t), Quiet(t)
  PROVE  \/ sawEmpty' = sawEmpty /\ ((t \in Waiting)' <=> t \in Waiting)
         \/ sawEmpty' = sawEmpty \ {t} /\ (t \notin Waiting)'
         \/ /\ (t \in Waiting)' /\ ~Checks(t)'
            /\ sawEmpty \subseteq sawEmpty' /\ sawEmpty' \subseteq sawEmpty \union {t}
            /\ Len(rows[Queue]) = 1 => t \in sawEmpty'
<1>1. CASE EnqueueReads(t)
  BY <1>1 DEF EnqueueReads, ReadEnqueue, ReadNext, Read, Check, Again, Goto, Types, Waiting, history
<1>2. CASE LinkFails(t) \/ HelpEnqueue(t) \/ EnqueueReturn(t)
  BY <1>2 DEF LinkFails, Link, HelpEnqueue, EnqueueReturn, Again, Return, Goto, Types, Waiting, history
<1>3. CASE Dequeue(t)
  <2>1. pc'[t] = "deqReadCounter"
    BY <1>3 DEF Dequeue, Goto, Types
  <2>2. (t \in Waiting)' /\ ~Checks(t)'
    BY <2>1 DEF Waiting, Checks
  <2>3. Contents = <<>> <=> Len(rows[Queue]) = 1
    BY ContentsLength
  <2>4. pc[t] = "deqReadPointer" /\ Len(rows[Queue]) = 1 => t \in sawEmpty
    BY DEF Emptied, Waiting
  <2>5. /\ pc[t] \in {"idle", "deqReadPointer"}
        /\ sawEmpty' = IF pc[t] = "idle" /\ Contents = <<>> THEN sawEmpty \union {t} ELSE sawEmpty
    BY <1>3 DEF Dequeue
  <2>6. Len(rows[Queue]) = 1 => t \in sawEmpty'
    BY <2>3, <2>4, <2>5
  <2>7. sawEmpty \subseteq sawEmpty' /\ sawEmpty' \subseteq sawEmpty \union {t}
    BY <2>5
  <2> QED
    BY <2>2, <2>6, <2>7
<1>4. CASE DequeueReads(t)
  BY <1>4 DEF DequeueReads, ReadEnqueue, ReadNext, Read, Check, Again, Goto, Types, Waiting, history
<1>5. CASE HelpDequeue(t) \/ ReadData(t) \/ AdvanceFails(t)
  BY <1>5 DEF HelpDequeue, ReadData, AdvanceFails, Again, Goto, Types, Waiting, history
<1>6. CASE DequeueEmpty(t)
  BY <1>6 DEF DequeueEmpty, Return, Goto, Types, Waiting
<1> QED
  BY <1>1, <1>2, <1>3, <1>4, <1>5, <1>6 DEF Quiet

\* What a thread that checks dequeue has seen.
LEMMA QuietChecks ==
  ASSUME NEW rows, Types, Shape(rows), Emptied(rows), NEW t \in Threads, ReadsDequeue(t), Quiet(t),
         Checks(t)', nxt'[t].ptr = Null, pc'[t] # "deqState" => dequeue' = deq'[t]
  PROVE  t \in sawEmpty /\ t \in sawEmpty'
<1>1. DequeueReads(t)
  <2>1. ~EnqueueReads(t)
    BY DEF EnqueueReads, ReadEnqueue, ReadNext, Read, Check, Again, Goto, Types, Checks
  <2>2. ~LinkFails(t) /\ ~HelpEnqueue(t) /\ ~EnqueueReturn(t)
    BY DEF LinkFails, Link, HelpEnqueue, EnqueueReturn, Again, Return, Goto, Types, Checks
  <2>3. ~Dequeue(t) /\ ~DequeueEmpty(t) /\ ~HelpDequeue(t) /\ ~ReadData(t) /\ ~AdvanceFails(t)
    BY DEF Dequeue, DequeueEmpty, HelpDequeue, ReadData, AdvanceFails, Again, Return, Goto, Types, Checks
  <2> QED
    BY <2>1, <2>2, <2>3 DEF Quiet
<1>2. UNCHANGED <<sawEmpty, dequeue>>
  BY <1>1 DEF DequeueReads, ReadEnqueue, ReadNext, Read, Check, shared, history
<1>3. \/ ReadNext(t, "deqNextPointer", "deqCheckPointer", deq[t].ptr, "ptr")
      \/ Check(t, "deqCheckPointer", "deqCheckCounter", "deqReadPointer", dequeue.ptr = deq[t].ptr)
      \/ Check(t, "deqCheckCounter", "deqState", "deqReadPointer", dequeue.ctr = deq[t].ctr)
  BY <1>1 DEF DequeueReads, ReadEnqueue, Read, Goto, Types, Checks
<1>4. CASE ReadNext(t, "deqNextPointer", "deqCheckPointer", deq[t].ptr, "ptr")
  <2>1. pc[t] = "deqNextPointer" /\ UNCHANGED deq
    BY <1>4 DEF ReadNext, Read
  <2>2. deq[t].ptr \in Nodes /\ "deqCheckPointer" \in States
    BY <2>1 DEF Types, Follows, Pairs, States
  <2>3. pc'[t] = "deqCheckPointer" /\ nxt'[t].ptr = next[deq[t].ptr].ptr
    BY <1>4, <2>2, ReadNextPointer
  <2>4. dequeue = deq[t]
    BY <1>2, <2>1, <2>3
  <2>5. next[dequeue.ptr].ptr = Null
    BY <2>3, <2>4
  <2>6. t \in Waiting
    BY <2>1 DEF Waiting
  <2> QED
    BY <1>2, <2>5, <2>6, NullIsEmpty
<1>5. CASE Check(t, "deqCheckPointer", "deqCheckCounter", "deqReadPointer", dequeue.ptr = deq[t].ptr)
  <2>1. pc[t] = "deqCheckPointer" /\ pc'[t] \in {"deqCheckCounter", "deqReadPointer"}
    BY <1>5 DEF Check, Again, Goto, Types
  <2>2. UNCHANGED local /\ pc'[t] = "deqCheckCounter"
    BY <1>5, <2>1 DEF Check, Again, Goto, Types, Checks
  <2> QED
    BY <1>2, <2>1, <2>2 DEF Emptied, local
<1>6. CASE Check(t, "deqCheckCounter", "deqState", "deqReadPointer", dequeue.ctr = deq[t].ctr)
  <2>1. pc[t] = "deqCheckCounter" /\ pc'[t] \in {"deqState", "deqReadPointer"}
    BY <1>6 DEF Check, Again, Goto, Types
  <2>2. UNCHANGED local /\ dequeue.ctr = deq[t].ctr
    BY <1>6, <2>1 DEF Check, Again, Goto, Types, Checks
  <2>3. dequeue = deq[t]
    BY <2>1, <2>2 DEF ReadsDequeue
  <2> QED
    BY <1>2, <2>1, <2>2, <2>3 DEF Emptied, local
<1> QED
  BY <1>3, <1>4, <1>5, <1>6

\* The quiet steps, which include those by which a dequeue sees the queue empty.
LEMMA QuietEmptied ==
  ASSUME NEW rows, Types, Shape(rows), Emptied(rows), NEW t \in Threads, ReadsDequeue(t), Quiet(t)
  PROVE  Emptied(rows)'
<1>1. UNCHANGED <<dequeue, misplaced>> /\ Others(t)
  BY QuietWrites DEF Still
<1>2. \/ sawEmpty' = sawEmpty /\ ((t \in Waiting)' <=> t \in Waiting)
      \/ sawEmpty' = sawEmpty \ {t} /\ (t \notin Waiting)'
      \/ /\ (t \in Waiting)' /\ ~Checks(t)'
         /\ sawEmpty \subseteq sawEmpty' /\ sawEmpty' \subseteq sawEmpty \union {t}
         /\ Len(rows[Queue]) = 1 => t \in sawEmpty'
  BY QuietDequeues
<1>3. \A u \in Threads \ {t} : /\ (u \in Waiting)' <=> u \in Waiting
                               /\ pc'[u] = pc[u] /\ deq'[u] = deq[u] /\ nxt'[u] = nxt[u]
  BY <1>1, OthersWait
<1>4. Waiting \subseteq Threads /\ (Waiting \subseteq Threads)'
  BY DEF Waiting
<1>5. (Len(rows[Queue]) = 1 => Waiting \subseteq sawEmpty)'
  BY <1>2, <1>3, <1>4 DEF Emptied
<1>6. (sawEmpty \subseteq Waiting)'
  BY <1>2, <1>3, <1>4 DEF Emptied
<1>7. ASSUME NEW u \in Threads
      PROVE  (/\ pc[u] \in {"deqCheckPointer", "deqCheckCounter"} /\ dequeue = deq[u] /\ nxt[u].ptr = Null
                   => u \in sawEmpty
              /\ pc[u] = "deqState" /\ nxt[u].ptr = Null => u \in sawEmpty)'
  <2>1. CASE u = t
    BY <2>1, QuietChecks DEF Checks
  <2>2. CASE u # t
    BY <1>1, <1>2, <1>3, <2>2 DEF Emptied
  <2> QED
    BY <2>1, <2>2
<1>8. (~misplaced => \A u \in Threads : Len(rows[u]) <= 1)'
  BY <1>1 DEF Emptied
<1> QED
  BY <1>5, <1>6, <1>7, <1>8 DEF Emptied

-----------------------------------------------------------------------------
(***************************************************************************)
(* The inductive invariant.                                                *)
(***************************************************************************)
InvWith(rows) ==
  /\ Types /\ Shape(rows) /\ Times(rows)
  /\ \A t \in Threads : Knows(rows, t)
  /\ Kept(rows) /\ Emptied(rows)
IInv == \E rows : InvWith(rows)

\* At the start, the list is the dummy, and everything else is free.
LEMMA InitShape ==
  ASSUME Init, NEW rows, rows = [o \in Owners |-> IF o = Queue THEN <<Dummy>> ELSE <<>>]
  PROVE  Types /\ Shape(rows) /\ Times(rows)
<1>1. /\ NumberElements \in Nat /\ MaxNodes \in Nat
      /\ Dummy = NumberElements + 1 /\ nodes = Dummy /\ Dummy \in 1..MaxNodes
  BY SizesAssumption DEF Init, Dummy
<1>2. /\ Queue \in Owners /\ Queue \notin Threads /\ rows[Queue] = <<Dummy>>
      /\ \A t \in Threads : t \in Owners /\ rows[t] = <<>>
      /\ \A o \in Owners : o # Queue => rows[o] = <<>>
  BY QueueIsOwner
<1>3. Dummy \in Nodes /\ Dummy # Null
  BY <1>1 DEF Nodes, Null
<1>4. /\ \A t \in Threads : pc[t] = "idle" /\ qe[t] = Null /\ value[t] = NoValue /\ called[t] = 0
                            /\ enq[t] = Nothing /\ deq[t] = Nothing /\ nxt[t] = Nothing
      /\ enqueue = Pair(Dummy, 0) /\ dequeue = Pair(Dummy, 0) /\ aba_counter = 0
  BY <1>1 DEF Init
<1>5. Rows(rows)
  <2>1. rows \in [Owners -> Seq(Nodes)]
    <3>1. <<Dummy>> \in Seq(Nodes) /\ <<>> \in Seq(Nodes)
      BY <1>3
    <3> QED
      BY <3>1
  <2>2. \A o \in Owners : \A i \in 1..Len(rows[o]) : o = Queue /\ i = 1
    BY <1>2
  <2> QED
    BY <2>1, <2>2 DEF Rows
<1>6. Heads(rows)
  <2>1. \A t \in Threads : ~Holding(t) /\ ~Alone(t)
    BY <1>4 DEF Holding, Preparing, Ready, Alone
  <2> QED
    BY <1>2, <1>4, <2>1 DEF Heads, Pair
<1>7. PICK g \in Garbage : next = [n \in Nodes |-> IF n = nodes THEN Pair(Null, g + 2) ELSE Nothing]
  BY DEF Init
<1>8. g + 2 \in Nat
  BY SizesAssumption
<1>9. next \in [Nodes -> Pairs] /\ next[Dummy].ptr = Null
  BY <1>1, <1>3, <1>7, <1>8 DEF Pair, Nothing, Pairs
<1>10. Linked(rows)
  BY <1>2, <1>9 DEF Linked
<1>11. /\ free \in Seq(Nodes) /\ Len(free) = NumberElements
       /\ \A i \in 1..NumberElements : free[i] = Dummy - i /\ Dummy - i \in 1..NumberElements
  <2>1. free = [i \in 1..NumberElements |-> Dummy - i]
    BY <1>1 DEF Init
  <2>2. \A i \in 1..NumberElements : Dummy - i \in 1..NumberElements /\ Dummy - i \in Nodes
    BY <1>1 DEF Nodes
  <2> QED
    BY <1>1, <2>1, <2>2
<1>12. Supply(rows)
  <2>1. \A i, j \in 1..Len(free) : free[i] = free[j] => i = j
    BY <1>1, <1>11
  <2>2. ASSUME NEW n \in Nodes PROVE IsFree(n) <=> n \in 1..NumberElements
    <3>1. ASSUME n \in 1..NumberElements PROVE IsFree(n)
      <4>1. Dummy - n \in 1..NumberElements /\ Dummy - (Dummy - n) = n
        BY <1>1, <3>1
      <4>2. free[Dummy - n] = n
        BY <1>11, <4>1
      <4> QED
        BY <1>11, <4>1, <4>2 DEF IsFree
    <3>2. IsFree(n) => n \in 1..NumberElements
      BY <1>11 DEF IsFree
    <3> QED
      BY <3>1, <3>2
  <2>3. \A n : InRows(rows, n) <=> n = Dummy
    BY <1>2 DEF InRows, In
  <2>4. Dummy \notin 1..NumberElements
    BY <1>1
  <2>5. \A n \in Nodes : n \in 1..nodes <=> n \in 1..NumberElements \/ n = Dummy
    BY <1>1 DEF Nodes
  <2> QED
    BY <2>1, <2>2, <2>3, <2>4, <2>5 DEF Supply
<1>13. Types
  <2>1. Pair(Dummy, 0) \in [ptr : Nodes, ctr : Nat] /\ Nothing \in Pairs
    BY <1>3 DEF Pair, Nothing, Pairs
  <2>2. "idle" \in States
    BY DEF States
  <2>3. \A t \in Threads : Follows(t)
    BY <1>4 DEF Follows, Holding, Preparing, Ready
  <2>4. /\ pc \in [Threads -> States] /\ qe \in [Threads -> Nodes \union {Null}]
        /\ enq \in [Threads -> Pairs] /\ deq \in [Threads -> Pairs] /\ nxt \in [Threads -> Pairs]
        /\ value \in [Threads -> Values \union {NoValue}] /\ user_data \in [Nodes -> Values \union {NoValue}]
    BY <2>1, <2>2 DEF Init
  <2>5. called \in [Threads -> 0..MaxCalls]
    BY SizesAssumption DEF Init
  <2>6. aba_counter \in Nat /\ nodes \in 0..MaxNodes
    BY <1>1, <1>4
  <2>7. refused \in SUBSET Values /\ delivered \in SUBSET Values /\ misplaced \in BOOLEAN
    BY DEF Init
  <2> QED
    BY <1>4, <1>9, <1>11, <2>1, <2>3, <2>4, <2>5, <2>6, <2>7 DEF Types
<1>14. Times(rows)
  <2>1. \A n : ~Carries(rows, n)
    BY <1>2, <1>4 DEF Carries, Ready
  <2>2. In(rows, Queue, Dummy)
    BY <1>2 DEF In
  <2> QED
    BY <1>2, <1>4, <2>1, <2>2 DEF Times, Pair, Open
<1> QED
  BY <1>5, <1>6, <1>10, <1>12, <1>13, <1>14 DEF Shape

\* The invariant holds at the start.
LEMMA InitIInv == Init => IInv
<1> SUFFICES ASSUME Init PROVE IInv
  OBVIOUS
<1>1. PICK rows : rows = [o \in Owners |-> IF o = Queue THEN <<Dummy>> ELSE <<>>]
  OBVIOUS
<1>2. Types /\ Shape(rows) /\ Times(rows)
  BY <1>1, InitShape
<1>3. /\ \A t \in Threads : pc[t] = "idle" /\ enq[t].ctr = 0 /\ deq[t].ctr = 0 /\ called[t] = 0
      /\ enqueue.ctr = 0 /\ dequeue.ctr = 0
      /\ refused = {} /\ delivered = {} /\ sawEmpty = {}
  BY DEF Init, Pair, Nothing
<1>4. /\ rows[Queue] = <<Dummy>> /\ \A t \in Threads : rows[t] = <<>>
      /\ \A o \in Owners : o # Queue => rows[o] = <<>>
  BY <1>1, QueueIsOwner
<1>5. ASSUME NEW t \in Threads PROVE Knows(rows, t)
  BY <1>3 DEF Knows, ReadsEnqueue, ReadsDequeue, Replaces
<1>6. Kept(rows)
  <2>1. \A n : ~Carries(rows, n)
    BY <1>3, <1>4 DEF Carries, Ready
  <2>2. \A t \in Threads : ~Preparing(t) /\ ~Ready(t)
    BY <1>3 DEF Preparing, Ready
  <2>3. ASSUME NEW v \in Values PROVE ~Called(v)
    <3>1. v \in Threads \X (1..MaxCalls)
      BY DEF Values
    <3>2. v[1] \in Threads /\ v[2] \in 1..MaxCalls
      BY <3>1
    <3>3. ~(v[2] <= 0)
      BY <3>2, SizesAssumption
    <3> QED
      BY <1>3, <3>2, <3>3 DEF Called
  <2> QED
    BY <1>3, <2>1, <2>2, <2>3 DEF Kept
<1>7. Emptied(rows)
  <2>1. Waiting = {}
    BY <1>3 DEF Waiting
  <2>2. \A t \in Threads : Len(rows[t]) <= 1
    BY <1>4
  <2> QED
    BY <1>3, <2>1, <2>2 DEF Emptied
<1>8. InvWith(rows)
  BY <1>2, <1>5, <1>6, <1>7 DEF InvWith
<1> QED
  BY <1>8 DEF IInv

\* What the other threads know stays true.
LEMMA OthersKnow ==
  ASSUME NEW rows, NEW new, InvWith(rows), Types', NEW t \in Threads, Others(t), Relies(rows, new, t),
         Knows(new, t)'
  PROVE  \A u \in Threads : Knows(new, u)'
<1>1. ASSUME NEW u \in Threads \ {t} PROVE Knows(new, u)'
  <2>1. /\ Types /\ Shape(rows) /\ Times(rows)
        /\ ReadsEnqueue(u) /\ ReadsDequeue(u) /\ Replaces(rows, u)
    BY <1>1 DEF InvWith, Knows
  <2>2. ReadsEnqueue(u)'
    BY <1>1, <2>1, RelyKeeps
  <2>3. ReadsDequeue(u)'
    BY <1>1, <2>1, RelyKeeps
  <2>4. Replaces(new, u)'
    BY <1>1, <2>1, RelyKeeps
  <2> QED
    BY <2>2, <2>3, <2>4 DEF Knows
<1> QED
  BY <1>1

\* A new call.
LEMMA TakesInv ==
  ASSUME NEW rows, InvWith(rows), NEW t \in Threads, NEW n, Takes(t, n)
  PROVE  InvWith([rows EXCEPT ![t] = <<n>>])'
<1> DEFINE new == [rows EXCEPT ![t] = <<n>>]
<1>1. /\ Types /\ Shape(rows) /\ Times(rows) /\ Knows(rows, t) /\ Kept(rows) /\ Emptied(rows)
  BY DEF InvWith
<1>2. Shape(new)'
  BY <1>1, TakesShape
<1>3. \A m : Carries(new, m)' <=> Carries(rows, m)
  BY <1>1, TakesShape
<1>4. Times(new)'
  BY <1>1, TakesTimes
<1>5. Relies(rows, new, t)
  BY <1>1, TakesRelies
<1>6. Emptied(new)'
  BY <1>1, TakesEmptied
<1> HIDE DEF new
<1>7. Kept(new)'
  BY <1>1, <1>3, TakesKept
<1>8. Types' /\ (\A all : Knows(all, t)') /\ Others(t)
  BY <1>1, TakesTypes, TakesWrites
<1>9. \A u \in Threads : Knows(new, u)'
  BY <1>5, <1>8, OthersKnow
<1>10. InvWith(new)'
  BY <1>2, <1>4, <1>6, <1>7, <1>8, <1>9 DEF InvWith
<1> QED
  BY <1>10 DEF new

\* A call that is refused.
LEMMA RefusedInv ==
  ASSUME NEW rows, InvWith(rows), NEW t \in Threads, EnqueueRefused(t)
  PROVE  InvWith(rows)'
<1>1. /\ Types /\ Shape(rows) /\ Times(rows) /\ Kept(rows) /\ Emptied(rows)
      /\ \A u \in Threads : Knows(rows, u)
  BY DEF InvWith
<1>2. UNCHANGED <<shared, pc, local, sawEmpty, misplaced>> /\ Still /\ Swings /\ Types'
  BY <1>1, RefusedKeeps
<1>3. \A u \in Threads : Knows(rows, u)'
  BY <1>1, RefusedKeeps
<1>4. Shape(rows)'
  BY <1>1, <1>2, StillShape
<1>5. Times(rows)'
  BY <1>1, <1>2, StillTimes
<1>6. Kept(rows)' /\ Emptied(rows)'
  BY <1>1, <1>2, RefusedKept, RefusedEmptied
<1> QED
  BY <1>2, <1>3, <1>4, <1>5, <1>6 DEF InvWith

\* A quiet step.
LEMMA QuietInv ==
  ASSUME NEW rows, InvWith(rows), NEW t \in Threads, Quiet(t)
  PROVE  InvWith(rows)'
<1>1. /\ Types /\ Shape(rows) /\ Times(rows) /\ Knows(rows, t) /\ Kept(rows) /\ Emptied(rows)
      /\ ReadsDequeue(t)
  BY DEF InvWith, Knows
<1>2. /\ Still /\ Others(t) /\ UNCHANGED <<called, refused, delivered, misplaced>>
      /\ \A u \in Threads : Stays(u)
  BY <1>1, QuietWrites
<1>3. Swings /\ Types' /\ Knows(rows, t)'
  BY <1>1, QuietSwings, QuietTypes, QuietKnows
<1>4. Shape(rows)' /\ \A n : Carries(rows, n)' <=> Carries(rows, n)
  BY <1>1, <1>2, StillShape
<1>5. Times(rows)'
  BY <1>1, <1>2, <1>3, StillTimes
<1>6. Relies(rows, rows, t)
  BY <1>1, <1>2, <1>3, StillRelies
<1>7. \A u \in Threads : Knows(rows, u)'
  BY <1>2, <1>3, <1>6, OthersKnow
<1>8. Kept(rows)'
  <2>1. SameValues(rows, rows)
    BY <1>2, <1>4 DEF SameValues, Still, Stays, Holding
  <2> QED
    BY <1>1, <2>1, SameKept
<1>9. Emptied(rows)'
  BY <1>1, QuietEmptied
<1> QED
  BY <1>3, <1>4, <1>5, <1>7, <1>8, <1>9 DEF InvWith

\* The first step of the preparation of an element.
LEMMA InitPointerInv ==
  ASSUME NEW rows, InvWith(rows), NEW t \in Threads, InitPointer(t)
  PROVE  InvWith(rows)'
<1>1. /\ Types /\ Shape(rows) /\ Times(rows) /\ Knows(rows, t) /\ Kept(rows) /\ Emptied(rows)
  BY DEF InvWith
<1>2. /\ pc[t] = "initPointer" /\ pc'[t] = "initCounter" /\ Others(t)
      /\ UNCHANGED <<user_data, qe, value, history>>
  BY <1>1, InitPointerWrites
<1>3. Shape(rows)' /\ \A n : Carries(rows, n)' <=> Carries(rows, n)
  BY <1>1, InitPointerShape
<1>4. Types' /\ \A all : Knows(all, t)'
  BY <1>1, InitTypes
<1>5. Times(rows)' /\ Relies(rows, rows, t)
  BY <1>1, InitPointerTimes, InitPointerRelies
<1>6. \A u \in Threads : Knows(rows, u)'
  BY <1>2, <1>4, <1>5, OthersKnow
<1>7. Kept(rows)'
  <2>1. SameValues(rows, rows)
    BY <1>2, <1>3 DEF SameValues, Others, Preparing, Ready, history
  <2> QED
    BY <1>1, <2>1, SameKept
<1>8. Emptied(rows)'
  BY <1>1, InitEmptied
<1> QED
  BY <1>3, <1>4, <1>5, <1>6, <1>7, <1>8 DEF InvWith

\* The second.
LEMMA InitCounterInv ==
  ASSUME NEW rows, InvWith(rows), NEW t \in Threads, InitCounter(t)
  PROVE  InvWith(rows)'
<1>1. /\ Types /\ Shape(rows) /\ Times(rows) /\ Knows(rows, t) /\ Kept(rows) /\ Emptied(rows)
  BY DEF InvWith
<1>2. Others(t)
  BY <1>1, InitCounterWrites
<1>3. Shape(rows)'
  BY <1>1, InitCounterShape
<1>4. Types' /\ \A all : Knows(all, t)'
  BY <1>1, InitTypes
<1>5. Times(rows)' /\ Relies(rows, rows, t)
  BY <1>1, InitCounterTimes, InitCounterRelies
<1>6. \A u \in Threads : Knows(rows, u)'
  BY <1>2, <1>4, <1>5, OthersKnow
<1>7. Kept(rows)' /\ Emptied(rows)'
  BY <1>1, InitCounterKept, InitEmptied
<1> QED
  BY <1>3, <1>4, <1>5, <1>6, <1>7 DEF InvWith

\* A link: the rows of the invariant are joined.
LEMMA LinksInv ==
  ASSUME NEW rows, InvWith(rows), NEW t \in Threads, Links(t)
  PROVE  \E new : InvWith(new)'
<1>1. /\ Types /\ Shape(rows) /\ Times(rows) /\ Knows(rows, t) /\ Kept(rows) /\ Emptied(rows)
      /\ Replaces(rows, t)
  BY DEF InvWith, Knows
<1>2. PICK o : LinksTo(rows, t, o)
  BY <1>1, LinkTarget
<1>3. PICK new : new = Join(rows, o, t)
  OBVIOUS
<1>4. /\ pc[t] = "enqSwap" /\ pc'[t] = "enqSwing" /\ Others(t)
      /\ UNCHANGED <<user_data, local, called, refused, delivered>>
  BY <1>1, LinksWrites
<1>5. Shape(new)'
  BY <1>1, <1>2, <1>3, LinksShape DEF LinksTo
<1>6. \A n : Carries(new, n)' <=> Carries(rows, n)
  BY <1>1, <1>2, <1>3, LinksShape DEF LinksTo
<1>7. Types' /\ \A all : Knows(all, t)'
  BY <1>1, LinksTypes
<1>8. Times(new)'
  BY <1>1, <1>2, <1>3, LinksTimes
<1>9. Relies(rows, new, t)
  BY <1>1, <1>2, <1>3, LinksRelies
<1>10. \A u \in Threads : Knows(new, u)'
  BY <1>4, <1>7, <1>9, OthersKnow
<1>11. Kept(new)'
  <2>1. SameValues(rows, new)
    BY <1>4, <1>6 DEF SameValues, Others, Preparing, Ready, local
  <2> QED
    BY <1>1, <2>1, SameKept
<1>12. Emptied(new)'
  BY <1>1, <1>2, <1>3, LinksEmptied
<1> QED
  BY <1>5, <1>7, <1>8, <1>10, <1>11, <1>12 DEF InvWith

\* A dequeue that takes a value: the first element of the list has a row now.
LEMMA AdvanceInv ==
  ASSUME NEW rows, InvWith(rows), NEW t \in Threads, Advance(t)
  PROVE  \E new : InvWith(new)'
<1>1. /\ Types /\ Shape(rows) /\ Times(rows) /\ Knows(rows, t) /\ Kept(rows) /\ Emptied(rows)
      /\ \A u \in Threads : ReadsDequeue(u)
  BY DEF InvWith, Knows
<1>2. PICK e : e = dequeue.ptr
  OBVIOUS
<1>3. PICK new : new = Passed(rows, t, e)
  OBVIOUS
<1>4. Others(t)
  BY <1>1, AdvanceWrites
<1>5. Shape(new)'
  BY <1>1, <1>2, <1>3, AdvanceShape
<1>6. \A n : Carries(new, n)' <=> Carries(rows, n) /\ n # nxt[t].ptr
  BY <1>1, <1>2, <1>3, AdvanceShape
<1>7. Kept(new)' /\ value[t] \in Values
  BY <1>1, <1>6, AdvanceKept
<1>8. Types' /\ \A all : Knows(all, t)'
  BY <1>1, <1>7, AdvanceTypes
<1>9. Times(new)'
  BY <1>1, <1>2, <1>3, AdvanceTimes
<1>10. Relies(rows, new, t)
  BY <1>1, <1>2, <1>3, AdvanceRelies
<1>11. \A u \in Threads : Knows(new, u)'
  BY <1>4, <1>8, <1>10, OthersKnow
<1>12. Emptied(new)'
  BY <1>1, <1>2, <1>3, AdvanceEmptied
<1> QED
  BY <1>5, <1>7, <1>8, <1>9, <1>11, <1>12 DEF InvWith

\* A dequeue that returns: that row is empty again.
LEMMA ReturnInv ==
  ASSUME NEW rows, InvWith(rows), NEW t \in Threads, DequeueReturn(t)
  PROVE  \E new : InvWith(new)'
<1>1. /\ Types /\ Shape(rows) /\ Times(rows) /\ Knows(rows, t) /\ Kept(rows) /\ Emptied(rows)
  BY DEF InvWith
<1>2. PICK new : new = [rows EXCEPT ![t] = <<>>]
  OBVIOUS
<1>3. /\ pc[t] = "deqFree" /\ pc'[t] = "idle" /\ Others(t) /\ UNCHANGED <<user_data, history>>
  BY <1>1, ReturnWrites
<1>4. Shape(new)'
  BY <1>1, <1>2, ReturnShape
<1>5. \A n : Carries(new, n)' <=> Carries(rows, n)
  BY <1>1, <1>2, ReturnShape
<1>6. Types' /\ \A all : Knows(all, t)'
  BY <1>1, ReturnTypes
<1>7. Times(new)'
  BY <1>1, <1>2, ReturnTimes
<1>8. Relies(rows, new, t)
  BY <1>1, <1>2, ReturnRelies
<1>9. \A u \in Threads : Knows(new, u)'
  BY <1>3, <1>6, <1>8, OthersKnow
<1>10. Kept(new)'
  <2>1. SameValues(rows, new)
    BY <1>3, <1>5 DEF SameValues, Others, Preparing, Ready, history
  <2> QED
    BY <1>1, <2>1, SameKept
<1>11. Emptied(new)'
  BY <1>1, <1>2, ReturnEmptied
<1> QED
  BY <1>4, <1>6, <1>7, <1>9, <1>10, <1>11 DEF InvWith

\* A step that changes nothing.
LEMMA StutterInv ==
  ASSUME NEW rows, InvWith(rows), UNCHANGED vars
  PROVE  InvWith(rows)'
<1>1. /\ Types /\ Shape(rows) /\ Times(rows) /\ Kept(rows) /\ Emptied(rows)
      /\ \A u \in Threads : Knows(rows, u)
  BY DEF InvWith
<1>2. UNCHANGED <<shared, pc, local, history>>
  BY DEF vars
<1>3. \A u \in Threads : Stays(u)
  BY <1>2 DEF Stays, Preparing, Ready, Holding, local
<1>4. Still /\ Swings
  BY <1>2, <1>3 DEF Still, Swings, shared
<1>5. Shape(rows)' /\ \A n : Carries(rows, n)' <=> Carries(rows, n)
  BY <1>1, <1>4, StillShape
<1>6. Times(rows)'
  BY <1>1, <1>4, StillTimes
<1>7. Types'
  <2>1. \A u \in Threads : Follows(u)'
    BY <1>1, <1>2 DEF Types, Follows, Holding, Preparing, Ready, shared, local
  <2> QED
    BY <1>1, <1>2, <2>1 DEF Types, shared, local, history
<1>8. ASSUME NEW u \in Threads PROVE Knows(rows, u)'
  <2>1. ReadsEnqueue(u)'
    BY <1>1, <1>2 DEF Knows, ReadsEnqueue, shared, local
  <2>2. ReadsDequeue(u)'
    BY <1>1, <1>2 DEF Knows, ReadsDequeue, shared, local
  <2>3. Since(rows, u)' <=> Since(rows, u)
    BY <1>2 DEF Since, BeingPrepared, HalfPrepared, Preparing, In, shared, local
  <2>4. Replaces(rows, u)'
    BY <1>1, <1>2, <2>3 DEF Knows, Replaces, In, shared, local
  <2> QED
    BY <2>1, <2>2, <2>4 DEF Knows
<1>9. Kept(rows)'
  <2>1. SameValues(rows, rows)
    BY <1>2, <1>5 DEF SameValues, Preparing, Ready, shared, local, history
  <2> QED
    BY <1>1, <2>1, SameKept
<1>10. Emptied(rows)'
  BY <1>1, <1>2, RefusedEmptied DEF history
<1> QED
  BY <1>5, <1>6, <1>7, <1>8, <1>9, <1>10 DEF InvWith

\* Every step keeps the invariant.
LEMMA NextIInv == IInv /\ [Next]_vars => IInv'
<1> SUFFICES ASSUME IInv, [Next]_vars PROVE IInv'
  OBVIOUS
<1>1. PICK rows : InvWith(rows)
  BY DEF IInv
<1>2. CASE UNCHANGED vars
  <2>1. InvWith(rows)'
    BY <1>1, <1>2, StutterInv
  <2> QED
    BY <2>1 DEF IInv
<1>3. ASSUME NEW t \in Threads, Call(t) \/ Go(t) PROVE IInv'
  <2>1. \/ \E n : Takes(t, n)
        \/ EnqueueRefused(t) \/ Quiet(t)
        \/ InitPointer(t) \/ InitCounter(t) \/ Links(t) \/ Advance(t) \/ DequeueReturn(t)
    BY <1>1, <1>3, Kinds DEF InvWith
  <2>2. ASSUME NEW n, Takes(t, n) PROVE IInv'
    <3>1. PICK new : new = [rows EXCEPT ![t] = <<n>>]
      OBVIOUS
    <3>2. InvWith(new)'
      BY <1>1, <2>2, <3>1, TakesInv
    <3> QED
      BY <3>2 DEF IInv
  <2>3. CASE EnqueueRefused(t) \/ Quiet(t) \/ InitPointer(t) \/ InitCounter(t)
    <3>1. InvWith(rows)'
      BY <1>1, <2>3, RefusedInv, QuietInv, InitPointerInv, InitCounterInv
    <3> QED
      BY <3>1 DEF IInv
  <2>4. CASE Links(t) \/ Advance(t) \/ DequeueReturn(t)
    <3>1. \E new : InvWith(new)'
      BY <1>1, <2>4, LinksInv, AdvanceInv, ReturnInv
    <3> QED
      BY <3>1 DEF IInv
  <2> QED
    BY <2>1, <2>2, <2>3, <2>4
<1> QED
  BY <1>2, <1>3 DEF Next

\* The invariant holds at any time.
LEMMA AlwaysIInv == Spec => []IInv
BY InitIInv, NextIInv, PTL DEF Spec

-----------------------------------------------------------------------------
(***************************************************************************)
(* What follows for the queue.                                             *)
(***************************************************************************)
\* No thread follows a null pointer, and the freelist holds elements that exist.
THEOREM TypeCorrect == Spec => []TypeOK
<1>1. IInv => TypeOK
  <2> SUFFICES ASSUME NEW rows, InvWith(rows) PROVE TypeOK
    BY DEF IInv
  <2>1. Types /\ Shape(rows) /\ \A t \in Threads : ReadsDequeue(t)
    BY DEF InvWith, Knows
  <2>2. free \in Seq(1..nodes)
    <3>1. free \in Seq(Nodes) /\ Len(free) \in Nat
      BY <2>1 DEF Types
    <3>2. ASSUME NEW i \in 1..Len(free) PROVE free[i] \in 1..nodes
      <4>1. free[i] \in Nodes
        BY <3>1
      <4>2. IsFree(free[i])
        BY DEF IsFree
      <4> QED
        BY <2>1, <4>1, <4>2 DEF Shape, Supply
    <3>3. PICK k : k = Len(free)
      OBVIOUS
    <3>4. free \in [1..k -> Nodes] /\ k \in Nat
      BY <3>1, <3>3, LenProperties
    <3>5. free \in [1..k -> 1..nodes]
      BY <3>2, <3>3, <3>4
    <3> QED
      BY <3>4, <3>5, SeqDef
  <2>3. ASSUME NEW t \in Threads
        PROVE  /\ pc[t] = "deqState" /\ enq[t].ptr # deq[t].ptr => nxt[t].ptr # Null
               /\ Enqueueing(t) => qe[t] # Null
    <3>1. Enqueueing(t) => Holding(t)
      BY DEF Enqueueing, Holding, Preparing, Ready
    <3> QED
      BY <2>1, <3>1 DEF Types, Follows, ReadsDequeue
  <2> QED
    BY <2>1, <2>2, <2>3 DEF Types, TypeOK, Pairs
<1> QED
  BY <1>1, AlwaysIInv, PTL

\* enqueue never falls behind dequeue, and never points to an element that is free, or in the hands
\* of a thread.
THEOREM EnqueueStaysInList == Spec => []EnqueueInList
<1>1. IInv => EnqueueInList
  <2> SUFFICES ASSUME NEW rows, InvWith(rows) PROVE EnqueueInList
    BY DEF IInv
  <2>1. Shape(rows) /\ In(rows, Queue, enqueue.ptr)
    BY DEF InvWith, Times
  <2> QED
    BY <2>1, QueueIsList DEF EnqueueInList
<1> QED
  BY <1>1, AlwaysIInv, PTL

\* What a thread holds is its row.
LEMMA HeldIsRow ==
  ASSUME NEW rows, Shape(rows), NEW t \in Threads
  PROVE  Held(t) = rows[t]
<1>1. t \in Owners /\ Rows(rows) /\ Linked(rows) /\ (Holding(t) => rows[t] # <<>> /\ rows[t][1] = qe[t])
  BY QueueIsOwner DEF Shape, Heads
<1>2. CASE Alone(t)
  <2>1. Holding(t) /\ Len(rows[t]) = 1
    BY <1>2 DEF Shape, Heads, Alone, Holding, Preparing
  <2>2. rows[t] \in Seq(Nodes)
    BY <1>1, RowTypes
  <2>3. rows[t] = <<qe[t]>>
    BY <1>1, <2>1, <2>2
  <2> QED
    BY <1>2, <2>3 DEF Held, Alone
<1>3. CASE ~Alone(t) /\ Holding(t)
  <2>1. Open(t) /\ ListFrom(qe[t]) = rows[t]
    BY <1>1, <1>3, RowIsList DEF Open
  <2>2. Enqueueing(t)
    BY <1>3 DEF Alone, Holding, Preparing, Ready, Enqueueing
  <2> QED
    BY <1>3, <2>1, <2>2 DEF Held, Alone
<1>4. CASE ~Holding(t)
  <2>1. rows[t] = <<>>
    BY <1>4 DEF Shape, Heads
  <2>2. ~Enqueueing(t) /\ pc[t] \notin {"initPointer", "deqFree"}
    BY <1>4 DEF Holding, Preparing, Ready, Enqueueing
  <2> QED
    BY <2>1, <2>2 DEF Held
<1> QED
  BY <1>2, <1>3, <1>4

\* How often an element is in a sequence in which each is at most once.
LEMMA CountOnce ==
  ASSUME NEW s \in Seq(Nodes), NEW n, \A i, j \in 1..Len(s) : s[i] = n /\ s[j] = n => i = j
  PROVE  /\ (\E i \in 1..Len(s) : s[i] = n) => Cardinality(CountIn(s, n)) = 1
         /\ (~\E i \in 1..Len(s) : s[i] = n) => Cardinality(CountIn(s, n)) = 0
         /\ CountIn(s, n) # {} <=> \E i \in 1..Len(s) : s[i] = n
<1>1. CountIn(s, n) = {i \in 1..Len(s) : s[i] = n}
  BY DEF CountIn
<1>2. ASSUME NEW i \in 1..Len(s), s[i] = n PROVE Cardinality(CountIn(s, n)) = 1
  <2>1. CountIn(s, n) = {i}
    BY <1>1, <1>2
  <2> QED
    BY <2>1, FS_Singleton
<1>3. ASSUME ~\E i \in 1..Len(s) : s[i] = n PROVE Cardinality(CountIn(s, n)) = 0
  <2>1. CountIn(s, n) = {}
    BY <1>1, <1>3
  <2> QED
    BY <2>1, FS_EmptySet
<1> QED
  BY <1>1, <1>2, <1>3

\* Every element is in exactly one place, at any time.
THEOREM ElementsOnce == Spec => []EveryElementOnce
<1>1. IInv => EveryElementOnce
  <2> SUFFICES ASSUME NEW rows, InvWith(rows), NEW n \in 1..nodes
               PROVE  Cardinality(CountIn(ListFrom(dequeue.ptr), n)) + Cardinality(CountIn(free, n))
                        + Cardinality({t \in Threads : CountIn(Held(t), n) # {}}) = 1
    BY DEF IInv, EveryElementOnce
  <2>1. Types /\ Shape(rows) /\ Rows(rows) /\ Supply(rows)
    BY DEF InvWith, Shape
  <2>2. n \in Nodes
    <3>1. nodes \in 0..MaxNodes /\ MaxNodes \in Nat
      BY <2>1, SizesAssumption DEF Types
    <3> QED
      BY <3>1 DEF Nodes
  <2>3. Queue \in Owners /\ Queue \notin Threads /\ \A t \in Threads : t \in Owners
    BY QueueIsOwner
  <2>4. ListFrom(dequeue.ptr) = rows[Queue] /\ \A t \in Threads : Held(t) = rows[t]
    BY <2>1, QueueIsList, HeldIsRow
  <2>5. /\ IsFree(n) => ~InRows(rows, n)
        /\ IsFree(n) \/ InRows(rows, n)
    BY <2>1, <2>2 DEF Supply
  <2>6. /\ IsFree(n) => Cardinality(CountIn(free, n)) = 1
        /\ ~IsFree(n) => Cardinality(CountIn(free, n)) = 0
    <3>1. free \in Seq(Nodes) /\ \A i, j \in 1..Len(free) : free[i] = free[j] => i = j
      BY <2>1 DEF Types, Supply
    <3>2. \A i, j \in 1..Len(free) : free[i] = n /\ free[j] = n => i = j
      BY <3>1
    <3> QED
      BY <3>1, <3>2, CountOnce DEF IsFree
  <2>7. ASSUME NEW o \in Owners
        PROVE  /\ In(rows, o, n) => Cardinality(CountIn(rows[o], n)) = 1
               /\ ~In(rows, o, n) => Cardinality(CountIn(rows[o], n)) = 0
               /\ CountIn(rows[o], n) # {} <=> In(rows, o, n)
    <3>1. rows[o] \in Seq(Nodes)
      BY <2>1 DEF Rows
    <3>2. \A i, j \in 1..Len(rows[o]) : rows[o][i] = n /\ rows[o][j] = n => i = j
      BY <2>1 DEF Rows
    <3> QED
      BY <3>1, <3>2, CountOnce DEF In
  <2> DEFINE holders == {t \in Threads : CountIn(Held(t), n) # {}}
  <2>8. \A t : t \in holders <=> t \in Threads /\ In(rows, t, n)
    BY <2>3, <2>4, <2>7
  <2> HIDE DEF holders
  <2>9. CASE IsFree(n)
    <3>1. \A o \in Owners : ~In(rows, o, n)
      BY <2>5, <2>9 DEF InRows
    <3>2. holders = {}
      BY <2>3, <2>8, <3>1
    <3>3. Cardinality(holders) = 0
      BY <3>2, FS_EmptySet
    <3>4. Cardinality(CountIn(ListFrom(dequeue.ptr), n)) = 0
      BY <2>3, <2>4, <2>7, <3>1
    <3> QED
      BY <2>6, <2>9, <3>3, <3>4 DEF holders
  <2>10. CASE ~IsFree(n) /\ In(rows, Queue, n)
    <3>1. \A t \in Threads : ~In(rows, t, n)
      BY <2>1, <2>3, <2>10, OneRow
    <3>2. holders = {}
      BY <2>8, <3>1
    <3>3. Cardinality(holders) = 0
      BY <3>2, FS_EmptySet
    <3>4. Cardinality(CountIn(ListFrom(dequeue.ptr), n)) = 1
      BY <2>3, <2>4, <2>7, <2>10
    <3> QED
      BY <2>6, <2>10, <3>3, <3>4 DEF holders
  <2>11. CASE ~IsFree(n) /\ ~In(rows, Queue, n)
    <3>1. PICK t \in Threads : In(rows, t, n)
      BY <2>3, <2>5, <2>11 DEF InRows, Owners
    <3>2. \A u \in Threads : In(rows, u, n) => u = t
      BY <2>1, <2>3, <3>1, OneRow
    <3>3. holders = {t}
      BY <2>8, <3>1, <3>2
    <3>4. Cardinality(holders) = 1
      BY <3>3, FS_Singleton
    <3>5. Cardinality(CountIn(ListFrom(dequeue.ptr), n)) = 0
      BY <2>3, <2>4, <2>7, <2>11
    <3> QED
      BY <2>6, <2>11, <3>4, <3>5 DEF holders
  <2> QED
    BY <2>9, <2>10, <2>11
<1> QED
  BY <1>1, AlwaysIInv, PTL

\* The elements that carry a value are those of EveryValueOnce.
LEMMA CarriersCarry ==
  ASSUME NEW rows, Types, Shape(rows), NEW v
  PROVE  Carriers(v) = {n \in Nodes : Carries(rows, n) /\ user_data[n] = v}
<1>1. /\ Rows(rows) /\ Heads(rows) /\ Supply(rows)
      /\ Queue \in Owners /\ Queue \notin Threads /\ \A t \in Threads : t \in Owners
  BY QueueIsOwner DEF Shape
<1>2. ASSUME NEW n \in Nodes
      PROVE  (\E i \in 1..Len(rows[Queue]) : i # 1 /\ rows[Queue][i] = n) <=> n # dequeue.ptr /\ InList(n)
  <2>1. rows[Queue][1] = dequeue.ptr /\ 1 \in 1..Len(rows[Queue])
    BY QueueHead
  <2>2. InList(n) <=> In(rows, Queue, n)
    BY QueueIsList
  <2>3. \A i \in 1..Len(rows[Queue]) : rows[Queue][i] = dequeue.ptr => i = 1
    BY <1>1, <2>1 DEF Rows
  <2> QED
    BY <2>1, <2>2, <2>3 DEF In
<1>3. ASSUME NEW n \in Nodes, NEW t \in Threads
      PROVE  (\E i \in 1..Len(rows[t]) : i # 1 /\ rows[t][i] = n) <=> n # qe[t] /\ CountIn(Held(t), n) # {}
  <2>1. Held(t) = rows[t] /\ t \in Owners /\ rows[t] \in Seq(Nodes)
    BY <1>1, HeldIsRow DEF Rows
  <2>2. CountIn(rows[t], n) # {} <=> \E i \in 1..Len(rows[t]) : rows[t][i] = n
    BY <2>1 DEF CountIn
  <2>3. CASE Holding(t)
    <3>1. rows[t][1] = qe[t] /\ rows[t] # <<>>
      BY <1>1, <2>3 DEF Heads
    <3>2. 1 \in 1..Len(rows[t])
      BY <2>1, <3>1
    <3>3. \A i \in 1..Len(rows[t]) : rows[t][i] = qe[t] => i = 1
      BY <1>1, <2>1, <3>1, <3>2 DEF Rows
    <3> QED
      BY <2>1, <2>2, <3>1, <3>3
  <2>4. CASE ~Holding(t)
    <3>1. rows[t] = <<>>
      BY <1>1, <2>4 DEF Heads
    <3>2. ~\E i \in 1..Len(rows[t]) : rows[t][i] = n
      BY <3>1
    <3> QED
      BY <2>1, <2>2, <3>2
  <2> QED
    BY <2>3, <2>4
<1>4. \A t \in Threads : Enqueueing(t) /\ pc[t] \notin {"initPointer", "initCounter"} <=> Ready(t)
  BY DEF Enqueueing, Ready
<1>5. ASSUME NEW n \in Nodes
      PROVE  Carries(rows, n) <=>
               \/ n # dequeue.ptr /\ InList(n)
               \/ \E t \in Threads : Enqueueing(t) /\ pc[t] \notin {"initPointer", "initCounter"} /\ n = qe[t]
               \/ \E t \in Threads : n # qe[t] /\ CountIn(Held(t), n) # {}
  <2>1. (\E o \in Owners : \E i \in 1..Len(rows[o]) : i # 1 /\ rows[o][i] = n)
          <=> \/ n # dequeue.ptr /\ InList(n)
              \/ \E t \in Threads : n # qe[t] /\ CountIn(Held(t), n) # {}
    <3>1. \A o : o \in Owners <=> o = Queue \/ o \in Threads
      BY DEF Owners
    <3> QED
      BY <1>2, <1>3, <3>1
  <2> QED
    BY <1>4, <2>1 DEF Carries
<1>6. \A n \in Nodes : Carries(rows, n) => n \in 1..nodes
  <2>1. ASSUME NEW n \in Nodes, Carries(rows, n) PROVE InRows(rows, n)
    <3>1. CASE \E o \in Owners : \E i \in 1..Len(rows[o]) : i # 1 /\ rows[o][i] = n
      BY <3>1 DEF InRows, In
    <3>2. ASSUME NEW t \in Threads, Ready(t), qe[t] = n PROVE InRows(rows, n)
      <4>1. rows[t] # <<>> /\ rows[t][1] = n /\ t \in Owners /\ rows[t] \in Seq(Nodes)
        BY <1>1, <3>2 DEF Heads, Holding, Rows
      <4>2. 1 \in 1..Len(rows[t])
        BY <4>1
      <4> QED
        BY <4>1, <4>2 DEF InRows, In
    <3> QED
      BY <2>1, <3>1, <3>2 DEF Carries
  <2> QED
    BY <1>1, <2>1 DEF Supply
<1>7. 1..nodes \subseteq Nodes
  <2>1. nodes \in 0..MaxNodes /\ MaxNodes \in Nat
    BY SizesAssumption DEF Types
  <2> QED
    BY <2>1 DEF Nodes
<1> QED
  BY <1>5, <1>6, <1>7 DEF Carriers

\* No value is lost, and none is delivered twice.
THEOREM ValuesOnce == Spec => []EveryValueOnce
<1>1. IInv => EveryValueOnce
  <2> SUFFICES ASSUME NEW rows, InvWith(rows), NEW v \in Values, v[2] <= called[v[1]], v \notin refused
               PROVE  \/ v \in delivered /\ Carriers(v) = {}
                      \/ v \notin delivered /\ \E n \in Nodes : Carriers(v) = {n}
                      \/ /\ v \notin delivered
                         /\ \E t \in Threads : pc[t] \in {"initPointer", "initCounter"} /\ value[t] = v
    BY DEF IInv, EveryValueOnce
  <2>1. Types /\ Shape(rows) /\ Kept(rows)
    BY DEF InvWith
  <2>2. Carriers(v) = {n \in Nodes : Carries(rows, n) /\ user_data[n] = v}
    BY <2>1, CarriersCarry
  <2>3. Called(v)
    BY DEF Called
  <2>4. \/ Out(v)
        \/ \E n \in Nodes : Carries(rows, n) /\ user_data[n] = v
        \/ \E t \in Threads : Preparing(t) /\ value[t] = v
    BY <2>1, <2>3 DEF Kept
  <2>5. CASE Out(v)
    <3>1. v \in delivered
      BY <2>5 DEF Out
    <3>2. \A n \in Nodes : Carries(rows, n) => ~Out(user_data[n])
      BY <2>1 DEF Kept
    <3>3. Carriers(v) = {}
      BY <2>2, <2>5, <3>2
    <3> QED
      BY <3>1, <3>3
  <2>6. ASSUME NEW n \in Nodes, Carries(rows, n), user_data[n] = v
        PROVE  v \notin delivered /\ Carriers(v) = {n}
    <3>1. ~Out(v)
      BY <2>1, <2>6 DEF Kept
    <3>2. \A m \in Nodes : Carries(rows, m) /\ user_data[m] = v => m = n
      BY <2>1, <2>6 DEF Kept
    <3> QED
      BY <2>2, <2>6, <3>1, <3>2 DEF Out
  <2>7. ASSUME NEW t \in Threads, Preparing(t), value[t] = v
        PROVE  v \notin delivered /\ pc[t] \in {"initPointer", "initCounter"}
    BY <2>1, <2>7 DEF Kept, Out, Preparing
  <2> QED
    BY <2>4, <2>5, <2>6, <2>7
<1> QED
  BY <1>1, AlwaysIInv, PTL

-----------------------------------------------------------------------------
(***************************************************************************)
(* The queue of values.  Its contents after a step, from the rows after    *)
(* it.                                                                     *)
(***************************************************************************)
LEMMA ContentsNext ==
  ASSUME NEW new
  PROVE  (Shape(new) => Contents = [i \in 1..Len(new[Queue]) - 1 |-> user_data[new[Queue][i + 1]]])'
<1>1. Shape(new) => Contents = [i \in 1..Len(new[Queue]) - 1 |-> user_data[new[Queue][i + 1]]]
  BY QueueIsList
<1> QED
  BY <1>1, PTL

\* The values stay, if the list and the values of its elements do.
LEMMA SameContents ==
  ASSUME NEW rows, NEW new, Shape(rows), Shape(new)', new[Queue] = rows[Queue],
         \A n \in Nodes : In(rows, Queue, n) => user_data'[n] = user_data[n]
  PROVE  Contents' = Contents
<1>1. PICK r : r = rows[Queue]
  OBVIOUS
<1>2. r # <<>> /\ r \in Seq(Nodes)
  BY <1>1, QueueIsOwner DEF Shape, Rows, Heads
<1>3. PICK k : k = Len(r) - 1
  OBVIOUS
<1>4. k \in Nat /\ Len(r) = k + 1
  BY <1>2, <1>3
<1>5. \A i \in 1..k : i + 1 \in 1..Len(r) /\ r[i + 1] \in Nodes
  BY <1>2, <1>4
<1>6. \A i \in 1..k : user_data'[r[i + 1]] = user_data[r[i + 1]]
  BY <1>1, <1>5 DEF In
<1>7. Contents = [i \in 1..k |-> user_data[r[i + 1]]]
  BY <1>1, <1>3, QueueIsList
<1>8. Contents' = [i \in 1..k |-> user_data'[r[i + 1]]]
  BY <1>1, <1>3, ContentsNext
<1> QED
  BY <1>6, <1>7, <1>8

\* The values of a row of elements, and those that an enqueue brings: its own, and the values of the
\* elements linked behind its own.
Plain(r, d) == [i \in DOMAIN r |-> d[r[i]]]
Brings(r, v, d) == [i \in DOMAIN r |-> IF i = 1 THEN v ELSE d[r[i]]]

\* An element that has been prepared holds the value of its enqueue.
LEMMA BringsPlain ==
  ASSUME NEW r, NEW v, NEW d, d[r[1]] = v
  PROVE  Brings(r, v, d) = Plain(r, d)
BY DEF Brings, Plain

\* The values of a row, as a sequence.
LEMMA PlainTypes ==
  ASSUME NEW r \in Seq(Nodes), NEW d, NEW S, \A n \in Nodes : d[n] \in S
  PROVE  /\ Plain(r, d) \in Seq(S) /\ Len(Plain(r, d)) = Len(r)
         /\ \A i \in 1..Len(r) : Plain(r, d)[i] = d[r[i]]
<1>2. PICK k \in Nat : k = Len(r) /\ DOMAIN r = 1..k
  OBVIOUS
<1>3. \A i \in 1..k : r[i] \in Nodes
  BY <1>2
<1>4. \A i \in 1..k : d[r[i]] \in S
  BY <1>3
<1>5. PICK c : c = Plain(r, d)
  OBVIOUS
<1>6. c = [i \in 1..k |-> d[r[i]]]
  BY <1>2, <1>5 DEF Plain
<1>7. c \in Seq(S) /\ Len(c) = k
  BY <1>4, <1>6
<1> QED
  BY <1>2, <1>5, <1>6, <1>7

\* And those that an enqueue brings.
LEMMA BringsTypes ==
  ASSUME NEW r \in Seq(Nodes), NEW S, NEW v \in S, NEW d, \A n \in Nodes : d[n] \in S
  PROVE  /\ Brings(r, v, d) \in Seq(S) /\ Len(Brings(r, v, d)) = Len(r)
         /\ \A i \in 1..Len(r) : Brings(r, v, d)[i] = IF i = 1 THEN v ELSE d[r[i]]
<1>2. PICK k \in Nat : k = Len(r) /\ DOMAIN r = 1..k
  OBVIOUS
<1>3. \A i \in 1..k : r[i] \in Nodes
  BY <1>2
<1>4. \A i \in 1..k : (IF i = 1 THEN v ELSE d[r[i]]) \in S
  BY <1>3
<1>5. PICK c : c = Brings(r, v, d)
  OBVIOUS
<1>6. c = [i \in 1..k |-> IF i = 1 THEN v ELSE d[r[i]]]
  BY <1>2, <1>5 DEF Brings
<1>7. c \in Seq(S) /\ Len(c) = k
  BY <1>4, <1>6
<1> QED
  BY <1>2, <1>5, <1>6, <1>7

\* A sequence that agrees with two others, one behind the other, is the two of them.
LEMMA IsConcat ==
  ASSUME NEW S, NEW a \in Seq(S), NEW b \in Seq(S), NEW c \in Seq(S), Len(c) = Len(a) + Len(b),
         \A i \in 1..Len(a) : c[i] = a[i], \A i \in 1..Len(b) : c[Len(a) + i] = b[i]
  PROVE  c = a \o b
<1>1. PICK m \in Nat, n \in Nat : m = Len(a) /\ n = Len(b)
  OBVIOUS
<1>2. PICK w : w = a \o b
  OBVIOUS
<1>3. w \in Seq(S) /\ Len(w) = m + n /\ \A i \in 1..(m + n) : w[i] = IF i <= m THEN a[i] ELSE b[i - m]
  BY <1>1, <1>2, ConcatProperties
<1>4. ASSUME NEW i \in 1..(m + n) PROVE c[i] = w[i]
  <2>1. CASE i <= m
    <3>1. i \in 1..m
      BY <1>1, <2>1
    <3> QED
      BY <1>1, <1>3, <2>1, <3>1
  <2>2. CASE ~(i <= m)
    <3>1. i - m \in 1..n /\ m + (i - m) = i
      BY <1>1, <2>2
    <3>2. c[m + (i - m)] = b[i - m]
      BY <1>1, <3>1
    <3> QED
      BY <1>3, <2>2, <3>1, <3>2
  <2> QED
    BY <2>1, <2>2
<1>5. Len(c) = Len(w) /\ \A i \in 1..Len(c) : c[i] = w[i]
  BY <1>1, <1>3, <1>4
<1>6. c = w
  BY <1>3, <1>5, SeqEqual
<1> QED
  BY <1>2, <1>6

\* A row linked behind the list adds its values.
LEMMA LinkedContents ==
  ASSUME NEW rows, NEW new, Shape(rows), Shape(new)', NEW s \in Seq(Nodes), UNCHANGED user_data,
         new[Queue] = rows[Queue] \o s
  PROVE  Contents' = Contents \o Plain(s, user_data)
<1>1. PICK r, w : r = rows[Queue] /\ w = new[Queue]
  OBVIOUS
<1>2. r # <<>> /\ r \in Seq(Nodes) /\ w = r \o s
  BY <1>1, QueueIsOwner DEF Shape, Rows, Heads
<1>3. PICK k, l : k = Len(r) - 1 /\ l = Len(s)
  OBVIOUS
<1>4. k \in Nat /\ l \in Nat /\ Len(r) = k + 1 /\ Len(s) = l
  BY <1>2, <1>3
<1>5. /\ w \in Seq(Nodes) /\ Len(w) = (k + l) + 1
      /\ \A i \in 1..k : w[i + 1] = r[i + 1]
      /\ \A i \in 1..l : w[(k + i) + 1] = s[i]
  <2>1. w \in Seq(Nodes) /\ Len(w) = Len(r) + Len(s) /\ (\A i \in 1..Len(r) : w[i] = r[i])
        /\ (\A j \in 1..Len(s) : w[Len(r) + j] = s[j])
    BY <1>2, Joined
  <2>2. \A i \in 1..k : i + 1 \in 1..Len(r)
    BY <1>4
  <2>3. \A i \in 1..l : (k + i) + 1 = Len(r) + i
    BY <1>4
  <2>4. Len(w) = (k + l) + 1
    BY <1>4, <2>1
  <2> QED
    BY <1>4, <2>1, <2>2, <2>3, <2>4
<1>6. PICK c, d, S : c = Contents /\ d = user_data /\ S = {d[n] : n \in Nodes}
  OBVIOUS
<1>7. c = [i \in 1..k |-> d[r[i + 1]]]
  BY <1>1, <1>3, <1>6, QueueIsList
<1>8. PICK e : e = Contents'
  OBVIOUS
<1>9. e = [i \in 1..(k + l) |-> d[w[i + 1]]]
  <2>1. Len(w) - 1 = k + l
    BY <1>4, <1>5
  <2> QED
    BY <1>1, <1>6, <1>8, <2>1, ContentsNext
<1>10. c \in Seq(S) /\ Len(c) = k
  <2>1. \A i \in 1..k : i + 1 \in 1..Len(r)
    BY <1>4
  <2>2. \A i \in 1..k : r[i + 1] \in Nodes
    BY <1>2, <2>1
  <2>3. \A i \in 1..k : d[r[i + 1]] \in S
    BY <1>6, <2>2
  <2> QED
    BY <1>4, <1>7, <2>3
<1>11. e \in Seq(S) /\ Len(e) = k + l
  <2>1. \A i \in 1..(k + l) : i + 1 \in 1..Len(w)
    BY <1>4, <1>5
  <2>2. \A i \in 1..(k + l) : w[i + 1] \in Nodes
    BY <1>5, <2>1
  <2>3. \A i \in 1..(k + l) : d[w[i + 1]] \in S
    BY <1>6, <2>2
  <2>4. k + l \in Nat
    BY <1>4
  <2> QED
    BY <1>9, <2>3, <2>4
<1>12. PICK b : b = Plain(s, d)
  OBVIOUS
<1>13. b \in Seq(S) /\ Len(b) = l /\ \A i \in 1..l : b[i] = d[s[i]]
  <2>1. \A n \in Nodes : d[n] \in S
    BY <1>6
  <2>2. b \in Seq(S) /\ Len(b) = Len(s) /\ \A i \in 1..Len(s) : b[i] = d[s[i]]
    BY <1>12, <2>1, PlainTypes
  <2> QED
    BY <1>4, <2>2
<1>14. \A i \in 1..k : e[i] = c[i]
  <2>1. \A i \in 1..k : i \in 1..(k + l)
    BY <1>4
  <2>2. \A i \in 1..k : e[i] = d[w[i + 1]]
    BY <1>9, <2>1
  <2> QED
    BY <1>5, <1>7, <2>2
<1>15. \A i \in 1..l : e[k + i] = b[i]
  <2>1. \A i \in 1..l : k + i \in 1..(k + l)
    BY <1>4
  <2>2. \A i \in 1..l : e[k + i] = d[w[(k + i) + 1]]
    BY <1>9, <2>1
  <2> QED
    BY <1>5, <1>13, <2>2
<1>16. e = c \o b
  BY <1>10, <1>11, <1>13, <1>14, <1>15, IsConcat
<1> QED
  BY <1>6, <1>8, <1>12, <1>16

\* What an enqueue brings, when a row is linked behind its own.
LEMMA LinkedBrings ==
  ASSUME NEW r \in Seq(Nodes), NEW s \in Seq(Nodes), r # <<>>, NEW v, NEW d
  PROVE  Brings(r \o s, v, d) = Brings(r, v, d) \o Plain(s, d)
<1>1. PICK S : v \in S /\ \A n \in Nodes : d[n] \in S
  <2>1. PICK T : T = {d[n] : n \in Nodes} \union {v}
    OBVIOUS
  <2>2. v \in T /\ \A n \in Nodes : d[n] \in T
    BY <2>1
  <2> QED
    BY <2>2
<1>2. PICK w : w = r \o s
  OBVIOUS
<1>3. PICK m \in Nat, n \in Nat : m = Len(r) /\ n = Len(s)
  OBVIOUS
<1>4. /\ w \in Seq(Nodes) /\ Len(w) = m + n
      /\ \A i \in 1..m : w[i] = r[i]
      /\ \A j \in 1..n : w[m + j] = s[j]
  BY <1>2, <1>3, Joined
<1>5. m # 0
  BY <1>3
<1>6. PICK a, b, c : a = Brings(r, v, d) /\ b = Plain(s, d) /\ c = Brings(w, v, d)
  OBVIOUS
<1>7. a \in Seq(S) /\ Len(a) = m /\ \A i \in 1..m : a[i] = IF i = 1 THEN v ELSE d[r[i]]
  BY <1>1, <1>3, <1>6, BringsTypes
<1>8. c \in Seq(S) /\ Len(c) = m + n /\ \A i \in 1..(m + n) : c[i] = IF i = 1 THEN v ELSE d[w[i]]
  <2>1. w \in Seq(Nodes) /\ Len(w) = m + n
    BY <1>4
  <2>2. c \in Seq(S) /\ Len(c) = Len(w) /\ \A i \in 1..Len(w) : c[i] = IF i = 1 THEN v ELSE d[w[i]]
    BY <1>1, <1>6, <2>1, BringsTypes
  <2> QED
    BY <2>1, <2>2
<1>9. b \in Seq(S) /\ Len(b) = n /\ \A i \in 1..n : b[i] = d[s[i]]
  BY <1>1, <1>3, <1>6, PlainTypes
<1>10. ASSUME NEW i \in 1..m PROVE c[i] = a[i]
  <2>1. i \in 1..(m + n)
    BY <1>3
  <2>2. c[i] = IF i = 1 THEN v ELSE d[w[i]]
    BY <1>8, <2>1
  <2>3. a[i] = IF i = 1 THEN v ELSE d[r[i]]
    BY <1>7
  <2>4. w[i] = r[i]
    BY <1>4
  <2> QED
    BY <2>2, <2>3, <2>4
<1>11. ASSUME NEW i \in 1..n PROVE c[m + i] = b[i]
  <2>1. PICK j : j = m + i
    OBVIOUS
  <2>2. j \in 1..(m + n) /\ j # 1
    BY <1>3, <1>5, <2>1
  <2>3. c[j] = d[w[j]]
    BY <1>8, <2>2
  <2>4. w[j] = s[i]
    BY <1>4, <2>1
  <2>5. b[i] = d[s[i]]
    BY <1>9
  <2> QED
    BY <2>1, <2>3, <2>4, <2>5
<1>12. c = a \o b
  <2>1. a \in Seq(S) /\ b \in Seq(S) /\ c \in Seq(S) /\ Len(a) = m /\ Len(b) = n /\ Len(c) = m + n
    BY <1>7, <1>8, <1>9
  <2>2. /\ Len(c) = Len(a) + Len(b)
        /\ \A i \in 1..Len(a) : c[i] = a[i]
        /\ \A i \in 1..Len(b) : c[Len(a) + i] = b[i]
    BY <1>10, <1>11, <2>1
  <2> QED
    BY <2>1, <2>2, IsConcat
<1> QED
  BY <1>2, <1>6, <1>12

\* Without its first element, the list is without its first value.
LEMMA PassedContents ==
  ASSUME NEW rows, NEW new, Shape(rows), Shape(new)', UNCHANGED user_data,
         new[Queue] = Tail(rows[Queue]), Len(rows[Queue]) >= 2
  PROVE  Contents' = Tail(Contents) /\ Contents # <<>>
<1>1. PICK r, s : r = rows[Queue] /\ s = new[Queue]
  OBVIOUS
<1>2. r # <<>> /\ r \in Seq(Nodes) /\ s = Tail(r)
  BY <1>1, QueueIsOwner DEF Shape, Rows, Heads
<1>3. PICK k : k = Len(r) - 2
  OBVIOUS
<1>4. k \in Nat /\ Len(r) = k + 2
  <2>1. Len(r) \in Nat /\ Len(r) >= 2
    BY <1>1, <1>2
  <2> QED
    BY <1>3, <2>1
<1>5. Len(s) = k + 1 /\ \A i \in 1..(k + 1) : s[i] = r[i + 1]
  BY <1>2, <1>4
<1>6. PICK c, d : c = Contents /\ d = user_data
  OBVIOUS
<1>7. c = [i \in 1..(k + 1) |-> d[r[i + 1]]]
  <2>1. Len(r) - 1 = k + 1
    BY <1>4
  <2> QED
    BY <1>1, <1>6, <2>1, QueueIsList
<1>8. Contents' = [i \in 1..k |-> d[s[i + 1]]]
  <2>1. Len(s) - 1 = k
    BY <1>4, <1>5
  <2>2. Contents' = [i \in 1..Len(s) - 1 |-> user_data'[s[i + 1]]]
    BY <1>1, ContentsNext
  <2>3. user_data' = d
    BY <1>6
  <2> QED
    BY <2>1, <2>2, <2>3
<1>9. c \in Seq({d[m] : m \in Nodes}) /\ Len(c) = k + 1 /\ c # <<>>
  <2>1. PICK S : S = {d[m] : m \in Nodes}
    OBVIOUS
  <2>2. \A i \in 1..(k + 1) : i + 1 \in 1..Len(r)
    BY <1>4
  <2>3. \A i \in 1..(k + 1) : r[i + 1] \in Nodes
    BY <1>2, <2>2
  <2>4. \A i \in 1..(k + 1) : d[r[i + 1]] \in S
    BY <2>1, <2>3
  <2>5. c \in Seq(S) /\ Len(c) = k + 1
    BY <1>4, <1>7, <2>4
  <2>6. k + 1 # 0
    BY <1>4
  <2> QED
    BY <2>1, <2>5, <2>6
<1>10. Tail(c) = [i \in 1..k |-> d[s[i + 1]]]
  <2>1. Tail(c) = [i \in 1..k |-> c[i + 1]]
    <3>1. PICK S : S = {d[m] : m \in Nodes}
      OBVIOUS
    <3>2. c \in Seq(S) /\ Len(c) = k + 1 /\ c # <<>>
      BY <1>9, <3>1
    <3>3. PICK u : u = Tail(c)
      OBVIOUS
    <3>4. u \in Seq(S) /\ Len(u) = Len(c) - 1 /\ \A i \in 1..Len(u) : u[i] = c[i + 1]
      BY <3>2, <3>3, HeadTailProperties
    <3>5. Len(u) = k
      BY <1>4, <3>2, <3>4
    <3>6. u \in [1..k -> S]
      BY <3>4, <3>5, LenProperties
    <3>7. u = [i \in 1..k |-> c[i + 1]]
      BY <3>4, <3>5, <3>6
    <3> QED
      BY <3>3, <3>7
  <2>2. \A i \in 1..k : c[i + 1] = d[s[i + 1]]
    <3>1. \A i \in 1..k : i + 1 \in 1..(k + 1)
      BY <1>4
    <3>2. \A j \in 1..(k + 1) : c[j] = d[s[j]]
      BY <1>5, <1>7
    <3> QED
      BY <3>1, <3>2
  <2> QED
    BY <2>1, <2>2
<1> QED
  BY <1>6, <1>8, <1>9, <1>10

-----------------------------------------------------------------------------
(***************************************************************************)
(* The queue of values, step by step.                                      *)
(***************************************************************************)
Calling == [t \in Threads |->
  IF Enqueueing(t)
  THEN [i \in DOMAIN Held(t) |-> IF i = 1 THEN value[t] ELSE user_data[Held(t)[i]]]
  ELSE <<>>]

\* The steps of the queue of values, with what they are made of here.
Same == UNCHANGED <<Contents, Calling, Waiting, sawEmpty, misplaced>>
Calls(t, v) ==
  /\ Calling[t] = <<>> /\ t \notin Waiting /\ v \in Values
  /\ Calling' = [Calling EXCEPT ![t] = <<v>>]
  /\ UNCHANGED <<Contents, Waiting, sawEmpty, misplaced>>
Does(t) ==
  /\ Calling[t] # <<>> /\ Contents' = Contents \o Calling[t]
  /\ Calling' = [Calling EXCEPT ![t] = <<>>]
  /\ UNCHANGED <<Waiting, sawEmpty, misplaced>>
Hangs(t, u) ==
  /\ u # t /\ Calling[t] # <<>> /\ Calling[u] # <<>>
  /\ Calling' = [Calling EXCEPT ![u] = @ \o Calling[t], ![t] = <<>>]
  /\ misplaced' = TRUE
  /\ UNCHANGED <<Contents, Waiting, sawEmpty>>
Asks(t) ==
  /\ Calling[t] = <<>> /\ t \notin Waiting
  /\ Waiting' = Waiting \union {t}
  /\ sawEmpty' = IF Contents = <<>> THEN sawEmpty \union {t} ELSE sawEmpty
  /\ UNCHANGED <<Contents, Calling, misplaced>>
Gets(t) ==
  /\ t \in Waiting /\ Contents # <<>>
  /\ Contents' = Tail(Contents) /\ Waiting' = Waiting \ {t}
  /\ sawEmpty' = IF Contents' = <<>> THEN Waiting' ELSE sawEmpty \ {t}
  /\ UNCHANGED <<Calling, misplaced>>
Finds(t) ==
  /\ t \in sawEmpty
  /\ Waiting' = Waiting \ {t} /\ sawEmpty' = sawEmpty \ {t}
  /\ UNCHANGED <<Contents, Calling, misplaced>>
Steps(t) ==
  \/ Same \/ Does(t) \/ Asks(t) \/ Gets(t) \/ Finds(t)
  \/ \E v : Calls(t, v)
  \/ \E u \in Threads : Hangs(t, u)

\* These are the steps of the queue of values.
LEMMA LooseSteps ==
  ASSUME NEW t \in Threads, Steps(t)
  PROVE  Loose!Next \/ UNCHANGED Loose!vars
<1>1. CASE Same
  BY <1>1 DEF Same, Calling, Loose!vars
<1>2. ASSUME NEW v, Calls(t, v) PROVE Loose!CallEnqueue(t)
  BY <1>2 DEF Calls, Calling, Loose!CallEnqueue, Loose!Idle
<1>3. Does(t) => Loose!DoEnqueue(t)
  BY DEF Does, Calling, Loose!DoEnqueue
<1>4. Asks(t) => Loose!CallDequeue(t)
  BY DEF Asks, Calling, Loose!CallDequeue, Loose!Idle
<1>5. Gets(t) => Loose!DoDequeue(t)
  BY DEF Gets, Calling, Loose!DoDequeue
<1>6. Finds(t) => Loose!FindEmpty(t)
  BY DEF Finds, Calling, Loose!FindEmpty
<1>7. ASSUME NEW u \in Threads, Hangs(t, u) PROVE Loose!Hang(t, u)
  BY <1>7 DEF Hangs, Calling, Loose!Hang
<1> QED
  BY <1>1, <1>2, <1>3, <1>4, <1>5, <1>6, <1>7 DEF Steps, Loose!Next

\* What a thread brings, from the rows: the value of its enqueue, and those linked behind its element.
Part(rows, t) == IF Enqueueing(t) THEN Brings(rows[t], value[t], user_data) ELSE <<>>

LEMMA CallingIs ==
  ASSUME NEW rows, Shape(rows)
  PROVE  Calling = [t \in Threads |-> Part(rows, t)]
<1>1. \A t \in Threads : Held(t) = rows[t]
  BY HeldIsRow
<1> QED
  BY <1>1 DEF Calling, Part, Brings

\* And after a step, from the rows after it.
LEMMA CallingNext ==
  ASSUME NEW new
  PROVE  (Shape(new) => Calling = [t \in Threads |-> Part(new, t)])'
<1>1. Shape(new) => Calling = [t \in Threads |-> Part(new, t)]
  BY CallingIs
<1> QED
  BY <1>1, PTL

\* A step writes no value but that of the first element of its thread's row.
OwnData(rows, t) ==
  \A n \in Nodes : user_data'[n] = user_data[n] \/ (rows[t] # <<>> /\ rows[t][1] = n)

\* What a thread brings depends on the elements behind its own.
LEMMA SameBrings ==
  ASSUME NEW r \in Seq(Nodes), NEW v, NEW d, NEW e, \A i \in 1..Len(r) : i # 1 => e[r[i]] = d[r[i]]
  PROVE  Brings(r, v, e) = Brings(r, v, d)
<1>1. DOMAIN r = 1..Len(r)
  OBVIOUS
<1> QED
  BY <1>1 DEF Brings

\* Another thread whose row stays brings what it brought.
LEMMA CallingStays ==
  ASSUME NEW rows, NEW new, Shape(rows), Shape(new)', NEW t \in Threads, Others(t), OwnData(rows, t),
         NEW u \in Threads \ {t}, new[u] = rows[u]
  PROVE  Calling'[u] = Calling[u]
<1>1. PICK r : r = rows[u]
  OBVIOUS
<1>2. r \in Seq(Nodes) /\ t \in Owners /\ u \in Owners /\ t # u /\ Rows(rows) /\ Len(r) \in Nat
  BY <1>1, QueueIsOwner, RowTypes DEF Shape
<1>3. \A i \in 1..Len(r) : user_data'[r[i]] = user_data[r[i]]
  <2> SUFFICES ASSUME NEW i \in 1..Len(r), rows[t] # <<>>, rows[t][1] = r[i] PROVE FALSE
    <3>1. \A i \in 1..Len(r) : r[i] \in Nodes
      BY <1>2
    <3> QED
      BY <3>1 DEF OwnData
  <2>1. 1 \in 1..Len(rows[t])
    BY <1>2, RowTypes
  <2> QED
    BY <1>1, <1>2, <2>1 DEF Rows
<1>4. Brings(r, value[u], user_data') = Brings(r, value[u], user_data)
  BY <1>2, <1>3, SameBrings
<1>5. (Enqueueing(u)' <=> Enqueueing(u)) /\ value'[u] = value[u]
  BY DEF Others, Enqueueing
<1>6. Calling[u] = Part(rows, u)
  BY CallingIs
<1>7. Calling'[u] = Part(new, u)'
  BY CallingNext
<1> QED
  BY <1>1, <1>4, <1>5, <1>6, <1>7 DEF Part

\* A function of the threads that changes for one of them.
LEMMA OnlyCalling ==
  ASSUME NEW t \in Threads, \A u \in Threads \ {t} : Calling'[u] = Calling[u]
  PROVE  /\ Calling' = [Calling EXCEPT ![t] = Calling'[t]]
         /\ Calling'[t] = Calling[t] => UNCHANGED Calling
<1>1. PICK a, b : a = Calling /\ b = Calling'
  OBVIOUS
<1>2. DOMAIN a = Threads /\ a = [u \in Threads |-> a[u]]
  BY <1>1 DEF Calling
<1>3. DOMAIN b = Threads /\ b = [u \in Threads |-> b[u]]
  BY <1>1 DEF Calling
<1>4. \A u \in Threads \ {t} : b[u] = a[u]
  BY <1>1
<1>5. b = [a EXCEPT ![t] = b[t]]
  BY <1>2, <1>3, <1>4
<1>6. b[t] = a[t] => b = a
  BY <1>2, <1>3, <1>4
<1> QED
  BY <1>1, <1>5, <1>6

\* The others bring what they brought, while their rows stay; and what does not enqueue brings nothing.
LEMMA OthersCall ==
  ASSUME NEW rows, NEW new, Shape(rows), Shape(new)', NEW t \in Threads, Others(t), OwnData(rows, t),
         \A u \in Threads \ {t} : new[u] = rows[u]
  PROVE  /\ Calling' = [Calling EXCEPT ![t] = Part(new, t)']
         /\ Part(new, t)' = Part(rows, t) => UNCHANGED Calling
<1>1. \A u \in Threads \ {t} : Calling'[u] = Calling[u]
  BY CallingStays
<1>2. Calling[t] = Part(rows, t)
  BY CallingIs
<1>3. Calling'[t] = Part(new, t)'
  BY CallingNext
<1> QED
  BY <1>1, <1>2, <1>3, OnlyCalling

\* The others wait as they did.
LEMMA OthersAsk ==
  ASSUME NEW t \in Threads, Others(t)
  PROVE  /\ ((t \in Waiting)' <=> t \in Waiting) => UNCHANGED Waiting
         /\ (t \in Waiting)' => Waiting' = Waiting \union {t}
         /\ (t \notin Waiting)' => Waiting' = Waiting \ {t}
<1>1. \A u \in Threads \ {t} : (u \in Waiting)' <=> u \in Waiting
  BY OthersWait
<1>2. Waiting \subseteq Threads /\ (Waiting \subseteq Threads)'
  BY DEF Waiting
<1> QED
  BY <1>1, <1>2

\* An enqueue that takes an element is the call of one.
LEMMA TakesLoose ==
  ASSUME NEW rows, InvWith(rows), NEW t \in Threads, NEW n, Takes(t, n)
  PROVE  \E v : Calls(t, v)
<1>1. Types /\ Shape(rows)
  BY DEF InvWith
<1>2. /\ pc[t] = "idle" /\ pc'[t] = "initPointer" /\ UNCHANGED <<user_data, sawEmpty, misplaced>> /\ Others(t)
      /\ called[t] < MaxCalls /\ called' = [called EXCEPT ![t] = @ + 1]
      /\ value' = [value EXCEPT ![t] = <<t, called'[t]>>]
  BY <1>1, TakesWrites DEF Takes, Take
<1>3. PICK p : p = <<t, called[t] + 1>>
  OBVIOUS
<1>4. p \in Values /\ called'[t] = called[t] + 1
  BY <1>1, <1>2, <1>3, CallsGrow
<1>5. value'[t] = p
  BY <1>1, <1>2, <1>3, <1>4 DEF Types
<1>6. Enqueueing(t)' /\ ~Enqueueing(t) /\ t \notin Waiting /\ (t \notin Waiting)'
  BY <1>2 DEF Enqueueing, Waiting
<1>7. Calling[t] = <<>>
  BY <1>6 DEF Calling
<1>8. PICK new : new = [rows EXCEPT ![t] = <<n>>]
  OBVIOUS
<1>9. Shape(new)'
  BY <1>1, <1>8, TakesShape
<1>10. t # Queue /\ Queue \in Owners /\ t \in Owners /\ rows \in [Owners -> Seq(Nodes)]
  BY <1>1, QueueIsOwner DEF Shape, Rows
<1>11. new[Queue] = rows[Queue] /\ new[t] = <<n>> /\ \A u \in Threads \ {t} : new[u] = rows[u]
  BY <1>8, <1>10, QueueIsOwner
<1>12. UNCHANGED Contents
  BY <1>1, <1>2, <1>9, <1>11, SameContents
<1>13. Brings(<<n>>, p, user_data') = <<p>>
  BY DEF Brings
<1>14. Part(new, t)' = <<p>>
  BY <1>5, <1>6, <1>11, <1>13 DEF Part
<1>15. OwnData(rows, t)
  BY <1>2 DEF OwnData
<1>16. Calling' = [Calling EXCEPT ![t] = <<p>>] /\ UNCHANGED Waiting
  BY <1>1, <1>2, <1>6, <1>9, <1>11, <1>14, <1>15, OthersCall, OthersAsk
<1> QED
  BY <1>2, <1>4, <1>6, <1>7, <1>12, <1>16 DEF Calls

\* The preparation of an element is no step of the queue of values.
LEMMA InitLoose ==
  ASSUME NEW rows, InvWith(rows), NEW t \in Threads, InitPointer(t) \/ InitCounter(t)
  PROVE  Same
<1>1. Types /\ Shape(rows)
  BY DEF InvWith
<1>2. /\ pc[t] \in {"initPointer", "initCounter"} /\ pc'[t] \in {"initCounter", "enqReadPointer"}
      /\ UNCHANGED <<value, sawEmpty, misplaced>> /\ Others(t)
      /\ \A n \in Nodes \ {qe[t]} : user_data'[n] = user_data[n]
  BY <1>1, InitPointerWrites, InitCounterWrites DEF history
<1>3. Shape(rows)'
  BY <1>1, InitPointerShape, InitCounterShape
<1>4. ~In(rows, Queue, qe[t])
  BY <1>1, <1>2, FirstOfRow DEF Holding, Preparing, Ready
<1>5. UNCHANGED Contents
  BY <1>1, <1>2, <1>3, <1>4, SameContents
<1>6. Enqueueing(t) /\ Enqueueing(t)' /\ t \notin Waiting /\ (t \notin Waiting)' /\ Holding(t)
  BY <1>2 DEF Enqueueing, Waiting, Holding, Preparing
<1>7. PICK r : r = rows[t]
  OBVIOUS
<1>8. r \in Seq(Nodes) /\ r # <<>> /\ r[1] = qe[t] /\ Len(r) \in Nat
      /\ \A i, j \in 1..Len(r) : r[i] = r[j] => i = j
  BY <1>1, <1>6, <1>7, QueueIsOwner DEF Shape, Heads, Rows
<1>9. OwnData(rows, t)
  BY <1>2, <1>7, <1>8 DEF OwnData
<1>10. \A i \in 1..Len(r) : i # 1 => user_data'[r[i]] = user_data[r[i]]
  <2>1. 1 \in 1..Len(r) /\ \A i \in 1..Len(r) : r[i] \in Nodes
    BY <1>8
  <2> QED
    BY <1>2, <1>8, <2>1
<1>11. Brings(r, value[t], user_data') = Brings(r, value[t], user_data)
  BY <1>8, <1>10, SameBrings
<1>12. Part(rows, t)' = Part(rows, t)
  BY <1>2, <1>6, <1>7, <1>11 DEF Part
<1>13. UNCHANGED <<Calling, Waiting>>
  BY <1>1, <1>2, <1>3, <1>6, <1>9, <1>12, OthersCall, OthersAsk
<1> QED
  BY <1>2, <1>5, <1>13 DEF Same

\* Nor is the return of an element.
LEMMA ReturnLoose ==
  ASSUME NEW rows, InvWith(rows), NEW t \in Threads, DequeueReturn(t)
  PROVE  Same
<1>1. Types /\ Shape(rows)
  BY DEF InvWith
<1>2. /\ pc[t] = "deqFree" /\ pc'[t] = "idle" /\ UNCHANGED <<user_data, sawEmpty, misplaced>> /\ Others(t)
  BY <1>1, ReturnWrites DEF history
<1>3. PICK new : new = [rows EXCEPT ![t] = <<>>]
  OBVIOUS
<1>4. Shape(new)'
  BY <1>1, <1>3, ReturnShape
<1>5. new[Queue] = rows[Queue] /\ \A u \in Threads \ {t} : new[u] = rows[u]
  BY <1>1, <1>3, QueueIsOwner DEF Shape, Rows
<1>6. UNCHANGED Contents
  BY <1>1, <1>2, <1>4, <1>5, SameContents
<1>7. ~Enqueueing(t) /\ ~Enqueueing(t)' /\ t \notin Waiting /\ (t \notin Waiting)'
  BY <1>2 DEF Enqueueing, Waiting
<1>8. OwnData(rows, t)
  BY <1>2 DEF OwnData
<1>9. Part(new, t)' = Part(rows, t)
  BY <1>7 DEF Part
<1>10. UNCHANGED <<Calling, Waiting>>
  BY <1>1, <1>2, <1>4, <1>5, <1>7, <1>8, <1>9, OthersCall, OthersAsk
<1> QED
  BY <1>2, <1>6, <1>10 DEF Same

\* A dequeue takes the oldest value when it moves dequeue.
LEMMA AdvanceLoose ==
  ASSUME NEW rows, InvWith(rows), NEW t \in Threads, Advance(t)
  PROVE  Gets(t)
<1>1. Types /\ Shape(rows) /\ ReadsDequeue(t) /\ sawEmpty \subseteq Waiting
  BY DEF InvWith, Knows, Emptied
<1>2. PICK e : e = dequeue.ptr
  OBVIOUS
<1>3. PICK new : new = Passed(rows, t, e)
  OBVIOUS
<1>4. /\ pc[t] = "deqSwap" /\ pc'[t] = "deqFree" /\ UNCHANGED <<user_data, misplaced>> /\ Others(t)
      /\ sawEmpty' = (IF Len(Contents) = 1 THEN Waiting ELSE sawEmpty) \ {t}
  BY <1>1, AdvanceWrites
<1>5. Shape(new)'
  BY <1>1, <1>2, <1>3, AdvanceShape
<1>6. Len(rows[Queue]) >= 2
  BY <1>1, <1>2, AdvanceShape
<1>7. new[Queue] = Tail(rows[Queue]) /\ \A u \in Threads \ {t} : new[u] = rows[u]
  BY <1>1, <1>3, QueueIsOwner DEF Passed, Shape, Rows
<1>8. Contents' = Tail(Contents) /\ Contents # <<>>
  BY <1>1, <1>4, <1>5, <1>6, <1>7, PassedContents
<1>9. Contents' = <<>> <=> Len(Contents) = 1
  <2>1. PICK c, S : c = Contents /\ S = {user_data[n] : n \in Nodes}
    OBVIOUS
  <2>2. c \in Seq(S) /\ c # <<>>
    BY <1>1, <1>8, <2>1, ContentsLength
  <2>3. PICK u : u = Tail(c)
    OBVIOUS
  <2>4. u \in Seq(S) /\ Len(u) = Len(c) - 1 /\ Len(c) \in Nat
    BY <2>2, <2>3, HeadTailProperties
  <2>5. u = <<>> <=> Len(c) = 1
    BY <2>4
  <2> QED
    BY <1>8, <2>1, <2>3, <2>5
<1>10. ~Enqueueing(t) /\ ~Enqueueing(t)' /\ t \in Waiting /\ (t \notin Waiting)'
  BY <1>4 DEF Enqueueing, Waiting
<1>11. OwnData(rows, t)
  BY <1>4 DEF OwnData
<1>12. Part(new, t)' = Part(rows, t)
  BY <1>10 DEF Part
<1>13. UNCHANGED Calling /\ Waiting' = Waiting \ {t}
  BY <1>1, <1>4, <1>5, <1>7, <1>10, <1>11, <1>12, OthersCall, OthersAsk
<1> QED
  BY <1>4, <1>8, <1>9, <1>10, <1>13 DEF Gets

\* The value of an enqueue, with those that hang behind it, enters when its element is linked to the
\* last one of the list; linked to one that is being prepared, it hangs behind the value of that one.
LEMMA LinksLoose ==
  ASSUME NEW rows, InvWith(rows), NEW t \in Threads, Links(t)
  PROVE  Does(t) \/ \E u \in Threads : Hangs(t, u)
<1>1. Types /\ Shape(rows) /\ Times(rows) /\ Kept(rows) /\ Replaces(rows, t)
  BY DEF InvWith, Knows
<1>2. PICK o : LinksTo(rows, t, o)
  BY <1>1, LinkTarget
<1>3. PICK m : m = enq[t].ptr
  OBVIOUS
<1>4. /\ m \in Nodes /\ pc[t] = "enqSwap" /\ pc'[t] = "enqSwing" /\ Others(t)
      /\ UNCHANGED <<user_data, local, sawEmpty>>
      /\ misplaced' = (misplaced \/ ~InList(m)) /\ misplaced \in BOOLEAN
  BY <1>1, <1>3, LinksWrites DEF Types
<1>5. o \in Owners /\ o # t /\ Open(o) /\ In(rows, o, m) /\ Queue \in Owners /\ t \in Owners
      /\ t # Queue /\ Rows(rows)
  BY <1>1, <1>2, <1>3, QueueIsOwner DEF LinksTo, Shape
<1>6. PICK new : new = Join(rows, o, t)
  OBVIOUS
<1>7. Shape(new)'
  BY <1>1, <1>3, <1>5, <1>6, LinksShape
<1>8. /\ new[o] = rows[o] \o rows[t] /\ \A q \in Owners \ {o, t} : new[q] = rows[q]
      /\ rows[o] \in Seq(Nodes) /\ rows[t] \in Seq(Nodes)
  BY <1>5, <1>6 DEF Join, Rows
<1>9. OwnData(rows, t)
  BY <1>4 DEF OwnData
<1>10. Ready(t) /\ Holding(t) /\ Enqueueing(t) /\ ~Enqueueing(t)' /\ t \notin Waiting /\ (t \notin Waiting)'
  BY <1>4 DEF Ready, Holding, Enqueueing, Waiting
<1>11. Calling[t] = Plain(rows[t], user_data) /\ Calling[t] # <<>>
  <2>1. rows[t] # <<>> /\ rows[t][1] = qe[t]
    BY <1>1, <1>10 DEF Shape, Heads
  <2>2. user_data[rows[t][1]] = value[t]
    BY <1>1, <1>10, <2>1 DEF Kept
  <2>3. Brings(rows[t], value[t], user_data) = Plain(rows[t], user_data)
    BY <2>2, BringsPlain
  <2>4. Calling[t] = Plain(rows[t], user_data)
    BY <1>1, <1>10, <2>3, CallingIs DEF Part
  <2>5. PICK r, c : r = rows[t] /\ c = Plain(r, user_data)
    OBVIOUS
  <2>6. DOMAIN c = DOMAIN r /\ r # <<>> /\ r \in Seq(Nodes)
    BY <1>8, <2>1, <2>5 DEF Plain
  <2>7. c # <<>>
    BY <2>6
  <2> QED
    BY <2>4, <2>5, <2>7
<1>12. Part(new, t)' = <<>>
  BY <1>10 DEF Part
<1>13. UNCHANGED Waiting
  BY <1>4, <1>10, OthersAsk
<1>14. CASE o = Queue
  <2>1. \A u \in Threads \ {t} : new[u] = rows[u]
    BY <1>8, <1>14, QueueIsOwner
  <2>2. Calling' = [Calling EXCEPT ![t] = <<>>]
    BY <1>1, <1>4, <1>7, <1>9, <1>12, <2>1, OthersCall
  <2>3. UNCHANGED user_data /\ new[Queue] = rows[Queue] \o rows[t]
    BY <1>4, <1>8, <1>14
  <2>4. Contents' = Contents \o Plain(rows[t], user_data)
    BY <1>1, <1>7, <1>8, <2>3, LinkedContents
  <2>5. UNCHANGED misplaced
    BY <1>1, <1>4, <1>5, <1>14, QueueIsList
  <2>6. Does(t)
    BY <1>4, <1>11, <1>13, <2>2, <2>4, <2>5 DEF Does
  <2> QED
    BY <2>6
<1>15. CASE o # Queue
  <2>1. o \in Threads \ {t} /\ ~Alone(o)
    BY <1>5, <1>15 DEF Open, Owners
  <2>2. rows[o] # <<>>
    <3>1. PICK i \in 1..Len(rows[o]) : rows[o][i] = m
      BY <1>5 DEF In
    <3> QED
      BY <1>8, <3>1
  <2>3. Holding(o)
    BY <1>1, <2>1, <2>2 DEF Shape, Heads
  <2>4. Enqueueing(o) /\ Enqueueing(o)' /\ value'[o] = value[o]
    BY <1>4, <2>1, <2>3 DEF Others, Alone, Holding, Preparing, Ready, Enqueueing
  <2>5. PICK c, d : c = Calling /\ d = Calling'
    OBVIOUS
  <2>6. c[o] = Brings(rows[o], value[o], user_data)
    BY <1>1, <2>1, <2>4, <2>5, CallingIs DEF Part
  <2>7. d[o] = Brings(new[o], value[o], user_data)
    <3>1. Calling'[o] = Part(new, o)'
      BY <1>7, <2>1, CallingNext
    <3> QED
      BY <1>4, <2>4, <2>5, <3>1 DEF Part
  <2>8. d[o] = c[o] \o c[t]
    <3>1. PICK r, p, v, e : r = rows[o] /\ p = rows[t] /\ v = value[o] /\ e = user_data
      OBVIOUS
    <3>2. r \in Seq(Nodes) /\ p \in Seq(Nodes) /\ r # <<>>
      BY <1>8, <2>2, <3>1
    <3>3. Brings(r \o p, v, e) = Brings(r, v, e) \o Plain(p, e)
      BY <3>2, LinkedBrings
    <3>4. d[o] = Brings(r \o p, v, e) /\ c[o] = Brings(r, v, e) /\ c[t] = Plain(p, e)
      BY <1>8, <1>11, <2>5, <2>6, <2>7, <3>1
    <3> QED
      BY <3>3, <3>4
  <2>9. d[t] = <<>>
    <3>1. Calling'[t] = Part(new, t)'
      BY <1>7, CallingNext
    <3> QED
      BY <1>12, <2>5, <3>1
  <2>10. \A u \in Threads \ {t, o} : d[u] = c[u]
    <3>1. \A u \in Threads \ {t, o} : new[u] = rows[u]
      BY <1>8, QueueIsOwner
    <3>2. \A u \in Threads \ {t, o} : Calling'[u] = Calling[u]
      BY <1>1, <1>4, <1>7, <1>9, <3>1, CallingStays
    <3> QED
      BY <2>5, <3>2
  <2>11. d = [c EXCEPT ![o] = @ \o c[t], ![t] = <<>>]
    <3>1. DOMAIN c = Threads /\ d = [u \in Threads |-> d[u]]
      BY <2>5 DEF Calling
    <3>2. PICK w : w = c[o] \o c[t]
      OBVIOUS
    <3>3. d = [c EXCEPT ![o] = w, ![t] = <<>>]
      BY <2>1, <2>8, <2>9, <2>10, <3>1, <3>2
    <3> QED
      BY <2>1, <3>1, <3>2, <3>3
  <2>12. c[o] # <<>>
    <3>1. PICK r, v, e : r = rows[o] /\ v = value[o] /\ e = user_data
      OBVIOUS
    <3>2. DOMAIN c[o] = DOMAIN r /\ r # <<>> /\ r \in Seq(Nodes)
      BY <1>8, <2>2, <2>6, <3>1 DEF Brings
    <3> QED
      BY <3>2
  <2>13. misplaced' = TRUE
    <3>1. ~In(rows, Queue, m)
      BY <1>5, <1>15, OneRow
    <3> QED
      BY <1>1, <1>4, <3>1, QueueIsList
  <2>14. UNCHANGED Contents
    BY <1>1, <1>4, <1>5, <1>7, <1>8, <1>15, SameContents
  <2>15. Hangs(t, o)
    BY <1>4, <1>11, <1>13, <2>1, <2>5, <2>11, <2>12, <2>13, <2>14 DEF Hangs
  <2> QED
    BY <2>1, <2>15
<1> QED
  BY <1>14, <1>15

\* A dequeue is called, finds the queue empty, or a thread reads.
LEMMA QuietLoose ==
  ASSUME NEW rows, InvWith(rows), NEW t \in Threads, Quiet(t)
  PROVE  Same \/ Asks(t) \/ Finds(t)
<1>1. Types /\ Shape(rows) /\ Emptied(rows)
  BY DEF InvWith
<1>2. Still /\ Others(t) /\ UNCHANGED <<user_data, misplaced>>
  BY <1>1, QuietWrites DEF Still
<1>3. Shape(rows)'
  BY <1>1, <1>2, StillShape
<1>4. UNCHANGED Contents
  BY <1>1, <1>2, <1>3, SameContents
<1>5. (Enqueueing(t)' <=> Enqueueing(t)) /\ (Enqueueing(t) => value'[t] = value[t])
  BY <1>1, QuietGoes DEF Goes, Ready, Enqueueing
<1>6. UNCHANGED Calling
  <2>1. OwnData(rows, t)
    BY <1>2 DEF OwnData
  <2>2. Part(rows, t)' = Part(rows, t)
    BY <1>2, <1>5 DEF Part
  <2> QED
    BY <1>1, <1>2, <1>3, <2>1, <2>2, OthersCall
<1>7. CASE Dequeue(t) /\ pc[t] = "idle"
  <2>1. ~Enqueueing(t) /\ t \notin Waiting /\ (t \in Waiting)'
    BY <1>1, <1>7 DEF Enqueueing, Waiting, Dequeue, Goto, Types
  <2>2. Calling[t] = <<>> /\ Waiting' = Waiting \union {t}
    BY <1>2, <2>1, OthersAsk DEF Calling
  <2> QED
    BY <1>2, <1>4, <1>6, <1>7, <2>1, <2>2 DEF Asks, Dequeue
<1>8. CASE DequeueEmpty(t)
  <2>1. pc[t] = "deqState" /\ nxt[t].ptr = Null /\ sawEmpty' = sawEmpty \ {t} /\ pc'[t] = "idle"
    BY <1>1, <1>8 DEF DequeueEmpty, Return, Goto, Types
  <2>2. t \in sawEmpty /\ (t \notin Waiting)'
    BY <1>1, <2>1 DEF Emptied, Waiting
  <2>3. Waiting' = Waiting \ {t}
    BY <1>2, <2>2, OthersAsk
  <2> QED
    BY <1>2, <1>4, <1>6, <2>1, <2>2, <2>3 DEF Finds
<1>9. ASSUME UNCHANGED sawEmpty, (t \in Waiting)' <=> t \in Waiting PROVE Same
  <2>1. UNCHANGED Waiting
    BY <1>2, <1>9, OthersAsk
  <2> QED
    BY <1>2, <1>4, <1>6, <1>9, <2>1 DEF Same
<1>10. CASE Dequeue(t) /\ pc[t] = "deqReadPointer"
  <2>1. UNCHANGED sawEmpty /\ ((t \in Waiting)' <=> t \in Waiting)
    BY <1>1, <1>10 DEF Dequeue, Goto, Types, Waiting
  <2> QED
    BY <1>9, <2>1
<1>11. CASE EnqueueReads(t) \/ DequeueReads(t)
  <2>1. UNCHANGED sawEmpty /\ ((t \in Waiting)' <=> t \in Waiting)
    BY <1>1, <1>11 DEF EnqueueReads, DequeueReads, ReadEnqueue, ReadNext, Read, Check, Again, Goto, Types, Waiting, history
  <2> QED
    BY <1>9, <2>1
<1>12. CASE LinkFails(t) \/ HelpEnqueue(t) \/ EnqueueReturn(t) \/ HelpDequeue(t) \/ ReadData(t) \/ AdvanceFails(t)
  <2>1. UNCHANGED sawEmpty /\ ((t \in Waiting)' <=> t \in Waiting)
    BY <1>1, <1>12 DEF LinkFails, Link, HelpEnqueue, EnqueueReturn, HelpDequeue, ReadData, AdvanceFails,
       Again, Return, Goto, Types, Waiting, history
  <2> QED
    BY <1>9, <2>1
<1> QED
  BY <1>7, <1>8, <1>10, <1>11, <1>12 DEF Quiet, Dequeue

\* Every step is one of the queue of values, or changes nothing of it.
LEMMA NextLoose == IInv /\ [Next]_vars => Loose!Next \/ UNCHANGED Loose!vars
<1> SUFFICES ASSUME NEW rows, InvWith(rows), [Next]_vars
             PROVE  Loose!Next \/ UNCHANGED Loose!vars
  BY DEF IInv
<1>1. ASSUME UNCHANGED <<shared, pc, local, sawEmpty, misplaced>> PROVE Same
  BY <1>1 DEF Same, Contents, ListFrom, Calling, Held, Enqueueing, Waiting, shared, local
<1>2. CASE UNCHANGED vars
  <2>1. Same
    BY <1>1, <1>2 DEF vars, history
  <2> QED
    BY <2>1 DEF Same, Calling, Loose!vars
<1>3. ASSUME NEW t \in Threads, Call(t) \/ Go(t) PROVE Loose!Next \/ UNCHANGED Loose!vars
  <2>1. \/ \E n : Takes(t, n)
        \/ EnqueueRefused(t) \/ Quiet(t)
        \/ InitPointer(t) \/ InitCounter(t) \/ Links(t) \/ Advance(t) \/ DequeueReturn(t)
    BY <1>3, Kinds DEF InvWith
  <2>2. EnqueueRefused(t) => Same
    BY <1>1 DEF EnqueueRefused
  <2>3. Steps(t)
    BY <2>1, <2>2, TakesLoose, InitLoose, ReturnLoose, LinksLoose, AdvanceLoose, QuietLoose DEF Steps
  <2> QED
    BY <2>3, LooseSteps
<1> QED
  BY <1>2, <1>3 DEF Next

\* Each operation takes effect at one moment between its call and its return, first in first out, or
\* hangs behind another enqueue and takes effect with that one.
THEOREM QueueRefines == Spec => ImplementsQueue
<1>1. Init => Loose!Init
  <2> SUFFICES ASSUME Init PROVE Loose!Init
    OBVIOUS
  <2>1. PICK rows : rows = [o \in Owners |-> IF o = Queue THEN <<Dummy>> ELSE <<>>]
    OBVIOUS
  <2>2. Shape(rows) /\ rows[Queue] = <<Dummy>>
    BY <2>1, InitShape, QueueIsOwner
  <2>3. Len(rows[Queue]) = 1
    BY <2>2
  <2>4. Contents = <<>>
    BY <2>2, <2>3, ContentsLength
  <2>5. \A t \in Threads : pc[t] = "idle"
    BY DEF Init
  <2>6. Waiting = {} /\ \A t \in Threads : ~Enqueueing(t)
    BY <2>5 DEF Waiting, Enqueueing
  <2>7. sawEmpty = {} /\ misplaced = FALSE
    BY DEF Init
  <2> QED
    BY <2>4, <2>6, <2>7 DEF Loose!Init
<1>2. IInv /\ [Next]_vars => [Loose!Next]_(Loose!vars)
  BY NextLoose
<1> QED
  BY <1>1, <1>2, AlwaysIInv, PTL DEF Spec, ImplementsQueue, Loose!Spec
=============================================================================
