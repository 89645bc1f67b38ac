------------------------------- MODULE LfQueue --------------------------------
(***************************************************************************)
(* liblfds' queue: a linked list whose first element is a dummy, with a    *)
(* pointer to the dummy (dequeue) and one to the last element or the one   *)
(* before (enqueue).  dequeue, enqueue and the next field of an element    *)
(* are volatile pairs of a pointer and a counter: lfds611_abstraction_dcas *)
(* compares and swaps both words at once, everything else accesses one     *)
(* word at a time, in program order.  One action per such access.  The     *)
(* freelist the elements come from is the atomic stack it implements.      *)
(***************************************************************************)
EXTENDS Naturals, Sequences, FiniteSets, Functions

CONSTANTS
  Threads,
  Running,          \* the threads the scheduler keeps running; the others may stop anywhere
  NumberElements,   \* the number_elements of lfds611_queue_new()
  MaxNodes,         \* bound: the elements malloc can give
  MaxCalls,         \* bound: how often each thread calls enqueue
  MaxAllCalls,      \* bound: and how often the threads together do
  Garbage           \* what qs->aba_counter may hold before it is initialised

ASSUME SizesAssumption ==
  /\ NumberElements \in Nat /\ MaxNodes \in Nat /\ NumberElements < MaxNodes
  /\ MaxCalls \in Nat /\ MaxAllCalls \in Nat
  /\ Garbage \subseteq Nat /\ Running \subseteq Threads

Null == 0
Nodes == 1..MaxNodes
Values == Threads \X (1..MaxCalls)
NoValue == <<>>

VARIABLES
  enqueue, dequeue,   \* qs->enqueue and qs->dequeue
  next,               \* qe->next of every element
  user_data,          \* qe->user_data of every element
  aba_counter,        \* qs->aba_counter
  free,               \* qs->fs, the element to be popped next first
  nodes,              \* how many elements exist
  pc,                 \* the access each thread is about to make
  qe,                 \* the element each thread enqueues, or has dequeued
  enq, deq, nxt,      \* enqueue, dequeue and next as each thread read them
  value,              \* the value a thread enqueues, or is about to return
  called,             \* history: thread t called enqueue with <<t, 1>> .. <<t, called[t]>>
  refused,            \* history: those it returned 0 for
  delivered,          \* history: the values dequeue returned
  sawEmpty,           \* history: the dequeues during which the queue was empty
  misplaced           \* history: an element was linked behind one outside the queue

shared == <<enqueue, dequeue, next, user_data, aba_counter, free, nodes>>
local == <<qe, enq, deq, nxt, value>>
history == <<called, refused, delivered, sawEmpty, misplaced>>
vars == <<shared, pc, local, history>>

Pair(p, c) == [ptr |-> p, ctr |-> c]
Nothing == Pair(Null, 0)

\* lfds611_queue_new(): the first element popped is the dummy.  Its counter comes from
\* aba_counter, which is set to 0 only after that.
Init ==
  /\ nodes = NumberElements + 1
  /\ free = [i \in 1..NumberElements |-> nodes - i]
  /\ enqueue = Pair(nodes, 0) /\ dequeue = Pair(nodes, 0)
  /\ aba_counter = 0
  /\ \E g \in Garbage : next = [n \in Nodes |-> IF n = nodes THEN Pair(Null, g + 2) ELSE Nothing]
  /\ user_data = [n \in Nodes |-> NoValue]
  /\ pc = [t \in Threads |-> "idle"]
  /\ qe = [t \in Threads |-> Null] /\ value = [t \in Threads |-> NoValue]
  /\ enq = [t \in Threads |-> Nothing] /\ deq = [t \in Threads |-> Nothing]
  /\ nxt = [t \in Threads |-> Nothing]
  /\ called = [t \in Threads |-> 0] /\ refused = {} /\ delivered = {} /\ sawEmpty = {}
  /\ misplaced = FALSE

-----------------------------------------------------------------------------
\* The elements linked after element n, n first (one more than there can be if they are a loop).
ListFrom(n) ==
  LET from[k \in 0..MaxNodes + 1] ==
        [m \in 0..MaxNodes |->
           IF k = 0 \/ m = Null THEN <<>> ELSE <<m>> \o from[k - 1][next[m].ptr]]
  IN from[MaxNodes + 1][n]

InList(n) == \E i \in DOMAIN ListFrom(dequeue.ptr) : ListFrom(dequeue.ptr)[i] = n

\* The values in the queue.
Contents == LET list == ListFrom(dequeue.ptr) IN [i \in 1..Len(list) - 1 |-> user_data[list[i + 1]]]

Goto(t, to) == pc' = [pc EXCEPT ![t] = to]

Return(t) ==
  /\ Goto(t, "idle")
  /\ qe' = [qe EXCEPT ![t] = Null] /\ value' = [value EXCEPT ![t] = NoValue]
  /\ enq' = [enq EXCEPT ![t] = Nothing] /\ deq' = [deq EXCEPT ![t] = Nothing]
  /\ nxt' = [nxt EXCEPT ![t] = Nothing]

\* Back to the head of the loop, what was read is read again.
Again(t, to) ==
  /\ Goto(t, to)
  /\ enq' = [enq EXCEPT ![t] = Nothing] /\ deq' = [deq EXCEPT ![t] = Nothing]
  /\ nxt' = [nxt EXCEPT ![t] = Nothing]
  /\ UNCHANGED <<qe, value>>

(***************************************************************************)
(* lfds611_queue_enqueue() and lfds611_queue_guaranteed_enqueue(): an      *)
(* element from the freelist or a new one, which                           *)
(* lfds611_queue_internal_init_element() prepares.                         *)
(***************************************************************************)
Take(t, n) ==
  /\ qe' = [qe EXCEPT ![t] = n]
  /\ called' = [called EXCEPT ![t] = @ + 1]
  /\ value' = [value EXCEPT ![t] = <<t, called'[t]>>]
  /\ aba_counter' = aba_counter + 1
  /\ Goto(t, "initPointer")
  /\ UNCHANGED <<enqueue, dequeue, next, user_data, enq, deq, nxt, refused, delivered, sawEmpty, misplaced>>

MayCall(t) == pc[t] = "idle" /\ called[t] < MaxCalls /\ FoldFunction(+, 0, called) < MaxAllCalls

Enqueue(t) ==
  /\ MayCall(t)
  /\ free # <<>>
  /\ free' = Tail(free)
  /\ Take(t, Head(free))
  /\ UNCHANGED nodes

EnqueueRefused(t) ==
  /\ MayCall(t)
  /\ free = <<>>
  /\ called' = [called EXCEPT ![t] = @ + 1]
  /\ refused' = refused \union {<<t, called'[t]>>}
  /\ UNCHANGED <<shared, pc, local, delivered, sawEmpty, misplaced>>

GuaranteedEnqueue(t) ==
  /\ MayCall(t)
  /\ nodes < MaxNodes
  /\ nodes' = nodes + 1
  /\ Take(t, nodes')
  /\ UNCHANGED free

InitPointer(t) ==
  /\ pc[t] = "initPointer"
  /\ next' = [next EXCEPT ![qe[t]].ptr = Null]
  /\ Goto(t, "initCounter")
  /\ UNCHANGED <<enqueue, dequeue, user_data, aba_counter, free, nodes, local, history>>

\* The value is stored into user_data by the same step: no thread that uses it can read it yet.
InitCounter(t) ==
  /\ pc[t] = "initCounter"
  /\ aba_counter' = aba_counter + 1
  /\ next' = [next EXCEPT ![qe[t]].ctr = aba_counter + 1]
  /\ user_data' = [user_data EXCEPT ![qe[t]] = value[t]]
  /\ Goto(t, "enqReadPointer")
  /\ UNCHANGED <<enqueue, dequeue, free, nodes, local, history>>

(***************************************************************************)
(* A read of one word of enqueue, dequeue or of a next field.              *)
(***************************************************************************)
Read(t, at, to) ==
  /\ pc[t] = at
  /\ Goto(t, to)
  /\ UNCHANGED <<shared, qe, value, history>>

ReadEnqueue(t, at, to, word) ==
  /\ Read(t, at, to)
  /\ enq' = [enq EXCEPT ![t][word] = enqueue[word]]
  /\ UNCHANGED <<deq, nxt>>

ReadNext(t, at, to, element, word) ==
  /\ Read(t, at, to)
  /\ nxt' = [nxt EXCEPT ![t][word] = next[element][word]]
  /\ UNCHANGED <<enq, deq>>

\* An operand of the second check; to when they are equal, back to the loop's head when not.
Check(t, at, to, head, equal) ==
  /\ pc[t] = at
  /\ IF equal THEN Goto(t, to) /\ UNCHANGED local ELSE Again(t, head)
  /\ UNCHANGED <<shared, history>>

MutSwing(t, to) ==
  /\ enqueue' = Pair(to, enq[t].ctr + 1)
  /\ UNCHANGED <<dequeue, next, user_data, aba_counter, nodes>>

\* The dcas that moves enqueue on to the element that follows it.
Swing(t, to) ==
  /\ enqueue' = IF enqueue = enq[t] THEN Pair(to, enq[t].ctr + 1) ELSE enqueue
  /\ UNCHANGED <<dequeue, next, user_data, aba_counter, nodes>>

(***************************************************************************)
(* lfds611_queue_internal_queue()                                          *)
(***************************************************************************)
EnqueueReads(t) ==
  \/ ReadEnqueue(t, "enqReadPointer", "enqReadCounter", "ptr")
  \/ ReadEnqueue(t, "enqReadCounter", "enqNextPointer", "ctr")
  \/ ReadNext(t, "enqNextPointer", "enqNextCounter", enq[t].ptr, "ptr")
  \/ ReadNext(t, "enqNextCounter", "enqCheckPointer", enq[t].ptr, "ctr")
  \/ Check(t, "enqCheckPointer", "enqCheckCounter", "enqReadPointer", enqueue.ptr = enq[t].ptr)
  \/ Check(t, "enqCheckCounter", "enqSwap", "enqReadPointer", enqueue.ctr = enq[t].ctr)

MutLink(t) ==
  /\ pc[t] = "enqSwap" /\ nxt[t].ptr = Null
  /\ next' = [next EXCEPT ![enq[t].ptr] = Pair(qe[t], nxt[t].ctr + 1)]
  /\ Goto(t, "enqSwing")
  /\ UNCHANGED <<enqueue, dequeue, user_data, aba_counter, free, nodes, local, history>>

Link(t) ==
  /\ pc[t] = "enqSwap" /\ nxt[t].ptr = Null
  /\ IF next[enq[t].ptr] = nxt[t]
     THEN /\ next' = [next EXCEPT ![enq[t].ptr] = Pair(qe[t], nxt[t].ctr + 1)]
          /\ misplaced' = (misplaced \/ ~InList(enq[t].ptr))
          /\ Goto(t, "enqSwing")
          /\ UNCHANGED local
     ELSE Again(t, "enqReadPointer") /\ UNCHANGED <<next, misplaced>>
  /\ UNCHANGED <<enqueue, dequeue, user_data, aba_counter, free, nodes, called, refused, delivered, sawEmpty>>

MutHelpEnqueue(t) ==
  /\ pc[t] = "enqSwap" /\ nxt[t].ptr # Null
  /\ Again(t, "enqReadPointer")
  /\ UNCHANGED <<shared, history>>

HelpEnqueue(t) ==
  /\ pc[t] = "enqSwap" /\ nxt[t].ptr # Null
  /\ Swing(t, nxt[t].ptr)
  /\ Again(t, "enqReadPointer")
  /\ UNCHANGED <<free, history>>

EnqueueReturn(t) ==
  /\ pc[t] = "enqSwing"
  /\ Swing(t, qe[t])
  /\ Return(t)
  /\ UNCHANGED <<free, history>>

(***************************************************************************)
(* lfds611_queue_dequeue().  The counter of next is read and never used.   *)
(***************************************************************************)
Dequeue(t) ==
  /\ pc[t] \in {"idle", "deqReadPointer"}
  /\ deq' = [deq EXCEPT ![t].ptr = dequeue.ptr]
  /\ Goto(t, "deqReadCounter")
  /\ sawEmpty' = IF pc[t] = "idle" /\ Contents = <<>> THEN sawEmpty \union {t} ELSE sawEmpty
  /\ UNCHANGED <<shared, qe, enq, nxt, value, called, refused, delivered, misplaced>>

DequeueReads(t) ==
  \/ /\ Read(t, "deqReadCounter", "deqEnqPointer")
     /\ deq' = [deq EXCEPT ![t].ctr = dequeue.ctr]
     /\ UNCHANGED <<enq, nxt>>
  \/ ReadEnqueue(t, "deqEnqPointer", "deqEnqCounter", "ptr")
  \/ ReadEnqueue(t, "deqEnqCounter", "deqNextPointer", "ctr")
  \/ ReadNext(t, "deqNextPointer", "deqCheckPointer", deq[t].ptr, "ptr")
  \/ Check(t, "deqCheckPointer", "deqCheckCounter", "deqReadPointer", dequeue.ptr = deq[t].ptr)
  \/ Check(t, "deqCheckCounter", "deqState", "deqReadPointer", dequeue.ctr = deq[t].ctr)

DequeueEmpty(t) ==
  /\ pc[t] = "deqState" /\ enq[t].ptr = deq[t].ptr /\ nxt[t].ptr = Null
  /\ Return(t)
  /\ sawEmpty' = sawEmpty \ {t}
  /\ UNCHANGED <<shared, called, refused, delivered, misplaced>>

HelpDequeue(t) ==
  /\ pc[t] = "deqState" /\ enq[t].ptr = deq[t].ptr /\ nxt[t].ptr # Null
  /\ Swing(t, nxt[t].ptr)
  /\ Again(t, "deqReadPointer")
  /\ UNCHANGED <<free, history>>

ReadData(t) ==
  /\ pc[t] = "deqState" /\ enq[t].ptr # deq[t].ptr
  /\ value' = [value EXCEPT ![t] = user_data[nxt[t].ptr]]
  /\ Goto(t, "deqSwap")
  /\ UNCHANGED <<shared, qe, enq, deq, nxt, history>>

\* The threads inside a dequeue that has not taken anything yet.
Waiting == {t \in Threads : pc[t] \in
  {"deqReadPointer", "deqReadCounter", "deqEnqPointer", "deqEnqCounter", "deqNextPointer",
   "deqCheckPointer", "deqCheckCounter", "deqState", "deqSwap"}}

MutCompare(t) == dequeue.ptr = deq[t].ptr

\* The dcas on dequeue; the element it passes was the dummy and is the thread's now.
Compare(t) == dequeue = deq[t]

Advance(t) ==
  /\ pc[t] = "deqSwap" /\ Compare(t)
  /\ dequeue' = Pair(nxt[t].ptr, deq[t].ctr + 1)
  /\ qe' = [qe EXCEPT ![t] = deq[t].ptr]
  /\ delivered' = delivered \union {value[t]}
  /\ sawEmpty' = (IF Len(Contents) = 1 THEN Waiting ELSE sawEmpty) \ {t}
  /\ Goto(t, "deqFree")
  /\ UNCHANGED <<enqueue, next, user_data, aba_counter, free, nodes, enq, deq, nxt, value, called, refused, misplaced>>

AdvanceFails(t) ==
  /\ pc[t] = "deqSwap" /\ ~Compare(t)
  /\ Goto(t, "deqReadPointer")
  /\ value' = [value EXCEPT ![t] = NoValue]
  /\ enq' = [enq EXCEPT ![t] = Nothing] /\ deq' = [deq EXCEPT ![t] = Nothing]
  /\ nxt' = [nxt EXCEPT ![t] = Nothing]
  /\ UNCHANGED <<shared, qe, history>>

DequeueReturn(t) ==
  /\ pc[t] = "deqFree"
  /\ free' = <<qe[t]>> \o free
  /\ Return(t)
  /\ UNCHANGED <<enqueue, dequeue, next, user_data, aba_counter, nodes, history>>

Go(t) ==
  \/ InitPointer(t) \/ InitCounter(t)
  \/ EnqueueReads(t) \/ Link(t) \/ HelpEnqueue(t) \/ EnqueueReturn(t)
  \/ pc[t] # "idle" /\ Dequeue(t)
  \/ DequeueReads(t) \/ DequeueEmpty(t) \/ HelpDequeue(t)
  \/ ReadData(t) \/ Advance(t) \/ AdvanceFails(t) \/ DequeueReturn(t)

Call(t) ==
  \/ Enqueue(t) \/ EnqueueRefused(t) \/ GuaranteedEnqueue(t)
  \/ pc[t] = "idle" /\ Dequeue(t)

Next == \E t \in Threads : Call(t) \/ Go(t)

Spec == Init /\ [][Next]_vars

\* Only the threads of Running are scheduled; another may stop in the middle of an operation.
FairSpec == Spec /\ \A t \in Running : WF_vars(Go(t))

-----------------------------------------------------------------------------
Enqueueing(t) == pc[t] \in {"initPointer", "initCounter", "enqReadPointer", "enqReadCounter",
  "enqNextPointer", "enqNextCounter", "enqCheckPointer", "enqCheckCounter", "enqSwap"}

\* Type invariant: no thread follows a null pointer.
TypeOK ==
  /\ enqueue \in [ptr : Nodes, ctr : Nat] /\ dequeue \in [ptr : Nodes, ctr : Nat]
  /\ next \in [Nodes -> [ptr : Nodes \union {Null}, ctr : Nat]]
  /\ user_data \in [Nodes -> Values \union {NoValue}]
  /\ nodes \in 0..MaxNodes /\ free \in Seq(1..nodes)
  /\ called \in [Threads -> 0..MaxCalls] /\ refused \in SUBSET Values /\ delivered \in SUBSET Values
  /\ \A t \in Threads :
       /\ pc[t] = "deqState" /\ enq[t].ptr # deq[t].ptr => nxt[t].ptr # Null
       /\ Enqueueing(t) => qe[t] # Null

\* The elements a sequence holds, counted per place.
CountIn(s, x) == {i \in DOMAIN s : s[i] = x}

(***************************************************************************)
(* Every element is in exactly one place: in the list from dequeue on, in  *)
(* the freelist, with a thread that prepares it or takes it out, or linked *)
(* behind an element that a thread is preparing.                           *)
(***************************************************************************)
Held(t) ==
  IF pc[t] \in {"initPointer", "deqFree"} THEN <<qe[t]>>
  ELSE IF Enqueueing(t) THEN ListFrom(qe[t]) ELSE <<>>
EveryElementOnce ==
  \A n \in 1..nodes :
    Cardinality(CountIn(ListFrom(dequeue.ptr), n)) + Cardinality(CountIn(free, n))
      + Cardinality({t \in Threads : CountIn(Held(t), n) # {}}) = 1

(***************************************************************************)
(* Every value enqueue() accepted is somewhere and in one place only: it   *)
(* was returned by one dequeue, or it is in an element of the queue or of  *)
(* an enqueue in progress.                                                 *)
(***************************************************************************)
Carriers(v) ==
  {n \in 1..nodes : user_data[n] = v
     /\ \/ n # dequeue.ptr /\ InList(n)
        \/ \E t \in Threads : Enqueueing(t) /\ pc[t] \notin {"initPointer", "initCounter"} /\ n = qe[t]
        \/ \E t \in Threads : n # qe[t] /\ CountIn(Held(t), n) # {}}
EveryValueOnce ==
  \A v \in {u \in Values : u[2] <= called[u[1]]} \ refused :
    \/ v \in delivered /\ Carriers(v) = {}
    \/ v \notin delivered /\ \E n \in Nodes : Carriers(v) = {n}
    \/ v \notin delivered /\ \E t \in Threads : pc[t] \in {"initPointer", "initCounter"} /\ value[t] = v

\* enqueue points into the list: it never falls behind dequeue, or to an element that is free.
EnqueueInList == InList(enqueue.ptr)

(***************************************************************************)
(* Lock freedom: a thread that keeps running returns from its operations,  *)
(* wherever the others have stopped; a dcas of it fails only because       *)
(* another succeeded, and with finitely many enqueues that ends.           *)
(***************************************************************************)
OperationsReturn == \A t \in Running : pc[t] # "idle" ~> pc[t] = "idle"

Loose == INSTANCE LooseQueue WITH
  queue <- Contents,
  calling <- [t \in Threads |->
    IF Enqueueing(t)
    THEN [i \in DOMAIN Held(t) |-> IF i = 1 THEN value[t] ELSE user_data[Held(t)[i]]]
    ELSE <<>>],
  waiting <- Waiting,
  sawEmpty <- sawEmpty,
  misplaced <- misplaced

(***************************************************************************)
(* Each operation takes effect at one moment between its call and its      *)
(* return, first in first out, except for the values whose element is      *)
(* linked behind one that an enqueue in progress holds: they enter the     *)
(* queue with that one's value, right after it and in their order, and     *)
(* until then no dequeue finds them.                                       *)
(***************************************************************************)
ImplementsQueue == Loose!Spec

(***************************************************************************)
(* What the library's tests expect of the queue: the values one thread     *)
(* enqueued come in the order it enqueued them.                            *)
(***************************************************************************)
ThreadsKeepOrder ==
  \A i, j \in DOMAIN Contents :
    i < j /\ Contents[i][1] = Contents[j][1] => Contents[i][2] < Contents[j][2]
=============================================================================
