----------------------------- MODULE LfRingbuffer ----------------------------
(***************************************************************************)
(* liblfds' ring buffer: a freelist of elements that are not in use, and a *)
(* queue of those that hold something to read.  A writer takes a free      *)
(* element, or steals the oldest one from the queue; a reader takes the    *)
(* oldest.  The freelist is the atomic one it implements, the queue is     *)
(* LooseQueue: an element may hang behind that of another enqueue that has *)
(* not ended, and is then not found before that one.  An enqueue first     *)
(* takes a node of the queue, and a dequeue gives one back after it has    *)
(* taken the element.                                                      *)
(***************************************************************************)
EXTENDS Naturals, Sequences, FiniteSets

CONSTANTS
  Threads,
  Running,          \* the threads the scheduler keeps running; the others may stop anywhere
  NumberElements,   \* the number_elements of lfds611_ringbuffer_new()
  MaxPuts           \* bound: how often each thread writes

ASSUME SizesAssumption ==
  /\ NumberElements \in Nat \ {0} /\ MaxPuts \in Nat
  /\ Running \subseteq Threads

Elements == 1..NumberElements
Null == 0
NoValue == <<>>

VARIABLES
  fs,      \* rs->fs, the element to be popped next first
  qs,      \* rs->qs, the element to be dequeued next first
  nodes,   \* the free nodes of the queue
  data,    \* the user data of the elements
  pc,      \* what each thread is about to do
  fe,      \* the element it holds
  row,     \* the element it is enqueueing, if it is, and those that hang behind it
  puts,    \* how often it has written
  sawFull  \* history: the threads that are in get_write_element and found the freelist empty

vars == <<fs, qs, nodes, data, pc, fe, row, puts, sawFull>>

\* The queue has a node for each element, besides its dummy.
MutFreeNodes == NumberElements - 1
FreeNodes == NumberElements

Init ==
  /\ fs = [i \in Elements |-> NumberElements + 1 - i]
  /\ qs = <<>>
  /\ nodes = FreeNodes
  /\ data = [e \in Elements |-> NoValue]
  /\ pc = [t \in Threads |-> "idle"]
  /\ fe = [t \in Threads |-> Null] /\ row = [t \in Threads |-> <<>>]
  /\ puts = [t \in Threads |-> 0]
  /\ sawFull = {}

Goto(t, to) == pc' = [pc EXCEPT ![t] = to]
Hold(t, e) == fe' = [fe EXCEPT ![t] = e]

-----------------------------------------------------------------------------
\* lfds611_queue_dequeue(): the element now, its node later.
Dequeue(t, to) ==
  /\ qs # <<>>
  /\ qs' = Tail(qs)
  /\ Hold(t, Head(qs))
  /\ Goto(t, to)
  /\ UNCHANGED <<fs, nodes, data, row, puts>>

ReturnNode(t) ==
  /\ pc[t] \in {"readNode", "writeNode"}
  /\ nodes' = nodes + 1
  /\ Goto(t, IF pc[t] = "readNode" THEN "reading" ELSE "writing")
  /\ UNCHANGED <<fs, qs, data, fe, row, puts, sawFull>>

GetReadElement(t) ==
  /\ pc[t] = "idle"
  /\ Dequeue(t, "readNode")
  /\ UNCHANGED sawFull

PutReadElement(t) ==
  /\ pc[t] = "reading"
  /\ fs' = <<fe[t]>> \o fs
  /\ Hold(t, Null)
  /\ Goto(t, "idle")
  /\ UNCHANGED <<qs, nodes, data, row, puts, sawFull>>

\* lfds611_ringbuffer_get_write_element(): a free element ...
GetWriteElement(t) ==
  /\ pc[t] = "pop" \/ (pc[t] = "idle" /\ puts[t] < MaxPuts)
  /\ IF fs # <<>>
     THEN /\ fs' = Tail(fs)
          /\ Hold(t, Head(fs))
          /\ Goto(t, "writing")
          /\ sawFull' = sawFull \ {t}
     ELSE /\ Goto(t, "steal")
          /\ sawFull' = sawFull \union {t}
          /\ UNCHANGED <<fs, fe>>
  /\ UNCHANGED <<qs, nodes, data, row, puts>>

\* ... or the oldest of the queue; again when that is empty by now.
MutSteal(t) ==
  /\ pc[t] = "steal"
  /\ \/ Dequeue(t, "writeNode") /\ sawFull' = sawFull \ {t}
     \/ /\ qs = <<>>
        /\ UNCHANGED vars

Steal(t) ==
  /\ pc[t] = "steal"
  /\ \/ Dequeue(t, "writeNode") /\ sawFull' = sawFull \ {t}
     \/ /\ qs = <<>>
        /\ Goto(t, "pop")
        /\ UNCHANGED <<fs, qs, nodes, data, fe, row, puts, sawFull>>

\* The caller fills the element; put_write_element() ignores what enqueue() returns.
PutWriteElement(t) ==
  /\ pc[t] = "writing"
  /\ puts' = [puts EXCEPT ![t] = @ + 1]
  /\ data' = [data EXCEPT ![fe[t]] = <<t, puts'[t]>>]
  /\ Hold(t, Null)
  /\ IF nodes = 0
     THEN Goto(t, "idle") /\ UNCHANGED <<nodes, row>>
     ELSE nodes' = nodes - 1 /\ row' = [row EXCEPT ![t] = <<fe[t]>>] /\ Goto(t, "enqueue")
  /\ UNCHANGED <<fs, qs, sawFull>>

MutEnqueue(t) ==
  /\ pc[t] = "enqueue"
  /\ qs' = row[t] \o qs
  /\ row' = [row EXCEPT ![t] = <<>>]
  /\ Goto(t, "idle")
  /\ UNCHANGED <<fs, nodes, data, fe, puts, sawFull>>

\* lfds611_queue_enqueue() links the element to the last one of the queue ...
Enqueue(t) ==
  /\ pc[t] = "enqueue"
  /\ qs' = qs \o row[t]
  /\ row' = [row EXCEPT ![t] = <<>>]
  /\ Goto(t, "idle")
  /\ UNCHANGED <<fs, nodes, data, fe, puts, sawFull>>

\* ... or behind one that thread u is enqueueing: LooseQueue's Hang.
EnqueueBehind(t, u) ==
  /\ u # t /\ pc[t] = "enqueue" /\ pc[u] = "enqueue"
  /\ row' = [row EXCEPT ![u] = @ \o row[t], ![t] = <<>>]
  /\ Goto(t, "idle")
  /\ UNCHANGED <<fs, qs, nodes, data, fe, puts, sawFull>>

Go(t) ==
  \/ ReturnNode(t) \/ PutReadElement(t) \/ Steal(t) \/ PutWriteElement(t)
  \/ Enqueue(t) \/ \E u \in Threads : EnqueueBehind(t, u)
  \/ pc[t] = "pop" /\ GetWriteElement(t)

Next == \E t \in Threads :
  \/ Go(t)
  \/ GetReadElement(t)
  \/ pc[t] = "idle" /\ GetWriteElement(t)

Spec == Init /\ [][Next]_vars

\* Only the threads of Running are scheduled; another may stop in the middle of an operation.
FairSpec == Spec /\ \A t \in Running : WF_vars(Go(t))

-----------------------------------------------------------------------------
\* Type invariant.
TypeOK ==
  /\ fs \in Seq(Elements) /\ qs \in Seq(Elements)
  /\ nodes \in 0..FreeNodes
  /\ data \in [Elements -> (Threads \X (1..MaxPuts)) \union {NoValue}]
  /\ pc \in [Threads -> {"idle", "pop", "steal", "writeNode", "writing", "enqueue", "readNode", "reading"}]
  /\ fe \in [Threads -> Elements \union {Null}] /\ row \in [Threads -> Seq(Elements)]
  /\ puts \in [Threads -> 0..MaxPuts] /\ sawFull \subseteq Threads

Places(e) ==
  {<<"fs", i>> : i \in {i \in DOMAIN fs : fs[i] = e}} \union
  {<<"qs", i>> : i \in {i \in DOMAIN qs : qs[i] = e}} \union
  {<<"held", t>> : t \in {t \in Threads : fe[t] = e}} \union
  UNION {{<<"row", t, i>> : i \in {i \in DOMAIN row[t] : row[t][i] = e}} : t \in Threads}

(***************************************************************************)
(* An element is in the freelist, in the queue, with one thread, or hangs  *)
(* behind the element of one enqueue in progress: none is lost, although   *)
(* put_write_element() does not look whether enqueue() accepted it, and    *)
(* none is given to two threads.                                           *)
(***************************************************************************)
EveryElementOnce == \A e \in Elements : Cardinality(Places(e)) = 1

(***************************************************************************)
(* Where there are as many elements as threads, a thread that keeps        *)
(* running gets one to write, wherever the others have stopped: it looks   *)
(* for one for ever only if a thread has stopped in an enqueue, and        *)
(* elements of others hang behind its own.                                 *)
(***************************************************************************)
GetWriteReturns ==
  \A t \in Running :
    \/ []<>(pc[t] \notin {"pop", "steal"})
    \/ <>[](\E u \in Threads \ Running : Len(row[u]) > 1)

\* What the elements of a sequence hold.
Content(s) == [i \in DOMAIN s |-> data[s[i]]]

Lossy == INSTANCE LossyQueue WITH
  contents <- Content(qs),
  putting <- [t \in Threads |-> Content(row[t])],
  reading <- [t \in Threads |-> IF pc[t] \in {"readNode", "reading"} THEN {data[fe[t]]} ELSE {}]

(***************************************************************************)
(* The ring buffer is a queue that loses its oldest value only to a writer *)
(* for which the freelist was empty; what a reader reads, and what hangs   *)
(* behind an enqueue in progress, stays as it is.                          *)
(***************************************************************************)
ImplementsLossyQueue == Lossy!Spec
=============================================================================
