------------------------------- MODULE Freelist -------------------------------
(***************************************************************************)
(* liblfds' freelist: a stack of elements that threads pop and push        *)
(* without locks.  top and the next field of an element are pairs of a     *)
(* pointer and a counter; lfds611_abstraction_dcas() compares and swaps    *)
(* both words of top at once, everything else reads or writes one word at  *)
(* a time.  One action per access to shared memory, in the order of the    *)
(* code; top is volatile and its words are accessed in program order, next *)
(* is not and its words are accessed in either order.                      *)
(***************************************************************************)
EXTENDS Naturals, Sequences

CONSTANTS
  Threads,
  Running,          \* the threads the scheduler keeps running; the others may stop anywhere
  NumberElements,   \* the number_elements of lfds611_freelist_new()
  MaxElements,      \* bound: what lfds611_liblfds_aligned_malloc() can give
  MaxCounter        \* bound: of aba_counter, a machine word in the code

ASSUME SizesAssumption ==
  /\ NumberElements \in Nat /\ MaxElements \in Nat /\ MaxCounter \in Nat
  /\ NumberElements <= MaxElements /\ NumberElements <= MaxCounter
  /\ Running \subseteq Threads

Null == 0
Elements == 1..MaxElements
Words == {"ptr", "ctr"}
Pairs == [ptr : Elements \union {Null}, ctr : 0..MaxCounter]
Nothing == [ptr |-> Null, ctr |-> 0]

VARIABLES
  top,            \* fs->top
  next,           \* fe->next of every element
  aba_counter,    \* fs->aba_counter
  element_count,  \* fs->element_count: the elements 1..element_count exist
  pc,             \* the access each thread is about to make
  compare,        \* the pair each thread compares top with
  exchange,       \* and the one it puts there
  todo,           \* the words of a next field it has still to access
  held            \* the elements the callers of each thread hold

vars == <<top, next, aba_counter, element_count, pc, compare, exchange, todo, held>>

\* lfds611_freelist_new() pushes the elements one after the other.
Init ==
  /\ top = [ptr |-> NumberElements, ctr |-> NumberElements]
  /\ next = [e \in Elements |-> IF e <= NumberElements THEN [ptr |-> e - 1, ctr |-> e - 1]
                                ELSE Nothing]
  /\ aba_counter = NumberElements
  /\ element_count = NumberElements
  /\ pc = [t \in Threads |-> "idle"]
  /\ compare = [t \in Threads |-> Nothing]
  /\ exchange = [t \in Threads |-> Nothing]
  /\ todo = [t \in Threads |-> {}]
  /\ held = [t \in Threads |-> {}]

Goto(t, to) == pc' = [pc EXCEPT ![t] = to]

Return(t) ==
  /\ Goto(t, "idle")
  /\ compare' = [compare EXCEPT ![t] = Nothing]
  /\ exchange' = [exchange EXCEPT ![t] = Nothing]
  /\ todo' = [todo EXCEPT ![t] = {}]

(***************************************************************************)
(* lfds611_abstraction_dcas(): the swap, and the load of what top held     *)
(* into compare when it fails.                                             *)
(***************************************************************************)
MutDcasPointerOnly(t) == top.ptr = compare[t].ptr /\ top' = exchange[t]
Dcas(t) == top = compare[t] /\ top' = exchange[t]

MutReloadForgets(t) == top # compare[t] /\ UNCHANGED <<top, compare>>
DcasFails(t) ==
  /\ top # compare[t]
  /\ compare' = [compare EXCEPT ![t] = top]
  /\ UNCHANGED top

(***************************************************************************)
(* lfds611_freelist_pop()                                                  *)
(***************************************************************************)
PopReadCounter(t) ==
  /\ pc[t] = "idle"
  /\ compare' = [compare EXCEPT ![t].ctr = top.ctr]
  /\ Goto(t, "popPointer")
  /\ UNCHANGED <<top, next, aba_counter, element_count, exchange, todo, held>>

PopReadPointer(t) ==
  /\ pc[t] = "popPointer"
  /\ IF top.ptr = Null THEN Return(t)
     ELSE /\ compare' = [compare EXCEPT ![t].ptr = top.ptr]
          /\ todo' = [todo EXCEPT ![t] = Words]
          /\ Goto(t, "pop")
          /\ UNCHANGED exchange
  /\ UNCHANGED <<top, next, aba_counter, element_count, held>>

PopReadNext(t) ==
  /\ pc[t] = "pop"
  /\ \E w \in todo[t] :
       /\ exchange' = [exchange EXCEPT ![t][w] = next[compare[t].ptr][w]]
       /\ todo' = [todo EXCEPT ![t] = @ \ {w}]
  /\ UNCHANGED <<top, next, aba_counter, element_count, pc, compare, held>>

PopSwap(t) ==
  /\ pc[t] = "pop" /\ todo[t] = {}
  /\ Dcas(t)
  /\ held' = [held EXCEPT ![t] = @ \union {compare[t].ptr}]
  /\ Return(t)
  /\ UNCHANGED <<next, aba_counter, element_count>>

PopRetry(t) ==
  /\ pc[t] = "pop" /\ todo[t] = {}
  /\ IF top # compare[t] /\ top.ptr = Null
     THEN Return(t) /\ UNCHANGED top
     ELSE /\ DcasFails(t)
          /\ todo' = [todo EXCEPT ![t] = Words]
          /\ UNCHANGED <<pc, exchange>>
  /\ UNCHANGED <<next, aba_counter, element_count, held>>

(***************************************************************************)
(* lfds611_freelist_guaranteed_pop(): a new element, unless malloc fails,  *)
(* which changes nothing.  lfds611_freelist_new_elements() is this and a   *)
(* push.                                                                   *)
(***************************************************************************)
GuaranteedPop(t) ==
  /\ pc[t] = "idle"
  /\ element_count < MaxElements
  /\ element_count' = element_count + 1
  /\ held' = [held EXCEPT ![t] = @ \union {element_count + 1}]
  /\ UNCHANGED <<top, next, aba_counter, pc, compare, exchange, todo>>

(***************************************************************************)
(* lfds611_freelist_push()                                                 *)
(***************************************************************************)
MutPushKeepsCounter(t) ==
  /\ pc[t] = "idle"
  /\ \E e \in held[t] :
       /\ exchange' = [exchange EXCEPT ![t] = [ptr |-> e, ctr |-> aba_counter]]
       /\ held' = [held EXCEPT ![t] = @ \ {e}]
  /\ Goto(t, "pushPointer")
  /\ UNCHANGED <<top, next, aba_counter, element_count, compare, todo>>

PushStamp(t) ==
  /\ pc[t] = "idle"
  /\ aba_counter < MaxCounter
  /\ aba_counter' = aba_counter + 1
  /\ \E e \in held[t] :
       /\ exchange' = [exchange EXCEPT ![t] = [ptr |-> e, ctr |-> aba_counter + 1]]
       /\ held' = [held EXCEPT ![t] = @ \ {e}]
  /\ Goto(t, "pushPointer")
  /\ UNCHANGED <<top, next, element_count, compare, todo>>

PushReadPointer(t) ==
  /\ pc[t] = "pushPointer"
  /\ compare' = [compare EXCEPT ![t].ptr = top.ptr]
  /\ Goto(t, "pushCounter")
  /\ UNCHANGED <<top, next, aba_counter, element_count, exchange, todo, held>>

PushReadCounter(t) ==
  /\ pc[t] = "pushCounter"
  /\ compare' = [compare EXCEPT ![t].ctr = top.ctr]
  /\ todo' = [todo EXCEPT ![t] = Words]
  /\ Goto(t, "push")
  /\ UNCHANGED <<top, next, aba_counter, element_count, exchange, held>>

PushWriteNext(t) ==
  /\ pc[t] = "push"
  /\ \E w \in todo[t] :
       /\ next' = [next EXCEPT ![exchange[t].ptr][w] = compare[t][w]]
       /\ todo' = [todo EXCEPT ![t] = @ \ {w}]
  /\ UNCHANGED <<top, aba_counter, element_count, pc, compare, exchange, held>>

PushSwap(t) ==
  /\ pc[t] = "push" /\ todo[t] = {}
  /\ Dcas(t)
  /\ Return(t)
  /\ UNCHANGED <<next, aba_counter, element_count, held>>

MutPushRetryKeepsNext(t) ==
  /\ pc[t] = "push" /\ todo[t] = {}
  /\ DcasFails(t)
  /\ UNCHANGED <<next, aba_counter, element_count, pc, exchange, todo, held>>

PushRetry(t) ==
  /\ pc[t] = "push" /\ todo[t] = {}
  /\ DcasFails(t)
  /\ todo' = [todo EXCEPT ![t] = Words]
  /\ UNCHANGED <<next, aba_counter, element_count, pc, exchange, held>>

Go(t) ==
  \/ PopReadPointer(t) \/ PopReadNext(t) \/ PopSwap(t) \/ PopRetry(t)
  \/ PushReadPointer(t) \/ PushReadCounter(t) \/ PushWriteNext(t) \/ PushSwap(t) \/ PushRetry(t)

Next == \E t \in Threads : PopReadCounter(t) \/ GuaranteedPop(t) \/ PushStamp(t) \/ Go(t)

Spec == Init /\ [][Next]_vars

\* Only the threads of Running are scheduled; another may stop in the middle of an operation.
FairSpec == Spec /\ \A t \in Running : WF_vars(Go(t))

-----------------------------------------------------------------------------
\* The elements of the list from top on (at most one more than there can be).
Chain ==
  LET from[n \in 0..MaxElements + 1] ==
        [p \in 0..MaxElements |->
           IF n = 0 \/ p = Null THEN <<>> ELSE <<p>> \o from[n - 1][next[p].ptr]]
  IN from[MaxElements + 1][top.ptr]

\* The element a thread is pushing.
Pushing(t) == IF pc[t] \in {"pushPointer", "pushCounter", "push"} THEN {exchange[t].ptr} ELSE {}

\* Type invariant: a pop never reads the next field of a null pointer.
TypeOK ==
  /\ top \in Pairs
  /\ next \in [Elements -> Pairs]
  /\ aba_counter \in 0..MaxCounter
  /\ element_count \in 0..MaxElements
  /\ pc \in [Threads -> {"idle", "popPointer", "pop", "pushPointer", "pushCounter", "push"}]
  /\ compare \in [Threads -> Pairs]
  /\ exchange \in [Threads -> Pairs]
  /\ todo \in [Threads -> SUBSET Words]
  /\ \A t \in Threads : pc[t] = "pop" => compare[t].ptr # Null
  /\ held \in [Threads -> SUBSET Elements]

(***************************************************************************)
(* Every element that was created is in exactly one place: once in the     *)
(* list, with one caller, or on its way back.  A pop that took an element  *)
(* twice, or a push over a stale top, breaks this.                         *)
(***************************************************************************)
EveryElementOnce ==
  \A e \in Elements :
    LET inList == {i \in DOMAIN Chain : Chain[i] = e}
        outside == {t \in Threads : e \in held[t] \union Pushing(t)}
    IN IF e <= element_count
       THEN \/ outside = {} /\ \E i \in inList : inList = {i}
            \/ inList = {} /\ \E t \in outside : outside = {t}
       ELSE inList = {} /\ outside = {}

(***************************************************************************)
(* What the counter of lfds611_freelist_push() is for: when the swap of a  *)
(* pop is about to succeed, the next field it read, one word at a time and *)
(* maybe long ago, is still that of the element it removes.                *)
(***************************************************************************)
NoStaleNext ==
  \A t \in Threads :
    (pc[t] = "pop" /\ todo[t] = {} /\ compare[t] = top) => exchange[t] = next[top.ptr]

\* The mapping: an operation has happened when its swap has, or when a pop read a null pointer.
AsPending(t) ==
  CASE pc[t] = "idle" -> [op |-> "idle"]
    [] pc[t] \in {"popPointer", "pop"} -> [op |-> "pop"]
    [] OTHER -> [op |-> "push", el |-> exchange[t].ptr]

Atomic == INSTANCE AtomicStack WITH
  stack <- Chain, held <- held, pending <- [t \in Threads |-> AsPending(t)]

\* Each operation of the freelist takes effect at one moment between its call and its return.
ImplementsStack == Atomic!Spec

(***************************************************************************)
(* Lock freedom: a thread that keeps running returns from its operations,  *)
(* wherever the others have stopped; a swap of it fails only because       *)
(* another succeeded, and with finitely many pushes that ends.             *)
(***************************************************************************)
OperationsReturn == \A t \in Running : pc[t] # "idle" ~> pc[t] = "idle"
=============================================================================
