----------------------------- MODULE AtomicStack -----------------------------
(***************************************************************************)
(* What a lock-free stack promises: threads push elements they hold and    *)
(* pop elements they then hold, each in one atomic step between the call   *)
(* and the return, last in first out; a pop finds nothing only if there is *)
(* nothing at that moment.                                                 *)
(***************************************************************************)
EXTENDS Sequences, Naturals

CONSTANTS Threads, Elements

VARIABLES
  stack,      \* the elements, the last pushed first
  held,       \* the elements each thread holds
  pending     \* what each thread is in the middle of

vars == <<stack, held, pending>>

Idle == [op |-> "idle"]
Pop == [op |-> "pop"]
Push(e) == [op |-> "push", el |-> e]

Init ==
  /\ stack \in Seq(Elements)
  /\ held = [t \in Threads |-> {}]
  /\ pending = [t \in Threads |-> Idle]

\* A new element from the allocator.
Create(t) ==
  /\ \E e \in Elements :
       /\ \A i \in DOMAIN stack : stack[i] # e
       /\ \A u \in Threads : e \notin held[u] /\ pending[u] # Push(e)
       /\ held' = [held EXCEPT ![t] = @ \union {e}]
  /\ UNCHANGED <<stack, pending>>

CallPop(t) ==
  /\ pending[t] = Idle
  /\ pending' = [pending EXCEPT ![t] = Pop]
  /\ UNCHANGED <<stack, held>>

CallPush(t) ==
  /\ pending[t] = Idle
  /\ \E e \in held[t] :
       /\ pending' = [pending EXCEPT ![t] = Push(e)]
       /\ held' = [held EXCEPT ![t] = @ \ {e}]
  /\ UNCHANGED stack

DoPop(t) ==
  /\ pending[t] = Pop
  /\ stack # <<>>
  /\ stack' = Tail(stack)
  /\ held' = [held EXCEPT ![t] = @ \union {Head(stack)}]
  /\ pending' = [pending EXCEPT ![t] = Idle]

PopNothing(t) ==
  /\ pending[t] = Pop
  /\ stack = <<>>
  /\ pending' = [pending EXCEPT ![t] = Idle]
  /\ UNCHANGED <<stack, held>>

DoPush(t) ==
  /\ pending[t].op = "push"
  /\ stack' = <<pending[t].el>> \o stack
  /\ pending' = [pending EXCEPT ![t] = Idle]
  /\ UNCHANGED held

Next == \E t \in Threads :
  Create(t) \/ CallPop(t) \/ CallPush(t) \/ DoPop(t) \/ PopNothing(t) \/ DoPush(t)

Spec == Init /\ [][Next]_vars
=============================================================================
