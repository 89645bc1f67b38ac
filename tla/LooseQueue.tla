----------------------------- MODULE LooseQueue ------------------------------
(***************************************************************************)
(* What liblfds' queue promises: a value enters the queue at one moment    *)
(* between the call of its enqueue and the return, or hangs, from one such *)
(* moment on, behind the value of another enqueue that has not ended, and  *)
(* enters right after that one.  Every dequeue takes the oldest value at   *)
(* one moment between its call and its return, and finds nothing only if   *)
(* there was nothing at some moment since its call; what hangs is not      *)
(* found.  Without Hang this is an atomic queue, first in first out.       *)
(***************************************************************************)
EXTENDS Sequences, Naturals

CONSTANTS Threads, Values

VARIABLES
  queue,      \* the values, the oldest first
  calling,    \* the value each thread is enqueueing, if it is, and those that hang behind it
  waiting,    \* the threads inside a dequeue
  sawEmpty,   \* those of them since whose call the queue has been empty
  misplaced   \* history: a value has hung

vars == <<queue, calling, waiting, sawEmpty, misplaced>>

Init ==
  /\ queue = <<>>
  /\ calling = [t \in Threads |-> <<>>]
  /\ waiting = {}
  /\ sawEmpty = {}
  /\ misplaced = FALSE

Idle(t) == calling[t] = <<>> /\ t \notin waiting

CallEnqueue(t) ==
  /\ Idle(t)
  /\ \E v \in Values : calling' = [calling EXCEPT ![t] = <<v>>]
  /\ UNCHANGED <<queue, waiting, sawEmpty, misplaced>>

DoEnqueue(t) ==
  /\ calling[t] # <<>>
  /\ queue' = queue \o calling[t]
  /\ calling' = [calling EXCEPT ![t] = <<>>]
  /\ UNCHANGED <<waiting, sawEmpty, misplaced>>

\* The enqueue of t is over, its value and what hangs behind it wait for the enqueue of u.
Hang(t, u) ==
  /\ u # t /\ calling[t] # <<>> /\ calling[u] # <<>>
  /\ calling' = [calling EXCEPT ![u] = @ \o calling[t], ![t] = <<>>]
  /\ misplaced' = TRUE
  /\ UNCHANGED <<queue, waiting, sawEmpty>>

CallDequeue(t) ==
  /\ Idle(t)
  /\ waiting' = waiting \union {t}
  /\ sawEmpty' = IF queue = <<>> THEN sawEmpty \union {t} ELSE sawEmpty
  /\ UNCHANGED <<queue, calling, misplaced>>

DoDequeue(t) ==
  /\ t \in waiting
  /\ queue # <<>>
  /\ queue' = Tail(queue)
  /\ waiting' = waiting \ {t}
  /\ sawEmpty' = IF queue' = <<>> THEN waiting' ELSE sawEmpty \ {t}
  /\ UNCHANGED <<calling, misplaced>>

FindEmpty(t) ==
  /\ t \in sawEmpty
  /\ waiting' = waiting \ {t}
  /\ sawEmpty' = sawEmpty \ {t}
  /\ UNCHANGED <<queue, calling, misplaced>>

Next == \E t \in Threads :
  \/ CallEnqueue(t) \/ DoEnqueue(t) \/ \E u \in Threads : Hang(t, u)
  \/ CallDequeue(t) \/ DoDequeue(t) \/ FindEmpty(t)

Spec == Init /\ [][Next]_vars
=============================================================================
