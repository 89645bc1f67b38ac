----------------------------- MODULE LossyQueue ------------------------------
(***************************************************************************)
(* What a ring buffer that overwrites promises: what is put comes out in   *)
(* the order it was put, where a value may be put behind one that another  *)
(* thread is about to put and then follows it, and the oldest value is     *)
(* lost only to a writer that found the buffer full.                       *)
(***************************************************************************)
EXTENDS Sequences

CONSTANTS Threads

VARIABLES
  contents,  \* the values that were put and not read, the oldest first
  putting,   \* the value each thread is about to put, if it is, and those put behind it
  reading,   \* the values each thread is reading
  sawFull    \* the writers that found no room

vars == <<contents, putting, reading, sawFull>>

Init ==
  /\ contents = <<>> /\ sawFull = {}
  /\ putting = [t \in Threads |-> <<>>] /\ reading = [t \in Threads |-> {}]

\* A thread calls an operation, finds the buffer full, or is done with what it read.
Work(t) ==
  /\ \A u \in Threads : putting'[u] # putting[u] => u = t /\ putting[t] = <<>> /\ Len(putting'[t]) = 1
  /\ \A u \in Threads : reading'[u] # reading[u] => u = t /\ reading'[t] = {}
  /\ UNCHANGED contents

Put(t) ==
  /\ putting[t] # <<>>
  /\ contents' = contents \o putting[t]
  /\ putting' = [putting EXCEPT ![t] = <<>>]
  /\ UNCHANGED <<reading, sawFull>>

\* The put of t is over, its value follows the one that u is about to put.
PutBehind(t, u) ==
  /\ u # t /\ putting[t] # <<>> /\ putting[u] # <<>>
  /\ putting' = [putting EXCEPT ![u] = @ \o putting[t], ![t] = <<>>]
  /\ UNCHANGED <<contents, reading, sawFull>>

Get(t) ==
  /\ contents # <<>> /\ contents' = Tail(contents)
  /\ reading' = [reading EXCEPT ![t] = {Head(contents)}]
  /\ UNCHANGED <<putting, sawFull>>

Lose(t) ==
  /\ contents # <<>> /\ contents' = Tail(contents)
  /\ t \in sawFull /\ sawFull' = sawFull \ {t}
  /\ UNCHANGED <<putting, reading>>

Next == \E t \in Threads :
  Work(t) \/ Put(t) \/ (\E u \in Threads : PutBehind(t, u)) \/ Get(t) \/ Lose(t)

Spec == Init /\ [][Next]_vars
=============================================================================
