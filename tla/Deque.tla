------------------------------- MODULE Deque -------------------------------
(***************************************************************************)
(* What a ring buffer is for: a sequence to which elements are added and   *)
(* from which they are taken at both ends, in order, or which is looked at *)
(* there.  `io' is the last call, with the elements that went in or out.   *)
(***************************************************************************)
EXTENDS Integers, Sequences

CONSTANT Batches   \* the sequences of elements that are pushed

VARIABLES contents, io
vars == <<contents, io>>

Last(n)     == SubSeq(contents, Len(contents) - n + 1, Len(contents))
First(n)    == SubSeq(contents, 1, n)
AllBut(end, n) == IF end = "head"
                  THEN SubSeq(contents, n + 1, Len(contents))
                  ELSE SubSeq(contents, 1, Len(contents) - n)

Call(op, end, data) == [op |-> op, end |-> end, data |-> data]

\* The call may fail, and then nothing changes.
Add(end, batch) ==
  /\ io' = Call("push", end, batch)
  /\ contents' = IF end = "tail" THEN contents \o batch ELSE batch \o contents
Take(end, n) ==
  /\ io' = Call("pull", end, IF end = "head" THEN First(n) ELSE Last(n))
  /\ contents' = AllBut(end, n)
Look(end, n) ==
  /\ io' = Call("keep", end, IF end = "head" THEN First(n) ELSE Last(n))
  /\ UNCHANGED contents
Fail == io'.op = "error" /\ UNCHANGED contents

Init == io = Call("new", "tail", <<>>)

Next == \E end \in {"head", "tail"} :
          \/ \E batch \in Batches : Add(end, batch)
          \/ \E n \in 1..Len(contents) : Take(end, n) \/ Look(end, n)
          \/ Fail

Spec == Init /\ [][Next]_vars
=============================================================================
