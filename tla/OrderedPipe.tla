----------------------------- MODULE OrderedPipe -----------------------------
(***************************************************************************)
(* What a caller of MtCoder_Code() sees, whatever the number of threads:   *)
(* the blocks of the input are taken in order, each comes out once and in  *)
(* the order it was taken, never more than Ahead are inside, and the call  *)
(* ends with "ok" only when all of them are out.                           *)
(***************************************************************************)
EXTENDS Naturals, Sequences

CONSTANTS Ahead, MaxBlocks

VARIABLES
  total,   \* the blocks of this call's input
  taken,   \* how many were read
  given,   \* the blocks that were written
  result   \* "running", or what the last call returned

vars == <<total, taken, given, result>>

Init == total = 0 /\ taken = 0 /\ given = <<>> /\ result = "ok"

Begin ==
  /\ result # "running" /\ result' = "running"
  /\ total' \in 1..MaxBlocks /\ taken' = 0 /\ given' = <<>>

Take ==
  /\ result = "running" /\ taken < total
  /\ taken - Len(given) < Ahead
  /\ taken' = taken + 1
  /\ UNCHANGED <<total, given, result>>

Give ==
  /\ result = "running" /\ Len(given) < taken
  /\ given' = Append(given, Len(given) + 1)
  /\ UNCHANGED <<total, taken, result>>

End ==
  /\ result = "running" /\ result' # "running"
  /\ result' = "ok" => Len(given) = total
  /\ UNCHANGED <<total, taken, given>>

Next == Begin \/ Take \/ Give \/ End

Spec == Init /\ [][Next]_vars
=============================================================================
