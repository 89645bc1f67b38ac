---------------------------- MODULE MCSocketLoop ----------------------------
(* Instances of SocketLoop for TLC.                                        *)
EXTENDS SocketLoop, TLC

\* Coroutines and connections are interchangeable (for safety only).
Symmetry == Permutations(Threads) \cup Permutations(Conns)
=============================================================================
