----------------------------- MODULE BlockingIO -----------------------------
(***************************************************************************)
(* What socketloop.md promises: "the multi-process blocking I/O programming*)
(* model for luasocket, where each process is a coroutine".  There is no   *)
(* loop here: a process runs, blocks on a socket it holds, goes on when    *)
(* that socket is loaded, and ends; a socket closes when its holder gives  *)
(* it up, or after its holder has ended.                                   *)
(***************************************************************************)
CONSTANTS Procs, Sockets, Dir, None

VARIABLES
  proc,    \* each process: "none", "runs", "blocked" or "ended"
  on,      \* the direction and the socket a blocked process is blocked on
  sock,    \* each socket: "unused", "open" or "closed"
  holder,  \* the process that holds a socket
  loaded   \* the directions and sockets that would not block

vars == <<proc, on, sock, holder, loaded>>

Init ==
  /\ proc   = [p \in Procs |-> "none"]
  /\ on     = [p \in Procs |-> None]
  /\ sock   = [s \in Sockets |-> "unused"]
  /\ holder = [s \in Sockets |-> None]
  /\ loaded = {}

Blocks(p) ==
  /\ proc[p] = "runs" /\ proc'[p] = "blocked"
  /\ \E d \in Dir, s \in Sockets : on'[p] = <<d, s>> /\ holder'[s] = p
Unblocks(p) ==
  /\ proc[p] = "blocked" /\ proc'[p] = "runs"
  /\ on[p] \in loaded
  /\ on'[p] = None
Begins(p) == proc[p] = "none" /\ proc'[p] = "runs"  /\ on'[p] = None
Ends(p)   == proc[p] = "runs" /\ proc'[p] = "ended" /\ on'[p] = None

ProcStep(p) == \/ proc'[p] = proc[p] /\ on'[p] = on[p]
               \/ Blocks(p) \/ Unblocks(p) \/ Begins(p) \/ Ends(p)

Opens(s)  == sock[s] = "unused" /\ sock'[s] = "open"
GivenUp(s) == sock'[s] = sock[s] /\ holder'[s] = None
Closes(s) ==
  /\ sock[s] = "open" /\ sock'[s] = "closed"
  /\ \/ holder'[s] = None
     \/ holder'[s] = holder[s] /\ proc[holder[s]] = "ended"

SockStep(s) == \/ sock'[s] = sock[s] /\ holder'[s] = holder[s]
               \/ Opens(s) \/ GivenUp(s) \/ Closes(s)

Next == /\ \A p \in Procs : ProcStep(p)
        /\ \A s \in Sockets : SockStep(s)
        /\ loaded' \subseteq Dir \X Sockets

Spec == Init /\ [][Next]_vars
=============================================================================
