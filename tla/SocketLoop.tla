----------------------------- MODULE SocketLoop -----------------------------
(***************************************************************************)
(* socketloop.lua: a scheduler of Lua coroutines over luasocket's select().*)
(* A coroutine that wants to accept, receive, send or connect registers    *)
(* itself in the table `read' or `write' under the socket, and yields;     *)
(* dispatch() asks select() which registered sockets are loaded and        *)
(* resumes their coroutines one by one.                                    *)
(*                                                                         *)
(* Nothing is preemptive: a step of this module is the code between two    *)
(* points where control can change hands (coroutine.resume, yield, the     *)
(* return or error of a coroutine, a luasocket call that may block).  The  *)
(* program around the loop (handlers, main program, peers) is any program: *)
(* its choices are the \E's below, limited by the discipline that          *)
(* socketloop.md asks for (Shared, MaxOwned).                              *)
(***************************************************************************)
EXTENDS Naturals, Sequences, FiniteSets

CONSTANTS
  Threads,    \* the coroutines that newthread may create
  Listeners,  \* the sockets that newserver may create
  Conns,      \* the sockets that connect and accept may create
  Main,       \* the main program, which runs start() and dispatch()
  None,       \* nil
  Shared,     \* may a coroutine use a socket that is another coroutine's?
  MaxOwned,   \* how many sockets a coroutine uses at a time
  Stalls      \* may a peer stall in the middle of a message?

Sockets == Listeners \cup Conns
Dir     == {"read", "write"}

ASSUME NamesAssumption   == /\ Main \notin Threads
                            /\ None \notin Threads \cup Sockets \cup {Main}
                            /\ Listeners \cap Conns = {}
ASSUME OptionsAssumption == /\ Shared \in BOOLEAN
                            /\ Stalls \in BOOLEAN
                            /\ MaxOwned \in Nat \ {0}

VARIABLES
  rwt,      \* the tables `read' and `write': who waits on a socket
  status,   \* each coroutine: "none" (not created), "suspended", "dead", or
            \* "active": running, or resuming the next one of the chain
  chain,    \* the active coroutines, each resumed by the one before it
  call,     \* the socket call a coroutine is in: waiting, or back from wait()
  role,     \* what a coroutine's function is: newserver's loop or a handler
  err,      \* is an error travelling down the chain of resumers?
  skt,      \* each socket; a connection accept() returned is "blocking", for
            \* only connect and newserver call settimeout(0)
  owner,    \* the coroutine that holds a socket
  ready,    \* what the peer and the kernel have for a socket, per direction
  pc,       \* where main is: outside start(), before select(), waking
  todo,     \* the part of select()'s result that dispatch has yet to wake
  waking,   \* the socket wake() has resumed a coroutine for
  stop,     \* the loop's flag `stop'
  asked     \* history: was stop() called since start() was last called?

coVars   == <<status, chain, call, role, err>>
sktVars  == <<skt, owner, ready>>
loopVars == <<pc, todo, waking, stop, asked>>
vars     == <<rwt, coVars, sktVars, loopVars>>

Ops        == {"accept", "receive", "send", "connect"}
DirOf(op)  == IF op \in {"accept", "receive"} THEN "read" ELSE "write"
NoCall     == [op |-> "none", skt |-> None]
Calls      == [op : Ops, skt : Sockets]
NothingTodo == [d \in Dir |-> {}]
IsOpen(s)  == skt[s] \in {"nonblocking", "blocking"}

TypeOK ==
  /\ rwt     \in [Dir -> [Sockets -> Threads \cup {None}]]
  /\ status  \in [Threads -> {"none", "suspended", "active", "dead"}]
  /\ chain   \in Seq(Threads)
  /\ call    \in [Threads -> Calls \cup {NoCall}]
  /\ role    \in [Threads -> {"handler", "server"}]
  /\ err     \in BOOLEAN
  /\ skt     \in [Sockets -> {"unused", "nonblocking", "blocking", "closed"}]
  /\ owner   \in [Sockets -> Threads \cup {None}]
  /\ ready   \in [Dir -> [Sockets -> {"none", "part", "whole"}]]
  /\ pc      \in {"idle", "select", "wake"}
  /\ todo    \in [Dir -> SUBSET Sockets]
  /\ waking  \in Sockets \cup {None}
  /\ stop    \in BOOLEAN
  /\ asked   \in BOOLEAN

Init ==
  /\ rwt     = [d \in Dir |-> [s \in Sockets |-> None]]
  /\ status  = [t \in Threads |-> "none"]
  /\ chain   = <<>>
  /\ call    = [t \in Threads |-> NoCall]
  /\ role    = [t \in Threads |-> "handler"]
  /\ err     = FALSE
  /\ skt     = [s \in Sockets |-> "unused"]
  /\ owner   = [s \in Sockets |-> None]
  /\ ready   = [d \in Dir |-> [s \in Sockets |-> "none"]]
  /\ pc      = "idle"
  /\ todo    = NothingTodo
  /\ waking  = None
  /\ stop    = FALSE
  /\ asked   = FALSE

-----------------------------------------------------------------------------
(* Coroutines.                                                             *)

\* coroutine.running().
Current == IF chain = <<>> THEN Main ELSE chain[Len(chain)]

\* coroutine.resume(t) by whoever is running.
Enter(t) ==
  /\ chain'  = Append(chain, t)
  /\ status' = [status EXCEPT ![t] = "active"]

\* The running coroutine t yields ("suspended"), returns or raises ("dead"):
\* control goes back to its resumer.
Back(t, st) ==
  /\ chain'  = SubSeq(chain, 1, Len(chain) - 1)
  /\ status' = [status EXCEPT ![t] = st]

\* Mutant of Wait: send() and connect() pass the table `read'.
WaitAlwaysRead(t, op, s) ==
  /\ rwt'  = [rwt EXCEPT !["read"][s] = t]
  /\ call' = [call EXCEPT ![t] = [op |-> op, skt |-> s]]
  /\ Back(t, "suspended")

\* wait(rwt, skt): register and yield.  A registration that is already there
\* is overwritten.
Wait(t, op, s) ==
  /\ rwt'  = [rwt EXCEPT ![DirOf(op)][s] = t]
  /\ call' = [call EXCEPT ![t] = [op |-> op, skt |-> s]]
  /\ Back(t, "suspended")

\* Coroutine t runs its own code (as opposed to a socket call).
Runs(t)     == Current = t /\ ~err /\ call[t] = NoCall
Handles(t)  == Runs(t) /\ role[t] = "handler"
\* The main program runs its own code, or a handler does.
UserCode    == \/ Current = Main /\ pc = "idle" /\ ~err
               \/ \E t \in Threads : Handles(t)
InCall(t, op) == Current = t /\ ~err /\ call[t].op = op

MayUse(t, s) == owner[s] # None /\ (Shared \/ owner[s] = t)
Owned(t)     == {s \in Sockets : owner[s] = t}

-----------------------------------------------------------------------------
(* The calls of the API.                                                   *)

\* receive() and send() always wait before they touch the socket.
ReceiveOrSend(t, op, s) ==
  /\ Handles(t) /\ MayUse(t, s)
  /\ Wait(t, op, s)
  /\ UNCHANGED <<role, err, sktVars, loopVars>>

\* Back from wait(), skt:receive() or skt:send() returns.  On a blocking
\* socket it does so only once the whole message went through, and until then
\* nothing else runs.
ReturnFromCall(t, op) ==
  LET d == DirOf(op)
      s == call[t].skt
  IN /\ InCall(t, op)
     /\ skt[s] = "blocking" => ready[d][s] = "whole"
     /\ ready' = [ready EXCEPT ![d][s] = "none"]
     /\ call'  = [call EXCEPT ![t] = NoCall]
     /\ UNCHANGED <<rwt, status, chain, role, err, skt, owner, loopVars>>

\* close(): whoever waits on the socket is forgotten.
Close(t, s) ==
  /\ Handles(t) /\ MayUse(t, s)
  /\ rwt'   = [d \in Dir |-> [rwt[d] EXCEPT ![s] = None]]
  /\ skt'   = [skt EXCEPT ![s] = "closed"]
  /\ owner' = [owner EXCEPT ![s] = None]
  /\ ready' = [d \in Dir |-> [ready[d] EXCEPT ![s] = "none"]]
  /\ UNCHANGED <<coVars, loopVars>>

MayConnect(t, s) ==
  /\ Handles(t)
  /\ skt[s] = "unused"
  /\ Cardinality(Owned(t)) < MaxOwned

\* connect() when the first skt:connect() settles it: on failure the caller
\* gets no socket, and the one that was made stays open.
ConnectNow(t, s, ok) ==
  /\ MayConnect(t, s)
  /\ skt'   = [skt EXCEPT ![s] = "nonblocking"]
  /\ owner' = [owner EXCEPT ![s] = IF ok THEN t ELSE None]
  /\ UNCHANGED <<rwt, coVars, ready, loopVars>>

\* connect() when the first skt:connect() times out.
ConnectWait(t, s) ==
  /\ MayConnect(t, s)
  /\ skt'   = [skt EXCEPT ![s] = "nonblocking"]
  /\ owner' = [owner EXCEPT ![s] = t]
  /\ Wait(t, "connect", s)
  /\ UNCHANGED <<role, err, ready, loopVars>>

\* Back from wait(), the second skt:connect() settles it.
ConnectReturn(t, ok) ==
  /\ InCall(t, "connect")
  /\ call'  = [call EXCEPT ![t] = NoCall]
  /\ owner' = IF ok THEN owner ELSE [owner EXCEPT ![call[t].skt] = None]
  /\ UNCHANGED <<rwt, status, chain, role, err, skt, ready, loopVars>>

\* newthread(): create a coroutine and run it until its first socket call.
NewThread(t) ==
  /\ UserCode
  /\ status[t] = "none"
  /\ Enter(t)
  /\ UNCHANGED <<rwt, call, role, err, sktVars, loopVars>>

\* newserver(): a listening socket and the coroutine that accepts on it.
NewServer(t, l) ==
  /\ UserCode
  /\ status[t] = "none" /\ skt[l] = "unused"
  /\ Enter(t)
  /\ role'  = [role EXCEPT ![t] = "server"]
  /\ skt'   = [skt EXCEPT ![l] = "nonblocking"]
  /\ owner' = [owner EXCEPT ![l] = t]
  /\ UNCHANGED <<rwt, call, err, ready, loopVars>>

\* The server's loop: wait for a client ...
ServerAccept(t, l) ==
  /\ Runs(t) /\ role[t] = "server" /\ owner[l] = t
  /\ Wait(t, "accept", l)
  /\ UNCHANGED <<role, err, sktVars, loopVars>>

\* ... and run the handler h on the accepted connection c until its first
\* socket call, in a coroutine of its own.
AcceptReturn(t, h, c) ==
  LET l == call[t].skt
  IN /\ InCall(t, "accept")
     /\ ready["read"][l] # "none"
     /\ status[h] = "none" /\ skt[c] = "unused"
     /\ Enter(h)
     /\ call'  = [call EXCEPT ![t] = NoCall]
     /\ skt'   = [skt EXCEPT ![c] = "blocking"]
     /\ owner' = [owner EXCEPT ![c] = h]
     /\ ready' = [ready EXCEPT !["read"][l] = "none"]
     /\ UNCHANGED <<rwt, role, err, loopVars>>

-----------------------------------------------------------------------------
(* The end of a coroutine, and errors.                                     *)

Die(t) == Back(t, "dead") /\ call' = [call EXCEPT ![t] = NoCall]

Finish(t) ==
  /\ Handles(t)
  /\ Die(t)
  /\ UNCHANGED <<rwt, role, err, sktVars, loopVars>>

\* A handler raises, or the assert() around skt:accept() does.
Raise(t) ==
  /\ Handles(t) \/ InCall(t, "accept")
  /\ Die(t)
  /\ err' = TRUE
  /\ UNCHANGED <<rwt, role, sktVars, loopVars>>

\* assert_resume() raises the error of a coroutine in its resumer, ...
Propagate(t) ==
  /\ err /\ Current = t
  /\ Die(t)
  /\ UNCHANGED <<rwt, role, err, sktVars, loopVars>>

\* ... where a handler may have called newthread() under a pcall().
Catch(t) ==
  /\ err /\ Current = t /\ role[t] = "handler"
  /\ err' = FALSE
  /\ UNCHANGED <<rwt, status, chain, call, role, sktVars, loopVars>>

\* An error that reaches main leaves newthread(), or leaves wake(),
\* dispatch() and start(): what was selected and not yet woken is dropped.
MainRaise ==
  /\ err /\ Current = Main
  /\ err'    = FALSE
  /\ pc'     = "idle"
  /\ todo'   = NothingTodo
  /\ waking' = None
  /\ UNCHANGED <<rwt, status, chain, call, role, sktVars, stop, asked>>

-----------------------------------------------------------------------------
(* The loop.                                                               *)

InLoop(where) == Current = Main /\ ~err /\ pc = where

Stop ==
  /\ UserCode
  /\ stop'  = TRUE
  /\ asked' = TRUE
  /\ UNCHANGED <<rwt, coVars, sktVars, pc, todo, waking>>

Start ==
  /\ InLoop("idle")
  /\ pc'    = "select"
  /\ asked' = FALSE
  /\ UNCHANGED <<rwt, coVars, sktVars, todo, waking, stop>>

Waiters(d) == {s \in Sockets : rwt[d][s] # None}
\* Mutants of Loaded: dispatch() wakes the keys of the tables, not the answer
\* of select(); the keys of `write' are not given to select().
LoadedAll(d)   == {s \in Waiters(d) : IsOpen(s)}
LoadedReads(d) == IF d = "read" THEN {s \in LoadedAll(d) : ready[d][s] # "none"} ELSE {}

\* What select() answers: it passes over a socket that has no descriptor.
Loaded(d)  == {s \in Waiters(d) : IsOpen(s) /\ ready[d][s] # "none"}

\* dispatch() up to select() (after a timeout the answer is empty), ...
Select ==
  /\ InLoop("select")
  /\ \E d \in Dir : Waiters(d) # {}
  /\ todo' = [d \in Dir |-> Loaded(d)]
  /\ pc'   = "wake"
  /\ UNCHANGED <<rwt, coVars, sktVars, waking, stop, asked>>

\* ... which returns at once, and start() with it, when nobody waits.
NothingToWaitFor ==
  /\ InLoop("select")
  /\ \A d \in Dir : Waiters(d) = {}
  /\ pc' = "idle"
  /\ UNCHANGED <<rwt, coVars, sktVars, todo, waking, stop, asked>>

\* Mutants of Resume: `if not thread then return end' is missing; wait()
\* leaves the entry behind.
ResumeUnchecked(d, s) ==
  Enter(rwt[d][s]) /\ rwt' = [rwt EXCEPT ![d][s] = None] /\ waking' = s
ResumeKeepsEntry(d, s) ==
  IF rwt[d][s] = None THEN UNCHANGED <<rwt, status, chain, waking>>
                      ELSE Enter(rwt[d][s]) /\ UNCHANGED rwt /\ waking' = s

\* wake(skt, rwt) up to coroutine.resume(), and the first thing the resumed
\* coroutine does in wait().
Resume(d, s) ==
  LET thread == rwt[d][s]
  IN IF thread = None
     THEN UNCHANGED <<rwt, status, chain, waking>>
     ELSE /\ Enter(thread)
          /\ rwt'    = [rwt EXCEPT ![d][s] = None]
          /\ waking' = s

\* The reads are woken before the writes, in any order.
Wake(d, s) ==
  /\ InLoop("wake") /\ waking = None
  /\ s \in todo[d]
  /\ d = "write" => todo["read"] = {}
  /\ todo' = [todo EXCEPT ![d] = @ \ {s}]
  /\ Resume(d, s)
  /\ UNCHANGED <<call, role, err, sktVars, pc, stop, asked>>

\* Mutant of Awaited: only the table `read' is looked at.
AwaitedInRead(s) == rwt["read"][s] # None

Awaited(s) == \E d \in Dir : rwt[d][s] # None

\* wake(skt, rwt) after the resume: skt:close() if nobody waits on the socket.
AfterWake ==
  /\ InLoop("wake") /\ waking # None
  /\ waking' = None
  /\ IF Awaited(waking)
     THEN UNCHANGED <<skt, ready>>
     ELSE /\ skt'   = [skt EXCEPT ![waking] = "closed"]
          /\ ready' = [d \in Dir |-> [ready[d] EXCEPT ![waking] = "none"]]
  /\ UNCHANGED <<rwt, coVars, owner, pc, todo, stop, asked>>

\* Mutant of EndDispatch: start() does not look at the flag.
EndDispatchNoStop ==
  /\ InLoop("wake") /\ waking = None
  /\ todo = NothingTodo
  /\ pc' = "select"
  /\ UNCHANGED <<rwt, coVars, sktVars, todo, waking, stop, asked>>

\* dispatch() returns true, and start() looks at the flag.
EndDispatch ==
  /\ InLoop("wake") /\ waking = None
  /\ todo = NothingTodo
  /\ pc' = IF stop THEN "idle" ELSE "select"
  /\ UNCHANGED <<rwt, coVars, sktVars, todo, waking, stop, asked>>

-----------------------------------------------------------------------------
(* The peers and the kernel: a client arrives, a message or a part of it   *)
(* arrives, the connection closes or fails, there is room to send.         *)

Arrive(d, s, how) ==
  /\ IsOpen(s)
  /\ ready[d][s] # "whole" /\ ready[d][s] # how
  /\ s \in Listeners => d = "read" /\ how = "whole"
  /\ how = "part" => Stalls
  /\ ready' = [ready EXCEPT ![d][s] = how]
  /\ UNCHANGED <<rwt, coVars, skt, owner, loopVars>>

-----------------------------------------------------------------------------
Uses(t) ==
  \E s \in Conns : \/ ReceiveOrSend(t, "receive", s)
                   \/ ReceiveOrSend(t, "send", s)
                   \/ Close(t, s)
                   \/ ConnectWait(t, s)
                   \/ \E ok \in BOOLEAN : ConnectNow(t, s, ok)

Returns(t) ==
  \/ ReturnFromCall(t, "receive")
  \/ ReturnFromCall(t, "send")
  \/ \E ok \in BOOLEAN : ConnectReturn(t, ok)
  \/ \E h \in Threads, c \in Conns : AcceptReturn(t, h, c)
  \/ \E l \in Listeners : ServerAccept(t, l)

Ends(t) == Finish(t) \/ Raise(t) \/ Propagate(t) \/ Catch(t)

Creates == \/ \E t \in Threads : NewThread(t)
           \/ \E t \in Threads, l \in Listeners : NewServer(t, l)

Loop == \/ Select \/ NothingToWaitFor \/ AfterWake \/ EndDispatch \/ MainRaise
        \/ \E d \in Dir, s \in Sockets : Wake(d, s)

Peer == \E d \in Dir, s \in Sockets, how \in {"part", "whole"} : Arrive(d, s, how)

Next == \/ \E t \in Threads : Uses(t) \/ Returns(t) \/ Ends(t)
        \/ Creates \/ Stop \/ Start \/ Loop \/ Peer

Spec == Init /\ [][Next]_vars

(***************************************************************************)
(* Fairness.  The loop is sequential code, so it takes its next step; a    *)
(* coroutine is not preempted and its code comes, in the end, to a socket  *)
(* call or to its end (cooperative scheduling assumes no less).  Nothing   *)
(* is assumed of the peers, of start() and of stop().                      *)
(***************************************************************************)
FairSpec == /\ Spec
            /\ WF_vars(Loop)
            /\ \A t \in Threads : WF_vars(Uses(t) \/ Returns(t) \/ Ends(t))

-----------------------------------------------------------------------------
(* Properties.                                                             *)

\* A coroutine found in `read' or `write' is suspended in the wait() for that
\* very socket and direction: wake() never resumes a dead or a running
\* coroutine, nor one that waits for something else.  It holds whatever the
\* coroutines do, even when they share sockets.
WaitTablesSound ==
  \A d \in Dir, s \in Sockets :
    LET t == rwt[d][s]
    IN t # None => /\ status[t] = "suspended"
                   /\ call[t].skt = s /\ DirOf(call[t].op) = d

\* A suspended coroutine is in the table it has to be found in: nobody's
\* wait() overwrites, and nobody's close() drops, another's registration.
\* It needs each socket to be used from one coroutine (~Shared).
Registered(t) == rwt[DirOf(call[t].op)][call[t].skt] = t
NoLostThread  == \A t \in Threads : status[t] = "suspended" => Registered(t)

\* What makes the two above inductive.  The active coroutines are those of
\* the chain, each once; a suspended coroutine is in a socket call; and, when
\* sockets are not shared, it is in a call on a socket that it holds.
ChainSound ==
  /\ \A t \in Threads :
       status[t] = "active" <=> \E i \in 1..Len(chain) : chain[i] = t
  /\ \A i, j \in 1..Len(chain) : chain[i] = chain[j] => i = j
InItsCall ==
  \A t \in Threads : status[t] = "suspended" => call[t] \in Calls
HoldsItsSocket ==
  /\ \A t \in Threads : call[t] # NoCall => owner[call[t].skt] = t
  /\ \A s \in Sockets : skt[s] = "unused" => owner[s] = None
Sound == TypeOK /\ ChainSound /\ InItsCall /\ WaitTablesSound
Own   == HoldsItsSocket /\ NoLostThread
IInv  == Sound /\ (~Shared => Own)

\* No coroutine waits on a closed socket, which select() passes over: it
\* would wait for ever, and dispatch() would never find its tables empty.
NoWaitOnClosed ==
  \A t \in Threads : status[t] = "suspended" => skt[call[t].skt] # "closed"

\* What makes it inductive when a coroutine uses one socket at a time
\* (MaxOwned = 1): a coroutine holds one socket at most, and none before it
\* is created; a closed socket is held by nobody that is alive; what select()
\* found and dispatch() has yet to wake still waits and is still loaded.
OneEach ==
  /\ \A s, z \in Sockets : owner[s] # None /\ owner[s] = owner[z] => s = z
  /\ \A s \in Sockets : owner[s] # None => status[owner[s]] # "none"
ClosedIsLeft ==
  \A s \in Sockets : skt[s] = "closed" /\ owner[s] # None => status[owner[s]] = "dead"
FoundStillWaits ==
  \A d \in Dir : \A s \in todo[d] : rwt[d][s] # None /\ ready[d][s] # "none"
WokenIsReal == waking # None => skt[waking] # "unused"
Held  == OneEach /\ ClosedIsLeft /\ FoundStillWaits /\ WokenIsReal

\* socketloop.md: "if each socket is used from its own coroutine, different
\* sockets won't block each other waiting for reads and writes, as long as
\* the loop is dispatching them": a coroutine whose socket is loaded is
\* resumed, unless start() is left.
Served ==
  \A t \in Threads :
    (/\ status[t] = "suspended"
     /\ ready[DirOf(call[t].op)][call[t].skt] # "none")
    ~> (status[t] # "suspended" \/ pc = "idle")

\* stop() called while the loop runs ends it, however busy it is: only the
\* coroutines select() had already found are woken before.
StopEnds == (asked /\ pc # "idle") ~> (pc = "idle")

\* The loop implements blocking I/O (under the discipline of the manual).
AbstractProc == [t \in Threads |->
                   CASE status[t] = "none"      -> "none"
                     [] status[t] = "suspended" -> "blocked"
                     [] status[t] = "dead"      -> "ended"
                     [] OTHER                   -> "runs"]
AbstractOn   == [t \in Threads |-> IF status[t] = "suspended"
                                   THEN <<DirOf(call[t].op), call[t].skt>>
                                   ELSE None]
AbstractSock == [s \in Sockets |-> IF IsOpen(s) THEN "open" ELSE skt[s]]
AbstractLoaded == {ds \in Dir \X Sockets : ready[ds[1]][ds[2]] # "none"}

B == INSTANCE BlockingIO WITH
       Procs <- Threads, proc <- AbstractProc, on <- AbstractOn,
       sock <- AbstractSock, holder <- owner, loaded <- AbstractLoaded

\* Refinement: a coroutine goes on only when the socket it waits for is
\* loaded, although dispatch() acts on a list that other coroutines ran
\* after, and no socket is closed under a coroutine that is alive.
ImplementsBlockingIO == B!Spec

=============================================================================
