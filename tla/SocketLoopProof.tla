--------------------------- MODULE SocketLoopProof ---------------------------
(***************************************************************************)
(* Proofs about SocketLoop, for any numbers of coroutines and sockets and  *)
(* whatever the coroutines, the main program and the peers do.             *)
(*                                                                         *)
(* The argument.  Control moves only by Enter (coroutine.resume) and Back  *)
(* (yield, return, error); two lemmas show that both keep the chain of     *)
(* active coroutines sound.  A coroutine enters a table only as it yields  *)
(* in wait(), and leaves it as it is resumed, so the tables hold suspended *)
(* coroutines only.  If sockets are not shared, every table entry of a     *)
(* socket belongs to the socket's holder, so that neither wait() nor       *)
(* close() by its holder can drop another coroutine's entry.               *)
(*                                                                         *)
(* With one socket at a time (MaxOwned = 1), a socket that wake() closes   *)
(* is nobody's, or that of a coroutine that ended: its holder would wait   *)
(* on it.  What select() found cannot be spoilt before it is woken, as     *)
(* only the coroutine that waits touches that socket.  StepMoves says what *)
(* a step does to one coroutine and to one socket; the invariant and the   *)
(* refinement of BlockingIO both follow from it.                           *)
(***************************************************************************)
EXTENDS SocketLoop, SequenceTheorems, FiniteSetTheorems, TLAPS

\* Resuming a coroutine that is not active keeps the chain sound
\* (coroutine.resume in wake() and newthread()).
LEMMA EnterChain ==
  ASSUME TypeOK, ChainSound, NEW t \in Threads, status[t] # "active", Enter(t)
  PROVE  /\ chain' \in Seq(Threads)
         /\ status' \in [Threads -> {"none", "suspended", "active", "dead"}]
         /\ ChainSound'
<1>1. chain \in Seq(Threads) /\ Len(chain) \in Nat
  BY LenProperties DEF TypeOK
<1>2. /\ chain' \in Seq(Threads)
      /\ Len(chain') = Len(chain) + 1
      /\ chain'[Len(chain) + 1] = t
      /\ \A i \in 1..Len(chain) : chain'[i] = chain[i]
  BY <1>1 DEF Enter
<1>3. /\ status' \in [Threads -> {"none", "suspended", "active", "dead"}]
      /\ status'[t] = "active"
      /\ \A u \in Threads : u # t => status'[u] = status[u]
  BY DEF TypeOK, Enter
<1>4. \A i \in 1..Len(chain) : chain[i] \in Threads /\ chain[i] # t
  BY <1>1, ElementOfSeq DEF ChainSound
<1>5. \A u \in Threads : status'[u] = "active" <=> \E i \in 1..Len(chain') : chain'[i] = u
  <2>1. ASSUME NEW u \in Threads, u # t
        PROVE  status'[u] = "active" <=> \E i \in 1..Len(chain') : chain'[i] = u
    BY <1>1, <1>2, <1>3, <2>1 DEF ChainSound
  <2>2. Len(chain) + 1 \in 1..Len(chain')
    BY <1>1, <1>2
  <2> QED
    BY <1>2, <1>3, <2>1, <2>2
<1>6. \A i, j \in 1..Len(chain') : chain'[i] = chain'[j] => i = j
  BY <1>1, <1>2, <1>4 DEF ChainSound
<1> QED
  BY <1>2, <1>3, <1>5, <1>6 DEF ChainSound

\* The running coroutine is the last of the chain, and it is active.
LEMMA CurrentIsLast ==
  ASSUME TypeOK, ChainSound, NamesAssumption, NEW t \in Threads, Current = t
  PROVE  /\ Len(chain) \in Nat \ {0}
         /\ chain[Len(chain)] = t
         /\ status[t] = "active"
<1>1. chain \in Seq(Threads)
  BY DEF TypeOK
<1>2. chain # <<>> /\ chain[Len(chain)] = t
  BY DEF Current, NamesAssumption
<1>3. Len(chain) \in Nat \ {0}
  BY <1>1, <1>2, EmptySeq
<1> QED
  BY <1>2, <1>3 DEF ChainSound

\* Leaving the running coroutine keeps the chain sound (coroutine.yield in
\* wait(), the end of a coroutine, and its error in assert_resume()).
LEMMA BackChain ==
  ASSUME TypeOK, ChainSound, NamesAssumption, NEW t \in Threads, Current = t,
         NEW st \in {"suspended", "dead"}, Back(t, st)
  PROVE  /\ chain' \in Seq(Threads)
         /\ status' \in [Threads -> {"none", "suspended", "active", "dead"}]
         /\ ChainSound'
<1> DEFINE n == Len(chain)
<1>1. n \in Nat \ {0} /\ chain[n] = t /\ chain \in Seq(Threads)
  BY CurrentIsLast DEF TypeOK
<1>2. /\ chain' \in Seq(Threads)
      /\ Len(chain') = n - 1
      /\ \A i \in 1..n - 1 : chain'[i] = chain[i]
  <2>1. \A i \in 1..n - 1 : chain[i] \in Threads
    BY <1>1, ElementOfSeq
  <2>2. n - 1 \in Int /\ 1 \in Int
    BY <1>1
  <2>3. /\ SubSeq(chain, 1, n - 1) \in Seq(Threads)
        /\ Len(SubSeq(chain, 1, n - 1)) = IF 1 <= n - 1 THEN n - 1 - 1 + 1 ELSE 0
        /\ \A i \in 1..n - 1 - 1 + 1 : SubSeq(chain, 1, n - 1)[i] = chain[1 + i - 1]
    BY <2>1, <2>2, SubSeqProperties
  <2>4. /\ Len(SubSeq(chain, 1, n - 1)) = n - 1
        /\ \A i \in 1..n - 1 : SubSeq(chain, 1, n - 1)[i] = chain[i]
    <3>1. n - 1 - 1 + 1 = n - 1 /\ \A i \in 1..n - 1 : 1 + i - 1 = i
      BY <1>1
    <3> QED
      BY <1>1, <2>3, <3>1
  <2>5. chain' = SubSeq(chain, 1, n - 1)
    BY DEF Back
  <2> HIDE DEF n
  <2> QED
    BY <2>3, <2>4, <2>5
<1>3. /\ status' \in [Threads -> {"none", "suspended", "active", "dead"}]
      /\ status'[t] = st
      /\ \A u \in Threads : u # t => status'[u] = status[u]
  BY DEF TypeOK, Back
<1>4. \A i \in 1..n - 1 : chain[i] # t
  BY <1>1 DEF ChainSound
<1>5. \A u \in Threads : status'[u] = "active" <=> \E i \in 1..Len(chain') : chain'[i] = u
  <2>1. ASSUME NEW u \in Threads, u # t
        PROVE  status'[u] = "active" <=> \E i \in 1..Len(chain') : chain'[i] = u
    <3>1. (\E i \in 1..n : chain[i] = u) <=> \E i \in 1..n - 1 : chain[i] = u
      BY <1>1, <2>1
    <3> QED
      BY <1>2, <1>3, <2>1, <3>1 DEF ChainSound
  <2> QED
    BY <1>2, <1>3, <1>4, <2>1
<1>6. \A i, j \in 1..Len(chain') : chain'[i] = chain'[j] => i = j
  BY <1>1, <1>2 DEF ChainSound
<1> QED
  BY <1>2, <1>3, <1>5, <1>6 DEF ChainSound

-----------------------------------------------------------------------------
\* What the coroutine code leaves of the types.
CoTypes == /\ rwt \in [Dir -> [Sockets -> Threads \cup {None}]]
           /\ status \in [Threads -> {"none", "suspended", "active", "dead"}]
           /\ chain \in Seq(Threads)
           /\ call \in [Threads -> Calls \cup {NoCall}]

\* Entries may leave the tables, and a coroutine that is not suspended may
\* change its call (close(), the return of a socket call).
LEMMA DropEntries ==
  ASSUME Sound, UNCHANGED <<status, chain>>,
         \A t \in Threads : status[t] = "suspended" => call'[t] = call[t],
         \A d \in Dir, s \in Sockets : rwt'[d][s] \in {rwt[d][s], None}
  PROVE  ChainSound' /\ InItsCall' /\ WaitTablesSound'
<1>1. ChainSound'
  BY DEF Sound, ChainSound
<1>2. InItsCall'
  BY DEF Sound, InItsCall
<1>3. WaitTablesSound'
  BY DEF Sound, WaitTablesSound, TypeOK
<1> QED
  BY <1>1, <1>2, <1>3

\* wait(): the running coroutine registers and is suspended.
LEMMA WaitStep ==
  ASSUME Sound, NamesAssumption, NEW t \in Threads, Current = t,
         NEW op \in Ops, NEW s \in Sockets, Wait(t, op, s)
  PROVE  CoTypes' /\ ChainSound' /\ InItsCall' /\ WaitTablesSound'
<1>1. Back(t, "suspended")
  BY DEF Wait
<1>2. /\ chain' \in Seq(Threads)
      /\ status' \in [Threads -> {"none", "suspended", "active", "dead"}]
      /\ ChainSound'
  BY <1>1, BackChain DEF Sound
<1>3. status[t] = "active"
  BY CurrentIsLast DEF Sound
<1>4. DirOf(op) \in Dir
  BY DEF DirOf, Dir
<1>5. [op |-> op, skt |-> s] \in Calls
  BY DEF Calls
<1>6. CoTypes'
  BY <1>2, <1>4, <1>5 DEF CoTypes, Sound, TypeOK, Wait
<1>7. InItsCall'
  BY <1>5, <1>1, <1>3 DEF InItsCall, Sound, TypeOK, Wait, Back
<1>8. WaitTablesSound'
  <2> SUFFICES ASSUME NEW d \in Dir, NEW z \in Sockets, rwt'[d][z] # None
               PROVE  /\ status'[rwt'[d][z]] = "suspended"
                      /\ call'[rwt'[d][z]].skt = z
                      /\ DirOf(call'[rwt'[d][z]].op) = d
    BY DEF WaitTablesSound
  <2>1. CASE d = DirOf(op) /\ z = s
    BY <2>1, <1>1, <1>4 DEF Sound, TypeOK, Wait, Back
  <2>2. CASE ~(d = DirOf(op) /\ z = s)
    <3>1. rwt'[d][z] = rwt[d][z] /\ rwt[d][z] \in Threads
      BY <2>2, <1>4 DEF Sound, TypeOK, Wait
    <3>2. rwt[d][z] # t
      BY <3>1, <1>3 DEF Sound, WaitTablesSound
    <3>3. /\ status'[rwt[d][z]] = status[rwt[d][z]]
          /\ call'[rwt[d][z]] = call[rwt[d][z]]
      BY <1>1, <3>1, <3>2 DEF Sound, TypeOK, Wait, Back
    <3> QED
      BY <3>1, <3>3 DEF Sound, WaitTablesSound
  <2> QED
    BY <2>1, <2>2
<1> QED
  BY <1>2, <1>6, <1>7, <1>8

\* coroutine.resume() of a coroutine that is not active and not, or no
\* longer, in the tables.
LEMMA EnterStep ==
  ASSUME Sound, NamesAssumption, NEW t \in Threads, status[t] # "active", Enter(t),
         \A u \in Threads : status[u] = "suspended" => call'[u] = call[u],
         \A d \in Dir, s \in Sockets : rwt'[d][s] \in {rwt[d][s], None} \ {t}
  PROVE  ChainSound' /\ InItsCall' /\ WaitTablesSound'
<1>1. ChainSound'
  BY EnterChain DEF Sound
<1>2. InItsCall'
  BY DEF Sound, InItsCall, Enter, TypeOK
<1>3. WaitTablesSound'
  BY DEF Sound, WaitTablesSound, TypeOK, Enter
<1> QED
  BY <1>1, <1>2, <1>3

\* The end of the running coroutine.
LEMMA DieStep ==
  ASSUME Sound, NamesAssumption, NEW t \in Threads, Current = t, Die(t),
         UNCHANGED rwt
  PROVE  CoTypes' /\ ChainSound' /\ InItsCall' /\ WaitTablesSound'
<1>1. Back(t, "dead") /\ call' = [call EXCEPT ![t] = NoCall]
  BY DEF Die
<1>2. /\ chain' \in Seq(Threads)
      /\ status' \in [Threads -> {"none", "suspended", "active", "dead"}]
      /\ ChainSound'
  BY <1>1, BackChain DEF Sound
<1>3. status[t] = "active"
  BY CurrentIsLast DEF Sound
<1>4. CoTypes'
  BY <1>1, <1>2 DEF CoTypes, Sound, TypeOK
<1>5. InItsCall'
  BY <1>1 DEF InItsCall, Sound, TypeOK, Back
<1>6. WaitTablesSound'
  BY <1>1, <1>3 DEF Sound, WaitTablesSound, TypeOK, Back
<1> QED
  BY <1>2, <1>4, <1>5, <1>6

-----------------------------------------------------------------------------
\* Every step keeps the types, the chain and the tables sound.
LEMMA SoundStep ==
  ASSUME Sound, NamesAssumption, Next
  PROVE  Sound'
<1>1. ASSUME NEW t \in Threads, NEW op \in {"receive", "send"}, NEW s \in Conns,
            ReceiveOrSend(t, op, s)
      PROVE  Sound'
  <2>1. Current = t /\ Wait(t, op, s) /\ op \in Ops /\ s \in Sockets
    BY <1>1 DEF ReceiveOrSend, Handles, Runs, Ops, Sockets
  <2>2. CoTypes' /\ ChainSound' /\ InItsCall' /\ WaitTablesSound'
    BY <2>1, WaitStep DEF Sound
  <2>3. TypeOK'
    BY <1>1, <2>2 DEF ReceiveOrSend, CoTypes, TypeOK, Sound, Sockets, sktVars, loopVars
  <2> QED
    BY <2>2, <2>3 DEF Sound
<1>2. ASSUME NEW t \in Threads, NEW s \in Conns, Close(t, s)
      PROVE  Sound'
  <2>1. TypeOK'
    BY <1>2 DEF Close, TypeOK, Sound, Sockets, sktVars, loopVars, coVars, NothingTodo
  <2>2. UNCHANGED coVars
    BY <1>2 DEF Close
  <2>3. \A d \in Dir, c \in Sockets : rwt'[d][c] \in {rwt[d][c], None}
    BY <1>2 DEF Close, TypeOK, Sound, Sockets
  <2>4. ChainSound' /\ InItsCall' /\ WaitTablesSound'
    BY <2>2, <2>3, DropEntries DEF coVars
  <2> QED
    BY <2>1, <2>4 DEF Sound
<1>3. ASSUME NEW t \in Threads, NEW s \in Conns, ConnectWait(t, s)
      PROVE  Sound'
  <2>1. Current = t /\ Wait(t, "connect", s) /\ "connect" \in Ops /\ s \in Sockets
    BY <1>3 DEF ConnectWait, MayConnect, Handles, Runs, Ops, Sockets
  <2>2. CoTypes' /\ ChainSound' /\ InItsCall' /\ WaitTablesSound'
    BY <2>1, WaitStep DEF Sound
  <2>3. TypeOK'
    BY <1>3, <2>2 DEF ConnectWait, CoTypes, TypeOK, Sound, Sockets, sktVars, loopVars
  <2> QED
    BY <2>2, <2>3 DEF Sound
<1>4. ASSUME NEW t \in Threads, NEW s \in Conns, NEW ok \in BOOLEAN, ConnectNow(t, s, ok)
      PROVE  Sound'
  <2>1. TypeOK'
    BY <1>4 DEF ConnectNow, TypeOK, Sound, Sockets, sktVars, loopVars, coVars, NothingTodo
  <2>2. ChainSound' /\ InItsCall' /\ WaitTablesSound'
    BY <1>4, DropEntries DEF ConnectNow, TypeOK, Sound, Sockets, coVars
  <2> QED
    BY <2>1, <2>2 DEF Sound
<1>5. ASSUME NEW t \in Threads, NEW op \in {"receive", "send"}, ReturnFromCall(t, op)
      PROVE  Sound'
  <2>1. TypeOK'
    BY <1>5 DEF ReturnFromCall, InCall, TypeOK, Sound, Calls, NoCall, loopVars
  <2>2. status[t] = "active"
    BY <1>5, CurrentIsLast DEF ReturnFromCall, InCall, Sound
  <2>3. ChainSound' /\ InItsCall' /\ WaitTablesSound'
    BY <1>5, <2>2, DropEntries DEF ReturnFromCall, TypeOK, Sound
  <2> QED
    BY <2>1, <2>3 DEF Sound
<1>6. ASSUME NEW t \in Threads, NEW ok \in BOOLEAN, ConnectReturn(t, ok)
      PROVE  Sound'
  <2>1. TypeOK'
    BY <1>6 DEF ConnectReturn, InCall, TypeOK, Sound, Calls, NoCall, loopVars
  <2>2. status[t] = "active"
    BY <1>6, CurrentIsLast DEF ConnectReturn, InCall, Sound
  <2>3. ChainSound' /\ InItsCall' /\ WaitTablesSound'
    BY <1>6, <2>2, DropEntries DEF ConnectReturn, TypeOK, Sound
  <2> QED
    BY <2>1, <2>3 DEF Sound
<1>7. ASSUME NEW t \in Threads, NEW h \in Threads, NEW c \in Conns, AcceptReturn(t, h, c)
      PROVE  Sound'
  <2>1. Enter(h) /\ status[h] = "none" /\ UNCHANGED rwt
    BY <1>7 DEF AcceptReturn
  <2>2. \A d \in Dir, s \in Sockets : rwt[d][s] # h
    BY <2>1 DEF Sound, WaitTablesSound, NamesAssumption
  <2>3. status[t] = "active"
    BY <1>7, CurrentIsLast DEF AcceptReturn, InCall, Sound
  <2>4. \A u \in Threads : status[u] = "suspended" => call'[u] = call[u]
    BY <1>7, <2>3 DEF AcceptReturn, TypeOK, Sound
  <2>5. ChainSound' /\ InItsCall' /\ WaitTablesSound'
    BY <2>1, <2>2, <2>4, EnterStep
  <2>6. chain' \in Seq(Threads)
    BY <2>1, EnterChain DEF Sound
  <2>7. ready' \in [Dir -> [Sockets -> {"none", "part", "whole"}]]
    BY <1>7 DEF AcceptReturn, TypeOK, Sound, Dir
  <2>8. /\ skt' \in [Sockets -> {"unused", "nonblocking", "blocking", "closed"}]
        /\ owner' \in [Sockets -> Threads \cup {None}]
    BY <1>7 DEF AcceptReturn, TypeOK, Sound, Sockets
  <2>9. /\ call' \in [Threads -> Calls \cup {NoCall}]
         /\ status' \in [Threads -> {"none", "suspended", "active", "dead"}]
    BY <1>7 DEF AcceptReturn, Enter, TypeOK, Sound
  <2>10. UNCHANGED <<rwt, role, err, pc, todo, waking, stop, asked>>
    BY <1>7 DEF AcceptReturn, loopVars
  <2>11. TypeOK'
    BY <2>6, <2>7, <2>8, <2>9, <2>10 DEF TypeOK, Sound
  <2> QED
    BY <2>5, <2>11 DEF Sound
<1>8. ASSUME NEW t \in Threads, NEW s \in Listeners, ServerAccept(t, s)
      PROVE  Sound'
  <2>1. Current = t /\ Wait(t, "accept", s) /\ "accept" \in Ops /\ s \in Sockets
    BY <1>8 DEF ServerAccept, Handles, Runs, Ops, Sockets
  <2>2. CoTypes' /\ ChainSound' /\ InItsCall' /\ WaitTablesSound'
    BY <2>1, WaitStep DEF Sound
  <2>3. TypeOK'
    BY <1>8, <2>2 DEF ServerAccept, CoTypes, TypeOK, Sound, Sockets, sktVars, loopVars
  <2> QED
    BY <2>2, <2>3 DEF Sound
<1>9. ASSUME NEW t \in Threads, Finish(t)
      PROVE  Sound'
  <2>1. Current = t /\ Die(t) /\ UNCHANGED rwt
    BY <1>9 DEF Finish, Handles, Runs
  <2>2. CoTypes' /\ ChainSound' /\ InItsCall' /\ WaitTablesSound'
    BY <2>1, DieStep
  <2>3. TypeOK'
    BY <1>9, <2>2 DEF Finish, CoTypes, TypeOK, Sound, sktVars, loopVars
  <2> QED
    BY <2>2, <2>3 DEF Sound
<1>10. ASSUME NEW t \in Threads, Raise(t)
      PROVE  Sound'
  <2>1. Current = t /\ Die(t) /\ UNCHANGED rwt
    BY <1>10 DEF Raise, Handles, Runs, InCall
  <2>2. CoTypes' /\ ChainSound' /\ InItsCall' /\ WaitTablesSound'
    BY <2>1, DieStep
  <2>3. TypeOK'
    BY <1>10, <2>2 DEF Raise, CoTypes, TypeOK, Sound, sktVars, loopVars
  <2> QED
    BY <2>2, <2>3 DEF Sound
<1>11. ASSUME NEW t \in Threads, Propagate(t)
      PROVE  Sound'
  <2>1. Current = t /\ Die(t) /\ UNCHANGED rwt
    BY <1>11 DEF Propagate
  <2>2. CoTypes' /\ ChainSound' /\ InItsCall' /\ WaitTablesSound'
    BY <2>1, DieStep
  <2>3. TypeOK'
    BY <1>11, <2>2 DEF Propagate, CoTypes, TypeOK, Sound, sktVars, loopVars
  <2> QED
    BY <2>2, <2>3 DEF Sound
<1>12. ASSUME NEW t \in Threads, Catch(t)
      PROVE  Sound'
  <2>1. TypeOK'
    BY <1>12 DEF Catch, TypeOK, Sound, Sockets, sktVars, loopVars, coVars, NothingTodo
  <2>2. ChainSound' /\ InItsCall' /\ WaitTablesSound'
    BY <1>12, DropEntries DEF Catch, TypeOK, Sound, Sockets, coVars
  <2> QED
    BY <2>1, <2>2 DEF Sound
<1>13. ASSUME NEW t \in Threads, NewThread(t)
      PROVE  Sound'
  <2>1. Enter(t) /\ status[t] = "none" /\ UNCHANGED rwt
    BY <1>13 DEF NewThread
  <2>2. \A d \in Dir, s \in Sockets : rwt[d][s] # t
    BY <2>1 DEF Sound, WaitTablesSound, NamesAssumption
  <2>3. \A u \in Threads : status[u] = "suspended" => call'[u] = call[u]
    BY <1>13 DEF NewThread
  <2>4. ChainSound' /\ InItsCall' /\ WaitTablesSound'
    BY <2>1, <2>2, <2>3, EnterStep
  <2>5. chain' \in Seq(Threads)
    BY <2>1, EnterChain DEF Sound
  <2>6. TypeOK'
    <3>1. status' \in [Threads -> {"none", "suspended", "active", "dead"}]
      BY <2>1 DEF Enter, TypeOK, Sound
    <3>2. UNCHANGED <<rwt, call, role, err, sktVars, loopVars>>
      BY <1>13 DEF NewThread
    <3> QED
      BY <2>5, <3>1, <3>2 DEF TypeOK, Sound, sktVars, loopVars
  <2> QED
    BY <2>4, <2>6 DEF Sound
<1>14. ASSUME NEW t \in Threads, NEW l \in Listeners, NewServer(t, l)
      PROVE  Sound'
  <2>1. Enter(t) /\ status[t] = "none" /\ UNCHANGED rwt
    BY <1>14 DEF NewServer
  <2>2. \A d \in Dir, s \in Sockets : rwt[d][s] # t
    BY <2>1 DEF Sound, WaitTablesSound, NamesAssumption
  <2>3. \A u \in Threads : status[u] = "suspended" => call'[u] = call[u]
    BY <1>14 DEF NewServer
  <2>4. ChainSound' /\ InItsCall' /\ WaitTablesSound'
    BY <2>1, <2>2, <2>3, EnterStep
  <2>5. chain' \in Seq(Threads)
    BY <2>1, EnterChain DEF Sound
  <2>6. TypeOK'
    BY <1>14, <2>1, <2>5
      DEF NewServer, Enter, TypeOK, Sound, Sockets, Calls, NoCall, sktVars, loopVars
  <2> QED
    BY <2>4, <2>6 DEF Sound
<1>15. ASSUME Stop
      PROVE  Sound'
  <2>1. TypeOK'
    BY <1>15 DEF Stop, TypeOK, Sound, Sockets, sktVars, loopVars, coVars, NothingTodo
  <2>2. ChainSound' /\ InItsCall' /\ WaitTablesSound'
    BY <1>15, DropEntries DEF Stop, TypeOK, Sound, Sockets, coVars
  <2> QED
    BY <2>1, <2>2 DEF Sound
<1>16. ASSUME Start
      PROVE  Sound'
  <2>1. TypeOK'
    BY <1>16 DEF Start, TypeOK, Sound, Sockets, sktVars, loopVars, coVars, NothingTodo
  <2>2. ChainSound' /\ InItsCall' /\ WaitTablesSound'
    BY <1>16, DropEntries DEF Start, TypeOK, Sound, Sockets, coVars
  <2> QED
    BY <2>1, <2>2 DEF Sound
<1>17. ASSUME Select
      PROVE  Sound'
  <2>1. TypeOK'
    BY <1>17
      DEF Select, TypeOK, Sound, Sockets, sktVars, loopVars, coVars, NothingTodo, Loaded,
          Waiters
  <2>2. ChainSound' /\ InItsCall' /\ WaitTablesSound'
    BY <1>17, DropEntries DEF Select, TypeOK, Sound, Sockets, coVars
  <2> QED
    BY <2>1, <2>2 DEF Sound
<1>18. ASSUME NothingToWaitFor
      PROVE  Sound'
  <2>1. TypeOK'
    BY <1>18 DEF NothingToWaitFor, TypeOK, Sound, Sockets, sktVars, loopVars, coVars, NothingTodo
  <2>2. ChainSound' /\ InItsCall' /\ WaitTablesSound'
    BY <1>18, DropEntries DEF NothingToWaitFor, TypeOK, Sound, Sockets, coVars
  <2> QED
    BY <2>1, <2>2 DEF Sound
<1>19. ASSUME AfterWake
      PROVE  Sound'
  <2>1. TypeOK'
    <3>1. waking \in Sockets /\ waking' = None
      BY <1>19 DEF AfterWake, Awaited, TypeOK, Sound
    <3>2. /\ skt' \in [Sockets -> {"unused", "nonblocking", "blocking", "closed"}]
          /\ ready' \in [Dir -> [Sockets -> {"none", "part", "whole"}]]
      <4>1. CASE \E d \in Dir : rwt[d][waking] # None
        BY <1>19, <4>1 DEF AfterWake, Awaited, TypeOK, Sound
      <4>2. CASE ~\E d \in Dir : rwt[d][waking] # None
        BY <1>19, <3>1, <4>2 DEF AfterWake, Awaited, TypeOK, Sound
      <4> QED
        BY <4>1, <4>2
    <3> QED
      BY <1>19, <3>1, <3>2 DEF AfterWake, Awaited, TypeOK, Sound, coVars
  <2>2. ChainSound' /\ InItsCall' /\ WaitTablesSound'
    BY <1>19, DropEntries DEF AfterWake, Awaited, TypeOK, Sound, coVars
  <2> QED
    BY <2>1, <2>2 DEF Sound
<1>20. ASSUME EndDispatch
      PROVE  Sound'
  <2>1. TypeOK'
    BY <1>20 DEF EndDispatch, TypeOK, Sound, Sockets, sktVars, loopVars, coVars, NothingTodo
  <2>2. ChainSound' /\ InItsCall' /\ WaitTablesSound'
    BY <1>20, DropEntries DEF EndDispatch, TypeOK, Sound, Sockets, coVars
  <2> QED
    BY <2>1, <2>2 DEF Sound
<1>21. ASSUME MainRaise
      PROVE  Sound'
  <2>1. TypeOK'
    BY <1>21 DEF MainRaise, TypeOK, Sound, Sockets, sktVars, loopVars, coVars, NothingTodo
  <2>2. ChainSound' /\ InItsCall' /\ WaitTablesSound'
    BY <1>21, DropEntries DEF MainRaise, TypeOK, Sound, Sockets, coVars
  <2> QED
    BY <2>1, <2>2 DEF Sound
<1>22. ASSUME NEW d \in Dir, NEW s \in Sockets, Wake(d, s)
      PROVE  Sound'
  <2> DEFINE thread == rwt[d][s]
  <2>1. CASE thread = None
    <3>1. TypeOK'
      BY <1>22, <2>1 DEF Wake, Resume, TypeOK, Sound, sktVars
    <3>2. ChainSound' /\ InItsCall' /\ WaitTablesSound'
      BY <1>22, <2>1, DropEntries DEF Wake, Resume, TypeOK, Sound
    <3> QED
      BY <3>1, <3>2 DEF Sound
  <2>2. CASE thread # None
    <3>1. thread \in Threads /\ status[thread] = "suspended"
      BY <2>2 DEF Sound, TypeOK, WaitTablesSound
    <3>2. Enter(thread) /\ rwt' = [rwt EXCEPT ![d][s] = None] /\ UNCHANGED call
      BY <1>22, <2>2 DEF Wake, Resume, Resume
    <3>3. \A e \in Dir, z \in Sockets : rwt[e][z] = thread => e = d /\ z = s
      BY <2>2 DEF Sound, WaitTablesSound
    <3>4. \A e \in Dir, z \in Sockets : rwt'[e][z] \in {rwt[e][z], None} \ {thread}
      BY <2>2, <3>2, <3>3 DEF Sound, TypeOK
    <3>5. ChainSound' /\ InItsCall' /\ WaitTablesSound'
      BY <3>1, <3>2, <3>4, EnterStep
    <3>6. chain' \in Seq(Threads)
      BY <3>1, <3>2, EnterChain DEF Sound
    <3>7. TypeOK'
      BY <1>22, <2>2, <3>1, <3>2, <3>6 DEF Wake, Resume, Enter, TypeOK, Sound, sktVars
    <3> QED
      BY <3>5, <3>7 DEF Sound
  <2> QED
    BY <2>1, <2>2
<1>23. ASSUME NEW d \in Dir, NEW s \in Sockets, NEW how \in {"part", "whole"}, Arrive(d, s, how)
      PROVE  Sound'
  <2>1. TypeOK'
    BY <1>23 DEF Arrive, TypeOK, Sound, Sockets, sktVars, loopVars, coVars, NothingTodo
  <2>2. ChainSound' /\ InItsCall' /\ WaitTablesSound'
    BY <1>23, DropEntries DEF Arrive, TypeOK, Sound, Sockets, coVars
  <2> QED
    BY <2>1, <2>2 DEF Sound
<1> QED
  BY <1>1, <1>2, <1>3, <1>4, <1>5, <1>6, <1>7, <1>8, <1>9, <1>10, <1>11, <1>12, <1>13,
     <1>14, <1>15, <1>16, <1>17, <1>18, <1>19, <1>20, <1>21, <1>22, <1>23
     DEF Next, Uses, Returns, Ends, Creates, Loop, Peer

\* The initial state is sound.
LEMMA SoundInit == ASSUME NamesAssumption, Init PROVE Sound
<1>1. TypeOK
  BY EmptySeq DEF Init, TypeOK, NothingTodo, Dir
<1>2. ChainSound
  BY DEF Init, ChainSound
<1>3. InItsCall /\ WaitTablesSound
  BY DEF Init, InItsCall, WaitTablesSound
<1> QED
  BY <1>1, <1>2, <1>3 DEF Sound

-----------------------------------------------------------------------------
\* A suspended coroutine is in a call, which names a direction and a socket.
LEMMA CallHasSocket ==
  ASSUME Sound
  PROVE  \A t \in Threads : status[t] = "suspended" =>
            /\ call[t] # NoCall
            /\ call[t].skt \in Sockets
            /\ DirOf(call[t].op) \in Dir
<1> SUFFICES ASSUME NEW t \in Threads, status[t] = "suspended"
             PROVE  /\ call[t] # NoCall
                    /\ call[t].skt \in Sockets
                    /\ DirOf(call[t].op) \in Dir
  OBVIOUS
<1>1. call[t] \in Calls
  BY DEF Sound, InItsCall
<1>2. call[t].op \in Ops /\ call[t].skt \in Sockets
  BY <1>1 DEF Calls
<1>3. call[t].op # "none"
  BY <1>2 DEF Ops
<1> QED
  BY <1>2, <1>3 DEF DirOf, Dir, NoCall

\* wait() on a socket that the running coroutine holds, or that nobody held.
LEMMA OwnWait ==
  ASSUME Sound, Own, NamesAssumption, NEW t \in Threads, Current = t,
         NEW op \in Ops, NEW s \in Sockets, Wait(t, op, s),
         owner'[s] = t, owner[s] \in {t, None},
         \A z \in Sockets : z # s => owner'[z] = owner[z] /\ skt'[z] = skt[z],
         skt'[s] # "unused"
  PROVE  Own'
<1>1. \A u \in Threads : u # t /\ call[u] # NoCall => call[u] \in Calls /\ call[u].skt # s
  BY DEF Sound, TypeOK, Own, HoldsItsSocket, NamesAssumption
<1>2. call' = [call EXCEPT ![t] = [op |-> op, skt |-> s]]
  BY DEF Wait
<1>3. HoldsItsSocket'
  <2>1. \A u \in Threads : call'[u] # NoCall => owner'[call'[u].skt] = u
    <3> SUFFICES ASSUME NEW u \in Threads, call'[u] # NoCall
                 PROVE  owner'[call'[u].skt] = u
      OBVIOUS
    <3>1. CASE u = t
      BY <1>2, <3>1 DEF Sound, TypeOK
    <3>2. CASE u # t
      <4>1. call'[u] = call[u]
        BY <1>2, <3>2 DEF Sound, TypeOK
      <4>2. call[u].skt \in Sockets /\ call[u].skt # s
        BY <1>1, <3>2, <4>1 DEF Calls
      <4> QED
        BY <4>1, <4>2 DEF Own, HoldsItsSocket
    <3> QED
      BY <3>1, <3>2
  <2> QED
    BY <2>1 DEF Own, HoldsItsSocket
<1>4. NoLostThread'
  <2> SUFFICES ASSUME NEW u \in Threads, status'[u] = "suspended"
               PROVE  Registered(u)'
    BY DEF NoLostThread
  <2>1. CASE u = t
    <3>1. DirOf(op) \in Dir
      BY DEF DirOf, Dir
    <3> QED
      BY <1>2, <2>1, <3>1 DEF Wait, Registered, Sound, TypeOK
  <2>2. CASE u # t
    <3>1. status[u] = "suspended" /\ call'[u] = call[u]
      BY <1>2, <2>2 DEF Wait, Back, Sound, TypeOK
    <3>2. /\ DirOf(call[u].op) \in Dir /\ call[u].skt \in Sockets
          /\ call[u].skt # s
      BY <1>1, <2>2, <3>1, CallHasSocket
    <3> QED
      BY <3>1, <3>2 DEF Wait, Registered, Sound, TypeOK, Own, NoLostThread
  <2> QED
    BY <2>1, <2>2
<1> QED
  BY <1>3, <1>4 DEF Own

\* Every step keeps every suspended coroutine registered.
LEMMA OwnStep ==
  ASSUME Sound, Own, NamesAssumption, ~Shared, Next
  PROVE  Own'
<1>1. ASSUME NEW t \in Threads, NEW op \in {"receive", "send"}, NEW s \in Conns,
            ReceiveOrSend(t, op, s)
      PROVE  Own'
  <2>1. /\ Current = t /\ Wait(t, op, s) /\ s \in Sockets
        /\ owner'[s] = t /\ owner[s] \in {t, None}
        /\ \A z \in Sockets : z # s => owner'[z] = owner[z] /\ skt'[z] = skt[z]
        /\ skt'[s] # "unused"
    BY <1>1
      DEF ReceiveOrSend, MayConnect, MayUse, Handles, Runs, Sockets, sktVars, Own,
          HoldsItsSocket, Sound, TypeOK, NamesAssumption
  <2> QED
    BY <2>1, OwnWait DEF Ops
<1>2. ASSUME NEW t \in Threads, NEW s \in Conns, Close(t, s)
      PROVE  Own'
  <2>1. owner[s] = t /\ call[t] = NoCall /\ s \in Sockets
    BY <1>2 DEF Close, MayUse, Handles, Runs, Sockets
  <2>2. \A u \in Threads : call[u] # NoCall => call[u] \in Calls /\ call[u].skt # s
    BY <2>1 DEF Own, HoldsItsSocket, Sound, TypeOK
  <2>3. HoldsItsSocket'
    BY <1>2, <2>1, <2>2
      DEF Close, Calls, Own, HoldsItsSocket, Sound, TypeOK, coVars, NamesAssumption
  <2>4. NoLostThread'
    BY <1>2, <2>2, CallHasSocket DEF Close, Own, NoLostThread, Registered, Sound, TypeOK, coVars
  <2> QED
    BY <2>3, <2>4 DEF Own
<1>3. ASSUME NEW t \in Threads, NEW s \in Conns, ConnectWait(t, s)
      PROVE  Own'
  <2>1. /\ Current = t /\ Wait(t, "connect", s) /\ s \in Sockets
        /\ owner'[s] = t /\ owner[s] \in {t, None}
        /\ \A z \in Sockets : z # s => owner'[z] = owner[z] /\ skt'[z] = skt[z]
        /\ skt'[s] # "unused"
    BY <1>3
      DEF ConnectWait, MayConnect, MayUse, Handles, Runs, Sockets, sktVars, Own,
          HoldsItsSocket, Sound, TypeOK, NamesAssumption
  <2> QED
    BY <2>1, OwnWait DEF Ops
<1>4. ASSUME NEW t \in Threads, NEW s \in Conns, NEW ok \in BOOLEAN, ConnectNow(t, s, ok)
      PROVE  Own'
  <2>1. owner[s] = None /\ s \in Sockets
    BY <1>4 DEF ConnectNow, MayConnect, Sockets, Own, HoldsItsSocket
  <2>2. \A u \in Threads : call[u] # NoCall => call[u].skt # s
    BY <2>1 DEF Own, HoldsItsSocket, NamesAssumption
  <2>3. HoldsItsSocket'
    BY <1>4, <2>1, <2>2 DEF ConnectNow, Sound, TypeOK, Own, HoldsItsSocket, sktVars, coVars
  <2>4. NoLostThread'
    BY <1>4, <2>1, <2>2 DEF ConnectNow, Sound, TypeOK, Own, NoLostThread, Registered, coVars
  <2> QED
    BY <2>3, <2>4 DEF Own
<1>5. ASSUME NEW t \in Threads, NEW op \in {"receive", "send"}, ReturnFromCall(t, op)
      PROVE  Own'
  <2>1. status[t] = "active"
    BY <1>5, CurrentIsLast DEF ReturnFromCall, InCall, Sound
  <2>2. HoldsItsSocket'
    BY <1>5, <2>1 DEF ReturnFromCall, Sound, TypeOK, Own, HoldsItsSocket, sktVars, coVars
  <2>3. NoLostThread'
    BY <1>5, <2>1 DEF ReturnFromCall, Sound, TypeOK, Own, NoLostThread, Registered, coVars
  <2> QED
    BY <2>2, <2>3 DEF Own
<1>6. ASSUME NEW t \in Threads, NEW ok \in BOOLEAN, ConnectReturn(t, ok)
      PROVE  Own'
  <2>1. call[t] # NoCall /\ owner[call[t].skt] = t
    BY <1>6 DEF ConnectReturn, InCall, NoCall, Own, HoldsItsSocket
  <2>2. \A u \in Threads : u # t /\ call[u] # NoCall => call[u].skt # call[t].skt
    BY <2>1 DEF Own, HoldsItsSocket
  <2>3. status[t] = "active"
    BY <1>6, CurrentIsLast DEF ConnectReturn, InCall, Sound
  <2>4. HoldsItsSocket'
    BY <1>6, <2>1, <2>2, <2>3 DEF ConnectReturn, Sound, TypeOK, Own, HoldsItsSocket, sktVars, coVars
  <2>5. NoLostThread'
    BY <1>6, <2>1, <2>2, <2>3
      DEF ConnectReturn, Sound, TypeOK, Own, NoLostThread, Registered, coVars
  <2> QED
    BY <2>4, <2>5 DEF Own
<1>7. ASSUME NEW t \in Threads, NEW h \in Threads, NEW c \in Conns, AcceptReturn(t, h, c)
      PROVE  Own'
  <2>1. owner[c] = None /\ c \in Sockets
    BY <1>7 DEF AcceptReturn, MayConnect, Sockets, Own, HoldsItsSocket
  <2>2. \A u \in Threads : call[u] # NoCall => call[u].skt # c
    BY <2>1 DEF Own, HoldsItsSocket, NamesAssumption
  <2>3. status[t] = "active"
    BY <1>7, CurrentIsLast DEF AcceptReturn, InCall, Sound
  <2>4. HoldsItsSocket'
    BY <1>7, <2>1, <2>2, <2>3 DEF AcceptReturn, Sound, TypeOK, Own, HoldsItsSocket, sktVars, coVars
  <2>5. NoLostThread'
    BY <1>7, <2>1, <2>2, <2>3
      DEF AcceptReturn, Enter, Sound, TypeOK, Own, NoLostThread, Registered, coVars
  <2> QED
    BY <2>4, <2>5 DEF Own
<1>8. ASSUME NEW t \in Threads, NEW s \in Listeners, ServerAccept(t, s)
      PROVE  Own'
  <2>1. /\ Current = t /\ Wait(t, "accept", s) /\ s \in Sockets
        /\ owner'[s] = t /\ owner[s] \in {t, None}
        /\ \A z \in Sockets : z # s => owner'[z] = owner[z] /\ skt'[z] = skt[z]
        /\ skt'[s] # "unused"
    BY <1>8
      DEF ServerAccept, MayConnect, MayUse, Handles, Runs, Sockets, sktVars, Own,
          HoldsItsSocket, Sound, TypeOK, NamesAssumption
  <2> QED
    BY <2>1, OwnWait DEF Ops
<1>9. ASSUME NEW t \in Threads, Finish(t)
      PROVE  Own'
  <2>1. Current = t /\ Die(t)
    BY <1>9 DEF Finish, Handles, Runs
  <2>2. HoldsItsSocket'
    BY <1>9, <2>1 DEF Finish, Die, Sound, TypeOK, Own, HoldsItsSocket, sktVars
  <2>3. NoLostThread'
    BY <1>9, <2>1 DEF Finish, Die, Back, Sound, TypeOK, Own, NoLostThread, Registered, coVars
  <2> QED
    BY <2>2, <2>3 DEF Own
<1>10. ASSUME NEW t \in Threads, Raise(t)
      PROVE  Own'
  <2>1. Current = t /\ Die(t)
    BY <1>10 DEF Raise, Handles, Runs, InCall
  <2>2. HoldsItsSocket'
    BY <1>10, <2>1 DEF Raise, Die, Sound, TypeOK, Own, HoldsItsSocket, sktVars
  <2>3. NoLostThread'
    BY <1>10, <2>1 DEF Raise, Die, Back, Sound, TypeOK, Own, NoLostThread, Registered, coVars
  <2> QED
    BY <2>2, <2>3 DEF Own
<1>11. ASSUME NEW t \in Threads, Propagate(t)
      PROVE  Own'
  <2>1. Current = t /\ Die(t)
    BY <1>11 DEF Propagate
  <2>2. HoldsItsSocket'
    BY <1>11, <2>1 DEF Propagate, Die, Sound, TypeOK, Own, HoldsItsSocket, sktVars
  <2>3. NoLostThread'
    BY <1>11, <2>1 DEF Propagate, Die, Back, Sound, TypeOK, Own, NoLostThread, Registered, coVars
  <2> QED
    BY <2>2, <2>3 DEF Own
<1>12. ASSUME NEW t \in Threads, Catch(t)
      PROVE  Own'
  BY <1>12 DEF Catch, Own, HoldsItsSocket, NoLostThread, Registered, coVars, sktVars
<1>13. ASSUME NEW t \in Threads, NewThread(t)
      PROVE  Own'
  <2>1. HoldsItsSocket'
    BY <1>13 DEF NewThread, Sound, TypeOK, Own, HoldsItsSocket, sktVars, coVars
  <2>2. NoLostThread'
    BY <1>13 DEF NewThread, Enter, Sound, TypeOK, Own, NoLostThread, Registered, coVars
  <2> QED
    BY <2>1, <2>2 DEF Own
<1>14. ASSUME NEW t \in Threads, NEW l \in Listeners, NewServer(t, l)
      PROVE  Own'
  <2>1. owner[l] = None /\ l \in Sockets
    BY <1>14 DEF NewServer, MayConnect, Sockets, Own, HoldsItsSocket
  <2>2. \A u \in Threads : call[u] # NoCall => call[u].skt # l
    BY <2>1 DEF Own, HoldsItsSocket, NamesAssumption
  <2>3. HoldsItsSocket'
    BY <1>14, <2>1, <2>2 DEF NewServer, Sound, TypeOK, Own, HoldsItsSocket, sktVars, coVars
  <2>4. NoLostThread'
    BY <1>14, <2>1, <2>2 DEF NewServer, Enter, Sound, TypeOK, Own, NoLostThread, Registered, coVars
  <2> QED
    BY <2>3, <2>4 DEF Own
<1>15. ASSUME Stop
      PROVE  Own'
  BY <1>15 DEF Stop, Own, HoldsItsSocket, NoLostThread, Registered, coVars, sktVars
<1>16. ASSUME Start
      PROVE  Own'
  BY <1>16 DEF Start, Own, HoldsItsSocket, NoLostThread, Registered, coVars, sktVars
<1>17. ASSUME Select
      PROVE  Own'
  BY <1>17 DEF Select, Own, HoldsItsSocket, NoLostThread, Registered, coVars, sktVars
<1>18. ASSUME NothingToWaitFor
      PROVE  Own'
  BY <1>18 DEF NothingToWaitFor, Own, HoldsItsSocket, NoLostThread, Registered, coVars, sktVars
<1>19. ASSUME AfterWake
      PROVE  Own'
  <2>1. \A z \in Sockets : skt'[z] = "unused" => skt[z] = "unused"
    <3>1. CASE \E d \in Dir : rwt[d][waking] # None
      BY <1>19, <3>1 DEF AfterWake, Awaited
    <3>2. CASE ~\E d \in Dir : rwt[d][waking] # None
      BY <1>19, <3>2 DEF AfterWake, Awaited, Sound, TypeOK
    <3> QED
      BY <3>1, <3>2
  <2> QED
    BY <1>19, <2>1 DEF AfterWake, Awaited, Own, HoldsItsSocket, NoLostThread, Registered, coVars
<1>20. ASSUME EndDispatch
      PROVE  Own'
  BY <1>20 DEF EndDispatch, Own, HoldsItsSocket, NoLostThread, Registered, coVars, sktVars
<1>21. ASSUME MainRaise
      PROVE  Own'
  BY <1>21 DEF MainRaise, Own, HoldsItsSocket, NoLostThread, Registered, coVars, sktVars
<1>22. ASSUME NEW d \in Dir, NEW s \in Sockets, Wake(d, s)
      PROVE  Own'
  <2>1. HoldsItsSocket'
    BY <1>22 DEF Wake, Resume, Own, HoldsItsSocket, sktVars
  <2>2. NoLostThread'
    <3>1. CASE rwt[d][s] = None
      BY <1>22, <3>1 DEF Wake, Resume, Own, NoLostThread, Registered
    <3>2. CASE rwt[d][s] # None
      <4>1. /\ status' = [status EXCEPT ![rwt[d][s]] = "active"]
            /\ rwt' = [rwt EXCEPT ![d][s] = None] /\ call' = call
        BY <1>22, <3>2 DEF Wake, Resume, Enter
      <4> QED
        BY <3>2, <4>1, CallHasSocket DEF Own, NoLostThread, Registered, Sound, TypeOK
    <3> QED
      BY <3>1, <3>2
  <2> QED
    BY <2>1, <2>2 DEF Own
<1>23. ASSUME NEW d \in Dir, NEW s \in Sockets, NEW how \in {"part", "whole"}, Arrive(d, s, how)
      PROVE  Own'
  BY <1>23 DEF Arrive, Own, HoldsItsSocket, NoLostThread, Registered, coVars, sktVars
<1> QED
  BY <1>1, <1>2, <1>3, <1>4, <1>5, <1>6, <1>7, <1>8, <1>9, <1>10, <1>11, <1>12, <1>13,
     <1>14, <1>15, <1>16, <1>17, <1>18, <1>19, <1>20, <1>21, <1>22, <1>23
     DEF Next, Uses, Returns, Ends, Creates, Loop, Peer

\* The inductive invariant: Sound of every program, Own of those that use
\* each socket from one coroutine.
THEOREM Invariant == Spec => []IInv
<1>1. Init => IInv
  <2>1. Init => Sound
    BY NamesAssumption, SoundInit
  <2>2. Init => Own
    BY DEF Init, Own, HoldsItsSocket, NoLostThread
  <2> QED
    BY <2>1, <2>2 DEF IInv
<1>2. IInv /\ [Next]_vars => IInv'
  <2> SUFFICES ASSUME IInv, [Next]_vars
               PROVE  IInv'
    OBVIOUS
  <2>1. CASE Next
    BY <2>1, NamesAssumption, SoundStep, OwnStep DEF IInv
  <2>2. CASE UNCHANGED vars
    <3>1. Sound'
      BY <2>2 DEF vars, coVars, sktVars, loopVars, IInv, Sound, TypeOK, ChainSound,
                  InItsCall, WaitTablesSound
    <3>2. ~Shared => Own'
      BY <2>2 DEF vars, coVars, sktVars, IInv, Own, HoldsItsSocket, NoLostThread, Registered
    <3> QED
      BY <3>1, <3>2 DEF IInv
  <2> QED
    BY <2>1, <2>2
<1> QED
  BY <1>1, <1>2, PTL DEF Spec

\* Type correctness: the tables hold coroutines or nil, the chain of resumed
\* coroutines is one of coroutines, select()'s rest one of sockets.
THEOREM TypeCorrect == Spec => []TypeOK
<1>1. IInv => TypeOK
  BY DEF IInv, Sound
<1> QED
  BY <1>1, Invariant, PTL

\* wake() only ever resumes a coroutine that is suspended in the wait() for
\* the very socket and direction it is woken for, however sockets are shared.
THEOREM TablesSound == Spec => []WaitTablesSound
<1>1. IInv => WaitTablesSound
  BY DEF IInv, Sound
<1> QED
  BY <1>1, Invariant, PTL

\* When each socket is used from one coroutine, no coroutine is ever lost:
\* whoever is suspended is in the table where dispatch() will look for it.
THEOREM NothingLost == ~Shared => (Spec => []NoLostThread)
<1> SUFFICES ASSUME ~Shared
             PROVE  Spec => []NoLostThread
  OBVIOUS
<1>1. IInv => NoLostThread
  BY DEF IInv, Own
<1> QED
  BY <1>1, Invariant, PTL

-----------------------------------------------------------------------------
(* One socket at a time.  A step does one of five things to a coroutine,   *)
(* and one of four to a socket.                                            *)

Suspends(t) == /\ status[t] = "active" /\ status'[t] = "suspended"
               /\ call'[t] \in Calls /\ owner'[call'[t].skt] = t
Goes(t)     == /\ status[t] = "suspended" /\ status'[t] = "active"
               /\ ready[DirOf(call[t].op)][call[t].skt] # "none"
Stays(t)    == /\ status'[t] = status[t]
               /\ status[t] = "suspended" => call'[t] = call[t]
Moves(t)    == \/ Stays(t) \/ Suspends(t) \/ Goes(t)
               \/ status[t] = "none"   /\ status'[t] = "active"
               \/ status[t] = "active" /\ status'[t] = "dead"

\* t, which holds nothing, takes s.
Takes(t, s) == /\ owner'[s] = t /\ status'[t] \in {"active", "suspended"}
               /\ \A z \in Sockets : z # s => owner'[z] # t
IsMade(s)   == /\ skt[s] = "unused" /\ IsOpen(s)'
               /\ owner'[s] = None \/ \E t \in Threads : Takes(t, s)
IsKept(s)   == skt'[s] = skt[s] /\ owner'[s] = owner[s]
IsGiven(s)  == skt'[s] = skt[s] /\ owner'[s] = None
IsClosed(s) == /\ IsOpen(s) /\ skt'[s] = "closed"
               /\ \/ owner'[s] = None
                  \/ owner'[s] = owner[s] /\ status[owner[s]] = "dead"
Changes(s)  == IsMade(s) \/ IsKept(s) \/ IsGiven(s) \/ IsClosed(s)

\* A coroutine that may connect holds no socket (MayConnect, MaxOwned = 1).
LEMMA HoldsNothing ==
  ASSUME NEW t \in Threads, OneEach, NamesAssumption, MaxOwned = 1,
         Cardinality(Owned(t)) < MaxOwned
  PROVE  \A z \in Sockets : owner[z] # t
<1> SUFFICES ASSUME NEW z \in Sockets, owner[z] = t
             PROVE  FALSE
  OBVIOUS
<1>1. \A y \in Sockets : owner[y] = t => y = z
  BY DEF OneEach, NamesAssumption
<1>2. Owned(t) = {z}
  BY <1>1 DEF Owned
<1>3. Cardinality({z}) = 1
  BY FS_Singleton
<1> QED
  BY <1>2, <1>3

\* Nothing happens to the coroutines, but for the call of a running one.
LEMMA AllStay ==
  ASSUME UNCHANGED status,
         \A t \in Threads : status[t] = "suspended" => call'[t] = call[t]
  PROVE  \A t \in Threads : Moves(t)
BY DEF Moves, Stays

\* A coroutine is created.
LEMMA OneIsCreated ==
  ASSUME TypeOK, NEW h \in Threads, status[h] = "none", Enter(h),
         \A t \in Threads : status[t] = "suspended" => call'[t] = call[t]
  PROVE  \A t \in Threads : Moves(t)
BY DEF Moves, Stays, Enter, TypeOK

\* The running coroutine waits on a socket it holds.
LEMMA OneWaits ==
  ASSUME Sound, NamesAssumption, NEW h \in Threads, Current = h,
         NEW op \in Ops, NEW s \in Sockets, Wait(h, op, s), owner'[s] = h
  PROVE  \A t \in Threads : Moves(t)
<1>1. status[h] = "active"
  BY CurrentIsLast DEF Sound
<1>2. [op |-> op, skt |-> s] \in Calls
  BY DEF Calls
<1>3. /\ status' = [status EXCEPT ![h] = "suspended"]
      /\ call'   = [call EXCEPT ![h] = [op |-> op, skt |-> s]]
  BY DEF Wait, Back
<1>4. Suspends(h)
  BY <1>1, <1>2, <1>3 DEF Suspends, Sound, TypeOK
<1>5. \A t \in Threads : t # h => Stays(t)
  BY <1>3 DEF Stays, Sound, TypeOK
<1> QED
  BY <1>4, <1>5 DEF Moves

\* The running coroutine ends.
LEMMA OneEnds ==
  ASSUME Sound, NamesAssumption, NEW h \in Threads, Current = h, Die(h)
  PROVE  \A t \in Threads : Moves(t)
<1>1. status[h] = "active"
  BY CurrentIsLast DEF Sound
<1> QED
  BY <1>1 DEF Moves, Stays, Die, Back, Sound, TypeOK

\* A socket that a running coroutine holds is not closed.
LEMMA HeldIsOpen ==
  ASSUME Sound, Own, Held, NamesAssumption, NEW t \in Threads, status[t] # "dead",
         NEW s \in Sockets, owner[s] = t
  PROVE  IsOpen(s)
BY DEF Sound, TypeOK, Own, HoldsItsSocket, Held, ClosedIsLeft, IsOpen, NamesAssumption

\* Every step of a program that uses each socket from one coroutine, and one
\* at a time, moves each coroutine and changes each socket in those ways.
LEMMA StepMoves ==
  ASSUME Sound, Own, Held, NamesAssumption, ~Shared, MaxOwned = 1, Next
  PROVE  (\A t \in Threads : Moves(t)) /\ (\A s \in Sockets : Changes(s))
<1> DEFINE Goal == (\A t \in Threads : Moves(t)) /\ (\A s \in Sockets : Changes(s))
<1>1. ASSUME NEW t \in Threads, NEW op \in {"receive", "send"}, NEW s \in Conns,
            ReceiveOrSend(t, op, s)
      PROVE  Goal
  <2>1. Current = t /\ Wait(t, op, s) /\ op \in Ops /\ s \in Sockets /\ owner'[s] = t
    BY <1>1 DEF ReceiveOrSend, Handles, Runs, Ops, Sockets, MayUse, sktVars
  <2>2. \A u \in Threads : Moves(u)
    BY <2>1, OneWaits
  <2> QED
    BY <1>1, <2>2 DEF ReceiveOrSend, Changes, IsKept, sktVars
<1>2. ASSUME NEW t \in Threads, NEW s \in Conns, Close(t, s)
      PROVE  Goal
  <2>1. \A u \in Threads : Moves(u)
    BY <1>2, AllStay DEF Close, coVars
  <2>2. s \in Sockets /\ owner[s] = t /\ Current = t
    BY <1>2 DEF Close, Handles, Runs, MayUse, Sockets
  <2>3. IsOpen(s)
    BY <2>2, HeldIsOpen, CurrentIsLast DEF Sound
  <2>4. IsClosed(s)
    BY <1>2, <2>2, <2>3 DEF Close, IsClosed, Sound, TypeOK
  <2>5. \A z \in Sockets : z # s => IsKept(z)
    BY <1>2 DEF Close, IsKept, Sound, TypeOK
  <2> QED
    BY <2>1, <2>4, <2>5 DEF Changes
<1>3. ASSUME NEW t \in Threads, NEW s \in Conns, ConnectWait(t, s)
      PROVE  Goal
  <2>1. Current = t /\ Wait(t, "connect", s) /\ s \in Sockets
    BY <1>3 DEF ConnectWait, MayConnect, Handles, Runs, Sockets
  <2>2. owner'[s] = t
    BY <1>3, <2>1 DEF ConnectWait, Sound, TypeOK
  <2>3. \A u \in Threads : Moves(u)
    BY <2>1, <2>2, OneWaits DEF Ops
  <2>4. \A z \in Sockets : owner[z] # t
    BY <1>3, HoldsNothing DEF ConnectWait, MayConnect, Held
  <2>5. \A z \in Sockets : z # s => IsKept(z)
    BY <1>3 DEF ConnectWait, IsKept, Sound, TypeOK
  <2>6. status'[t] = "suspended"
    BY <2>1 DEF Wait, Back, Sound, TypeOK
  <2>7. Takes(t, s)
    BY <2>2, <2>4, <2>5, <2>6 DEF Takes, IsKept
  <2>8. IsMade(s)
    BY <1>3, <2>1, <2>7 DEF ConnectWait, MayConnect, IsMade, IsOpen, Sound, TypeOK
  <2> QED
    BY <2>3, <2>5, <2>8 DEF Changes
<1>4. ASSUME NEW t \in Threads, NEW s \in Conns, NEW ok \in BOOLEAN, ConnectNow(t, s, ok)
      PROVE  Goal
  <2>1. Current = t /\ s \in Sockets
    BY <1>4 DEF ConnectNow, MayConnect, Handles, Runs, Sockets
  <2>2. \A u \in Threads : Moves(u)
    BY <1>4, AllStay DEF ConnectNow, coVars
  <2>3. \A z \in Sockets : owner[z] # t
    BY <1>4, HoldsNothing DEF ConnectNow, MayConnect, Held
  <2>4. \A z \in Sockets : z # s => IsKept(z)
    BY <1>4 DEF ConnectNow, IsKept, Sound, TypeOK
  <2>5. status'[t] = "active"
    BY <1>4, <2>1, CurrentIsLast DEF ConnectNow, coVars, Sound
  <2>6. owner'[s] = None \/ Takes(t, s)
    BY <1>4, <2>1, <2>3, <2>4, <2>5 DEF ConnectNow, Takes, IsKept, Sound, TypeOK
  <2>7. IsMade(s)
    BY <1>4, <2>1, <2>6 DEF ConnectNow, MayConnect, IsMade, IsOpen, Sound, TypeOK
  <2> QED
    BY <2>2, <2>4, <2>7 DEF Changes
<1>5. ASSUME NEW t \in Threads, NEW op \in {"receive", "send"}, ReturnFromCall(t, op)
      PROVE  Goal
  <2>1. status[t] = "active"
    BY <1>5, CurrentIsLast DEF ReturnFromCall, InCall, Sound
  <2>2. \A u \in Threads : Moves(u)
    BY <1>5, <2>1, AllStay DEF ReturnFromCall, Sound, TypeOK
  <2> QED
    BY <1>5, <2>2 DEF ReturnFromCall, Changes, IsKept
<1>6. ASSUME NEW t \in Threads, NEW ok \in BOOLEAN, ConnectReturn(t, ok)
      PROVE  Goal
  <2>1. status[t] = "active"
    BY <1>6, CurrentIsLast DEF ConnectReturn, InCall, Sound
  <2>2. \A u \in Threads : Moves(u)
    BY <1>6, <2>1, AllStay DEF ConnectReturn, Sound, TypeOK
  <2>3. \A z \in Sockets : IsKept(z) \/ IsGiven(z)
    BY <1>6 DEF ConnectReturn, IsKept, IsGiven, Sound, TypeOK
  <2> QED
    BY <2>2, <2>3 DEF Changes
<1>7. ASSUME NEW t \in Threads, NEW h \in Threads, NEW c \in Conns, AcceptReturn(t, h, c)
      PROVE  Goal
  <2>1. Enter(h) /\ status[h] = "none" /\ c \in Sockets
    BY <1>7 DEF AcceptReturn, Sockets
  <2>2. status[t] = "active"
    BY <1>7, CurrentIsLast DEF AcceptReturn, InCall, Sound
  <2>3. \A u \in Threads : status[u] = "suspended" => call'[u] = call[u]
    BY <1>7, <2>2 DEF AcceptReturn, TypeOK, Sound
  <2>4. \A u \in Threads : Moves(u)
    BY <2>1, <2>3, OneIsCreated DEF Sound
  <2>5. \A z \in Sockets : z # c => IsKept(z)
    BY <1>7 DEF AcceptReturn, IsKept, Sound, TypeOK
  <2>6. \A z \in Sockets : owner[z] # h
    BY <2>1 DEF Held, OneEach, NamesAssumption
  <2>7. status'[h] = "active" /\ owner'[c] = h
    BY <1>7, <2>1 DEF AcceptReturn, Enter, Sound, TypeOK
  <2>8. Takes(h, c)
    BY <2>5, <2>6, <2>7 DEF Takes, IsKept
  <2>9. IsMade(c)
    BY <1>7, <2>1, <2>8 DEF AcceptReturn, IsMade, IsOpen, Sound, TypeOK
  <2> QED
    BY <2>4, <2>5, <2>9 DEF Changes
<1>8. ASSUME NEW t \in Threads, NEW s \in Listeners, ServerAccept(t, s)
      PROVE  Goal
  <2>1. Current = t /\ Wait(t, "accept", s) /\ s \in Sockets /\ owner'[s] = t
    BY <1>8 DEF ServerAccept, Runs, Sockets, sktVars
  <2>2. \A u \in Threads : Moves(u)
    BY <2>1, OneWaits DEF Ops
  <2> QED
    BY <1>8, <2>2 DEF ServerAccept, Changes, IsKept, sktVars
<1>9. ASSUME NEW t \in Threads, Finish(t) \/ Raise(t) \/ Propagate(t)
      PROVE  Goal
  <2>1. Current = t /\ Die(t) /\ UNCHANGED sktVars
    BY <1>9 DEF Finish, Raise, Propagate, Handles, Runs, InCall
  <2>2. \A u \in Threads : Moves(u)
    BY <2>1, OneEnds
  <2> QED
    BY <2>1, <2>2 DEF Changes, IsKept, sktVars
<1>10. ASSUME NEW t \in Threads, NewThread(t)
       PROVE  Goal
  <2>1. \A u \in Threads : Moves(u)
    BY <1>10, OneIsCreated DEF NewThread, Sound
  <2> QED
    BY <1>10, <2>1 DEF NewThread, Changes, IsKept, sktVars
<1>11. ASSUME NEW t \in Threads, NEW l \in Listeners, NewServer(t, l)
       PROVE  Goal
  <2>1. Enter(t) /\ status[t] = "none" /\ UNCHANGED call /\ l \in Sockets
    BY <1>11 DEF NewServer, Sockets
  <2>2. \A u \in Threads : Moves(u)
    BY <2>1, OneIsCreated DEF Sound
  <2>3. \A z \in Sockets : z # l => IsKept(z)
    BY <1>11 DEF NewServer, IsKept, Sound, TypeOK
  <2>4. \A z \in Sockets : owner[z] # t
    BY <2>1 DEF Held, OneEach, NamesAssumption
  <2>5. status'[t] = "active" /\ owner'[l] = t
    BY <1>11, <2>1 DEF NewServer, Enter, Sound, TypeOK
  <2>6. Takes(t, l)
    BY <2>3, <2>4, <2>5 DEF Takes, IsKept
  <2>7. IsMade(l)
    BY <1>11, <2>1, <2>6 DEF NewServer, IsMade, IsOpen, Sound, TypeOK
  <2> QED
    BY <2>2, <2>3, <2>7 DEF Changes
<1>12. ASSUME \/ \E t \in Threads : Catch(t)
              \/ Stop \/ Start \/ Select \/ NothingToWaitFor \/ EndDispatch \/ MainRaise
              \/ Peer
       PROVE  Goal
  <2>1. UNCHANGED <<status, call, skt, owner>>
    BY <1>12 DEF Catch, Stop, Start, Select, NothingToWaitFor, EndDispatch, MainRaise,
                 Peer, Arrive, coVars, sktVars
  <2> QED
    BY <2>1, AllStay DEF Changes, IsKept
<1>13. ASSUME AfterWake
       PROVE  Goal
  <2>1. \A u \in Threads : Moves(u)
    BY <1>13, AllStay DEF AfterWake, coVars
  <2>2. UNCHANGED owner /\ waking \in Sockets
    BY <1>13 DEF AfterWake, Sound, TypeOK
  <2>3. CASE Awaited(waking)
    BY <1>13, <2>1, <2>2, <2>3 DEF AfterWake, Changes, IsKept
  <2>4. CASE ~Awaited(waking)
    <3>1. skt' = [skt EXCEPT ![waking] = "closed"]
      BY <1>13, <2>4 DEF AfterWake
    <3>2. \A z \in Sockets : z # waking => IsKept(z)
      BY <2>2, <3>1 DEF IsKept, Sound, TypeOK
    <3>3. skt'[waking] = "closed"
      BY <2>2, <3>1 DEF Sound, TypeOK
    <3>4. \A u \in Threads : status[u] # "active"
      <4>1. chain = <<>>
        BY <1>13, ElementOfSeq, LenProperties, EmptySeq
          DEF AfterWake, InLoop, Current, NamesAssumption, Sound, TypeOK
      <4>2. Len(chain) = 0
        BY <4>1, EmptySeq
      <4> QED
        BY <4>2 DEF Sound, ChainSound
    <3>5. ASSUME NEW u \in Threads, owner[waking] = u, status[u] # "dead"
          PROVE  FALSE
      <4>1. status[u] \in {"none", "suspended"}
        BY <3>4, <3>5 DEF Sound, TypeOK
      <4>2. status[u] = "suspended"
        BY <2>2, <3>5, <4>1 DEF Held, OneEach, NamesAssumption
      <4>3. /\ call[u] # NoCall /\ call[u].skt \in Sockets
            /\ DirOf(call[u].op) \in Dir
        BY <4>2, CallHasSocket
      <4>4. owner[call[u].skt] = u
        BY <4>3 DEF Own, HoldsItsSocket
      <4>5. call[u].skt = waking
        BY <2>2, <3>5, <4>3, <4>4 DEF Held, OneEach, NamesAssumption
      <4>6. rwt[DirOf(call[u].op)][waking] = u
        BY <4>2, <4>5 DEF Own, NoLostThread, Registered
      <4> QED
        BY <2>4, <4>3, <4>6 DEF Awaited, NamesAssumption
    <3>6. owner[waking] = None \/ status[owner[waking]] = "dead"
      BY <2>2, <3>5 DEF Sound, TypeOK
    <3>7. CASE skt[waking] = "closed"
      BY <2>1, <2>2, <3>2, <3>3, <3>7 DEF Changes, IsKept
    <3>8. CASE skt[waking] # "closed"
      <4>1. waking # None
        BY <1>13 DEF AfterWake
      <4>2. IsOpen(waking)
        BY <2>2, <3>8, <4>1 DEF Held, WokenIsReal, IsOpen, Sound, TypeOK
      <4>3. IsClosed(waking)
        BY <2>2, <3>3, <3>6, <4>2 DEF IsClosed
      <4> QED
        BY <2>1, <3>2, <4>3 DEF Changes
    <3> QED
      BY <3>7, <3>8
  <2> QED
    BY <2>3, <2>4
<1>14. ASSUME NEW d \in Dir, NEW s \in Sockets, Wake(d, s)
       PROVE  Goal
  <2>1. UNCHANGED <<call, skt, owner>> /\ Resume(d, s) /\ s \in todo[d]
    BY <1>14 DEF Wake, sktVars
  <2>2. rwt[d][s] \in Threads /\ ready[d][s] # "none"
    BY <2>1 DEF Held, FoundStillWaits, Sound, TypeOK
  <2>3. rwt[d][s] # None
    BY <2>2 DEF NamesAssumption
  <2>4. status' = [status EXCEPT ![rwt[d][s]] = "active"]
    BY <2>1, <2>3 DEF Resume, Enter
  <2>5. Goes(rwt[d][s])
    BY <2>2, <2>3, <2>4 DEF Goes, Sound, WaitTablesSound, TypeOK
  <2>6. \A u \in Threads : u # rwt[d][s] => Stays(u)
    BY <2>1, <2>4 DEF Stays, Sound, TypeOK
  <2> QED
    BY <2>1, <2>5, <2>6 DEF Moves, Changes, IsKept
<1> QED
  BY <1>1, <1>2, <1>3, <1>4, <1>5, <1>6, <1>7, <1>8, <1>9, <1>10, <1>11, <1>12, <1>13,
     <1>14
     DEF Next, Uses, Returns, Ends, Creates, Loop

\* What select() found and dispatch() has yet to wake still waits, and is
\* still loaded: no other coroutine touches the socket of one that waits.
LEMMA FoundStep ==
  ASSUME Sound, Own, Held, NamesAssumption, ~Shared, Next
  PROVE  FoundStillWaits'
<1>1. ASSUME NEW d \in Dir, NEW s \in Sockets, rwt[d][s] # None
      PROVE  /\ rwt[d][s] \in Threads
             /\ status[rwt[d][s]] = "suspended"
             /\ owner[s] = rwt[d][s]
             /\ skt[s] # "unused"
  <2>1. rwt[d][s] \in Threads /\ status[rwt[d][s]] = "suspended"
    BY <1>1 DEF Sound, TypeOK, WaitTablesSound
  <2>2. call[rwt[d][s]].skt = s /\ call[rwt[d][s]] # NoCall
    BY <1>1, <2>1, CallHasSocket DEF Sound, WaitTablesSound
  <2>3. owner[s] = rwt[d][s]
    BY <2>1, <2>2 DEF Own, HoldsItsSocket
  <2> QED
    BY <2>1, <2>3, NamesAssumption DEF Own, HoldsItsSocket, NamesAssumption
<1>2. \A d \in Dir : \A s \in todo[d] :
        s \in Sockets /\ rwt[d][s] # None /\ ready[d][s] # "none"
  BY DEF Sound, TypeOK, Held, FoundStillWaits
<1>3. ASSUME NEW t \in Threads, NEW op \in Ops, NEW s \in Sockets, Wait(t, op, s),
             UNCHANGED <<ready, todo>>
      PROVE  FoundStillWaits'
  <2>1. rwt' = [rwt EXCEPT ![DirOf(op)][s] = t]
    BY <1>3 DEF Wait
  <2>2. t # None
    BY NamesAssumption DEF NamesAssumption
  <2>3. \A d \in Dir, z \in Sockets : rwt'[d][z] \in {rwt[d][z], t}
    BY <2>1 DEF Sound, TypeOK
  <2> QED
    BY <1>2, <1>3, <2>2, <2>3 DEF FoundStillWaits
<1>4. ASSUME \E t \in Threads : Uses(t)
      PROVE  FoundStillWaits'
  <2>1. ASSUME NEW t \in Threads, NEW op \in {"receive", "send"}, NEW s \in Conns,
               ReceiveOrSend(t, op, s)
        PROVE  FoundStillWaits'
    BY <1>3, <2>1 DEF ReceiveOrSend, Ops, Sockets, sktVars, loopVars
  <2>2. ASSUME NEW t \in Threads, NEW s \in Conns, ConnectWait(t, s)
        PROVE  FoundStillWaits'
    BY <1>3, <2>2 DEF ConnectWait, Ops, Sockets, loopVars
  <2>3. ASSUME NEW t \in Threads, NEW s \in Conns, NEW ok \in BOOLEAN, ConnectNow(t, s, ok)
        PROVE  FoundStillWaits'
    BY <1>2, <2>3 DEF ConnectNow, loopVars, FoundStillWaits
  <2>4. ASSUME NEW t \in Threads, NEW s \in Conns, Close(t, s)
        PROVE  FoundStillWaits'
    <3>1. owner[s] = t /\ Current = t
      BY <2>4 DEF Close, Handles, Runs, MayUse
    <3>2. status[t] = "active"
      BY <3>1, CurrentIsLast DEF Sound
    <3>3. \A d \in Dir : s \notin todo[d]
      BY <1>1, <1>2, <3>1, <3>2
    <3>4. \A d \in Dir, z \in Sockets : z # s => rwt'[d][z] = rwt[d][z] /\ ready'[d][z] = ready[d][z]
      BY <2>4 DEF Close, Sound, TypeOK
    <3>5. todo' = todo
      BY <2>4 DEF Close, loopVars
    <3> QED
      BY <1>2, <3>3, <3>4, <3>5 DEF FoundStillWaits
  <2> QED
    BY <1>4, <2>1, <2>2, <2>3, <2>4 DEF Uses
<1>5. ASSUME NEW t \in Threads, NEW d \in Dir, Current = t, call[t] # NoCall,
             ready' = [ready EXCEPT ![d][call[t].skt] = "none"],
             UNCHANGED <<rwt, todo>>
      PROVE  FoundStillWaits'
  <2>1. status[t] = "active"
    BY <1>5, CurrentIsLast DEF Sound
  <2>2. owner[call[t].skt] = t
    BY <1>5 DEF Own, HoldsItsSocket
  <2>3. \A e \in Dir : call[t].skt \notin todo[e]
    BY <1>1, <1>2, <2>1, <2>2
  <2>4. \A e \in Dir, z \in Sockets : z # call[t].skt => ready'[e][z] = ready[e][z]
    BY <1>5 DEF Sound, TypeOK
  <2> QED
    BY <1>2, <1>5, <2>3, <2>4 DEF FoundStillWaits
<1>6. ASSUME \E t \in Threads : Returns(t)
      PROVE  FoundStillWaits'
  <2>1. ASSUME NEW t \in Threads, NEW op \in {"receive", "send"}, ReturnFromCall(t, op)
        PROVE  FoundStillWaits'
    <3>1. call[t] # NoCall /\ Current = t /\ DirOf(op) \in Dir
      BY <2>1 DEF ReturnFromCall, InCall, NoCall, DirOf, Dir
    <3> QED
      BY <1>5, <2>1, <3>1 DEF ReturnFromCall, loopVars
  <2>2. ASSUME NEW t \in Threads, NEW ok \in BOOLEAN, ConnectReturn(t, ok)
        PROVE  FoundStillWaits'
    BY <1>2, <2>2 DEF ConnectReturn, loopVars, FoundStillWaits
  <2>3. ASSUME NEW t \in Threads, NEW h \in Threads, NEW c \in Conns, AcceptReturn(t, h, c)
        PROVE  FoundStillWaits'
    <3>1. call[t] # NoCall /\ Current = t /\ "read" \in Dir
      BY <2>3 DEF AcceptReturn, InCall, NoCall, Dir
    <3>2. ready' = [ready EXCEPT !["read"][call[t].skt] = "none"] /\ UNCHANGED <<rwt, todo>>
      BY <2>3 DEF AcceptReturn, loopVars
    <3> QED
      BY <1>5, <3>1, <3>2
  <2>4. ASSUME NEW t \in Threads, NEW l \in Listeners, ServerAccept(t, l)
        PROVE  FoundStillWaits'
    BY <1>3, <2>4 DEF ServerAccept, Ops, Sockets, sktVars, loopVars
  <2> QED
    BY <1>6, <2>1, <2>2, <2>3, <2>4 DEF Returns
<1>7. ASSUME \/ \E t \in Threads : Ends(t)
             \/ Creates \/ Stop \/ Start \/ NothingToWaitFor \/ EndDispatch
      PROVE  FoundStillWaits'
  <2>1. UNCHANGED <<rwt, ready, todo>>
    BY <1>7 DEF Ends, Finish, Raise, Propagate, Catch, Creates, NewThread, NewServer,
                Stop, Start, NothingToWaitFor, EndDispatch, sktVars, loopVars
  <2> QED
    BY <1>2, <2>1 DEF FoundStillWaits
<1>8. ASSUME Select
      PROVE  FoundStillWaits'
  BY <1>8 DEF Select, Loaded, Waiters, FoundStillWaits, sktVars
<1>9. ASSUME MainRaise
      PROVE  FoundStillWaits'
  BY <1>9 DEF MainRaise, NothingTodo, FoundStillWaits
<1>10. ASSUME AfterWake
       PROVE  FoundStillWaits'
  <2>1. UNCHANGED <<rwt, todo>>
    BY <1>10 DEF AfterWake
  <2>2. CASE Awaited(waking)
    BY <1>2, <1>10, <2>1, <2>2 DEF AfterWake, FoundStillWaits
  <2>3. CASE ~Awaited(waking)
    <3>1. \A d \in Dir : waking \notin todo[d]
      BY <1>2, <2>3 DEF Awaited
    <3>2. \A d \in Dir, z \in Sockets : z # waking => ready'[d][z] = ready[d][z]
      BY <1>10, <2>3 DEF AfterWake, Sound, TypeOK
    <3> QED
      BY <1>2, <2>1, <3>1, <3>2 DEF FoundStillWaits
  <2> QED
    BY <2>2, <2>3
<1>11. ASSUME NEW d \in Dir, NEW s \in Sockets, Wake(d, s)
       PROVE  FoundStillWaits'
  <2>1. todo' = [todo EXCEPT ![d] = @ \ {s}] /\ ready' = ready
    BY <1>11 DEF Wake, sktVars
  <2>2. rwt' = rwt \/ rwt' = [rwt EXCEPT ![d][s] = None]
    BY <1>11 DEF Wake, Resume
  <2>3. \A e \in Dir : \A z \in todo'[e] : z \in todo[e] /\ ~(e = d /\ z = s)
    BY <2>1 DEF Sound, TypeOK
  <2>4. \A e \in Dir, z \in Sockets : ~(e = d /\ z = s) => rwt'[e][z] = rwt[e][z]
    BY <2>2 DEF Sound, TypeOK
  <2> QED
    BY <1>2, <2>1, <2>3, <2>4 DEF FoundStillWaits
<1>12. ASSUME Peer
       PROVE  FoundStillWaits'
  <2>1. UNCHANGED <<rwt, todo>>
    BY <1>12 DEF Peer, Arrive, loopVars
  <2>2. \A d \in Dir, s \in Sockets : ready'[d][s] = ready[d][s] \/ ready'[d][s] # "none"
    BY <1>12 DEF Peer, Arrive, Sound, TypeOK
  <2> QED
    BY <1>2, <2>1, <2>2 DEF FoundStillWaits
<1> QED
  BY <1>4, <1>6, <1>7, <1>8, <1>9, <1>10, <1>11, <1>12 DEF Next, Loop

\* Every step keeps one socket at a time.
LEMMA HeldStep ==
  ASSUME Sound, Own, Held, NamesAssumption, ~Shared, MaxOwned = 1, Next
  PROVE  Held'
<1>1. (\A t \in Threads : Moves(t)) /\ (\A s \in Sockets : Changes(s))
  BY StepMoves
<1>2. \A t \in Threads : /\ status[t] # "none" => status'[t] # "none"
                         /\ status[t] = "dead" => status'[t] = "dead"
  BY <1>1 DEF Moves, Stays, Suspends, Goes
<1>3. \A s \in Sockets : owner[s] \in Threads \cup {None} /\ skt[s] \in
                           {"unused", "nonblocking", "blocking", "closed"}
  BY DEF Sound, TypeOK
<1>4. \A s \in Sockets : \/ owner'[s] = owner[s] \/ owner'[s] = None
                         \/ \E t \in Threads : Takes(t, s)
  BY <1>1 DEF Changes, IsMade, IsKept, IsGiven, IsClosed
<1>5. OneEach'
  <2>1. ASSUME NEW s \in Sockets, NEW z \in Sockets, owner'[s] # None, owner'[s] = owner'[z]
        PROVE  s = z
    <3>1. CASE \E t \in Threads : Takes(t, s) \/ Takes(t, z)
      BY <2>1, <3>1 DEF Takes
    <3>2. CASE owner'[s] = owner[s] /\ owner'[z] = owner[z]
      BY <2>1, <3>2 DEF Held, OneEach
    <3> QED
      BY <1>4, <2>1, <3>1, <3>2
  <2>2. ASSUME NEW s \in Sockets, owner'[s] # None
        PROVE  status'[owner'[s]] # "none"
    <3>1. CASE \E t \in Threads : Takes(t, s)
      BY <3>1 DEF Takes
    <3>2. CASE owner'[s] = owner[s]
      BY <1>2, <1>3, <2>2, <3>2 DEF Held, OneEach
    <3> QED
      BY <1>4, <2>2, <3>1, <3>2
  <2> QED
    BY <2>1, <2>2 DEF OneEach
<1>6. ClosedIsLeft'
  <2> SUFFICES ASSUME NEW s \in Sockets, skt'[s] = "closed", owner'[s] # None
               PROVE  status'[owner'[s]] = "dead"
    BY DEF ClosedIsLeft
  <2>1. CASE IsMade(s)
    BY <2>1 DEF IsMade, IsOpen
  <2>2. CASE IsKept(s)
    BY <1>2, <1>3, <2>2 DEF IsKept, Held, ClosedIsLeft
  <2>3. CASE IsClosed(s)
    BY <1>2, <1>3, <2>3 DEF IsClosed
  <2> QED
    BY <1>1, <2>1, <2>2, <2>3 DEF Changes, IsGiven
<1>7. FoundStillWaits'
  BY FoundStep
<1>8. WokenIsReal'
  <2>1. \A s \in Sockets : skt[s] # "unused" => skt'[s] # "unused"
    BY <1>1 DEF Changes, IsMade, IsKept, IsGiven, IsClosed
  <2>2. \/ waking' = waking \/ waking' = None
        \/ \E d \in Dir, s \in Sockets : waking' = s /\ rwt[d][s] # None
    BY DEF Next, Uses, Returns, Ends, Creates, Loop, Peer, ReceiveOrSend, ReturnFromCall,
           Close, ConnectNow, ConnectWait, ConnectReturn, NewThread, NewServer,
           ServerAccept, AcceptReturn, Finish, Raise, Propagate, Catch, MainRaise, Stop,
           Start, Select, NothingToWaitFor, Wake, Resume, AfterWake, EndDispatch, Arrive,
           loopVars
  <2>3. \A d \in Dir, s \in Sockets : rwt[d][s] # None => skt[s] # "unused"
    <3> SUFFICES ASSUME NEW d \in Dir, NEW s \in Sockets, rwt[d][s] # None
                 PROVE  skt[s] # "unused"
      OBVIOUS
    <3>1. rwt[d][s] \in Threads /\ status[rwt[d][s]] = "suspended" /\ call[rwt[d][s]].skt = s
      BY DEF Sound, TypeOK, WaitTablesSound
    <3>2. owner[s] = rwt[d][s]
      BY <3>1, CallHasSocket DEF Own, HoldsItsSocket
    <3> QED
      BY <3>1, <3>2 DEF Own, HoldsItsSocket
  <2>4. waking \in Sockets \cup {None}
    BY DEF Sound, TypeOK
  <2> QED
    BY <2>1, <2>2, <2>3, <2>4 DEF Held, WokenIsReal
<1> QED
  BY <1>5, <1>6, <1>7, <1>8 DEF Held

\* The invariant of the programs that use each socket from one coroutine, and
\* one socket at a time.
LEMMA HeldInvariant == ~Shared /\ MaxOwned = 1 => (Spec => [](Sound /\ Own /\ Held))
<1> SUFFICES ASSUME ~Shared, MaxOwned = 1
             PROVE  Spec => [](Sound /\ Own /\ Held)
  OBVIOUS
<1>1. Init => Held
  BY NamesAssumption DEF Init, NothingTodo, Held, OneEach, ClosedIsLeft, FoundStillWaits,
                         WokenIsReal
<1>2. IInv /\ Held /\ [Next]_vars => Held'
  <2> SUFFICES ASSUME IInv, Held, [Next]_vars
               PROVE  Held'
    OBVIOUS
  <2>1. CASE Next
    BY <2>1, NamesAssumption, HeldStep DEF IInv
  <2>2. CASE UNCHANGED vars
    BY <2>2 DEF vars, coVars, sktVars, loopVars, Held, OneEach, ClosedIsLeft,
                FoundStillWaits, WokenIsReal
  <2> QED
    BY <2>1, <2>2
<1>3. IInv => Sound /\ Own
  BY DEF IInv
<1> QED
  BY <1>1, <1>2, <1>3, Invariant, PTL DEF Spec

\* When a coroutine uses one socket of its own at a time, nobody ever waits on
\* a closed socket, though wake() closes the socket it woke a coroutine for
\* whenever that coroutine does not wait on it again.
THEOREM NobodyWaitsOnClosed ==
  ~Shared /\ MaxOwned = 1 => (Spec => []NoWaitOnClosed)
<1> SUFFICES ASSUME ~Shared, MaxOwned = 1
             PROVE  Spec => []NoWaitOnClosed
  OBVIOUS
<1>1. Sound /\ Own /\ Held => NoWaitOnClosed
  <2> SUFFICES ASSUME Sound, Own, Held, NEW t \in Threads, status[t] = "suspended"
               PROVE  skt[call[t].skt] # "closed"
    BY DEF NoWaitOnClosed
  <2>1. call[t].skt \in Sockets /\ owner[call[t].skt] = t
    BY CallHasSocket DEF Own, HoldsItsSocket
  <2> QED
    BY <2>1, NamesAssumption DEF Held, ClosedIsLeft, NamesAssumption
<1> QED
  BY <1>1, HeldInvariant, PTL

-----------------------------------------------------------------------------
(* The loop implements blocking I/O.                                       *)

\* A move of a coroutine is a step of the process it stands for.
LEMMA MoveImplements ==
  ASSUME Sound, Sound', NEW t \in Threads, Moves(t)
  PROVE  B!ProcStep(t)
<1>1. /\ status[t] \in {"none", "suspended", "active", "dead"}
      /\ status'[t] \in {"none", "suspended", "active", "dead"}
  BY DEF Sound, TypeOK
<1>2. CASE Stays(t)
  <2>1. AbstractProc'[t] = AbstractProc[t]
    BY <1>2 DEF Stays, AbstractProc
  <2>2. AbstractOn'[t] = AbstractOn[t]
    BY <1>2 DEF Stays, AbstractOn
  <2> QED
    BY <2>1, <2>2 DEF B!ProcStep
<1>3. CASE Suspends(t)
  <2>1. AbstractProc[t] = "runs" /\ AbstractProc'[t] = "blocked"
    BY <1>3 DEF Suspends, AbstractProc
  <2>2. AbstractOn'[t] = <<DirOf(call'[t].op), call'[t].skt>>
    BY <1>3 DEF Suspends, AbstractOn
  <2>3. DirOf(call'[t].op) \in Dir /\ call'[t].skt \in Sockets /\ owner'[call'[t].skt] = t
    BY <1>3 DEF Suspends, Calls, DirOf, Dir
  <2> QED
    BY <2>1, <2>2, <2>3 DEF B!ProcStep, B!Blocks
<1>4. CASE Goes(t)
  <2>1. AbstractProc[t] = "blocked" /\ AbstractProc'[t] = "runs" /\ AbstractOn'[t] = None
    BY <1>4 DEF Goes, AbstractProc, AbstractOn
  <2>2. AbstractOn[t] = <<DirOf(call[t].op), call[t].skt>>
    BY <1>4 DEF Goes, AbstractOn
  <2>3. DirOf(call[t].op) \in Dir /\ call[t].skt \in Sockets
    BY <1>4, CallHasSocket DEF Goes
  <2>4. AbstractOn[t] \in AbstractLoaded
    BY <1>4, <2>2, <2>3 DEF Goes, AbstractLoaded
  <2> QED
    BY <2>1, <2>4 DEF B!ProcStep, B!Unblocks
<1>5. CASE status[t] = "none" /\ status'[t] = "active"
  <2>1. AbstractProc[t] = "none" /\ AbstractProc'[t] = "runs" /\ AbstractOn'[t] = None
    BY <1>5 DEF AbstractProc, AbstractOn
  <2> QED
    BY <2>1 DEF B!ProcStep, B!Begins
<1>6. CASE status[t] = "active" /\ status'[t] = "dead"
  <2>1. AbstractProc[t] = "runs" /\ AbstractProc'[t] = "ended" /\ AbstractOn'[t] = None
    BY <1>6 DEF AbstractProc, AbstractOn
  <2> QED
    BY <2>1 DEF B!ProcStep, B!Ends
<1> QED
  BY <1>2, <1>3, <1>4, <1>5, <1>6 DEF Moves

\* A change of a socket is a step of that socket.
LEMMA ChangeImplements ==
  ASSUME Sound, Own, NEW s \in Sockets, Changes(s)
  PROVE  B!SockStep(s)
<1>1. /\ AbstractSock[s] = IF IsOpen(s) THEN "open" ELSE skt[s]
      /\ AbstractSock'[s] = IF IsOpen(s)' THEN "open" ELSE skt'[s]
  BY DEF AbstractSock
<1>2. CASE IsMade(s)
  BY <1>1, <1>2 DEF IsMade, IsOpen, B!SockStep, B!Opens
<1>3. CASE IsKept(s)
  BY <1>1, <1>3 DEF IsKept, IsOpen, B!SockStep
<1>4. CASE IsGiven(s)
  BY <1>1, <1>4 DEF IsGiven, IsOpen, B!SockStep, B!GivenUp
<1>5. CASE IsClosed(s)
  <2>1. AbstractSock[s] = "open" /\ AbstractSock'[s] = "closed"
    BY <1>1, <1>5 DEF IsClosed, IsOpen
  <2>2. CASE owner'[s] = None
    BY <2>1, <2>2 DEF B!SockStep, B!Closes
  <2>3. CASE owner'[s] = owner[s] /\ status[owner[s]] = "dead"
    <3>1. CASE owner[s] = None
      BY <2>1, <2>3, <3>1 DEF B!SockStep, B!Closes
    <3>2. CASE owner[s] # None
      <4>1. owner[s] \in Threads
        BY <3>2 DEF Sound, TypeOK
      <4>2. AbstractProc[owner[s]] = "ended"
        BY <2>3, <4>1 DEF AbstractProc
      <4> QED
        BY <2>1, <2>3, <4>2 DEF B!SockStep, B!Closes
    <3> QED
      BY <3>1, <3>2
  <2> QED
    BY <1>5, <2>2, <2>3 DEF IsClosed
<1> QED
  BY <1>2, <1>3, <1>4, <1>5 DEF Changes

\* Under the discipline of the manual, and with one socket at a time, the loop
\* implements blocking I/O: a coroutine goes on only when the socket it waits
\* for is loaded, and no socket is closed under a coroutine that is alive.
THEOREM LoopIsBlockingIO ==
  ~Shared /\ MaxOwned = 1 => (Spec => ImplementsBlockingIO)
<1> SUFFICES ASSUME ~Shared, MaxOwned = 1
             PROVE  Spec => ImplementsBlockingIO
  OBVIOUS
<1>1. Init => B!Init
  <2> SUFFICES ASSUME Init
               PROVE  B!Init
    OBVIOUS
  <2>1. AbstractProc = [t \in Threads |-> "none"]
    BY DEF Init, AbstractProc
  <2>2. AbstractOn = [t \in Threads |-> None]
    BY DEF Init, AbstractOn
  <2>3. AbstractSock = [s \in Sockets |-> "unused"]
    BY DEF Init, AbstractSock, IsOpen
  <2>4. AbstractLoaded = {}
    BY DEF Init, AbstractLoaded
  <2>5. owner = [s \in Sockets |-> None]
    BY DEF Init
  <2> QED
    BY <2>1, <2>2, <2>3, <2>4, <2>5 DEF B!Init
<1>2. (Sound /\ Own /\ Held) /\ (Sound /\ Own /\ Held)' /\ [Next]_vars => [B!Next]_(B!vars)
  <2> SUFFICES ASSUME Sound, Own, Held, Sound', [Next]_vars
               PROVE  B!Next \/ UNCHANGED B!vars
    OBVIOUS
  <2>1. CASE Next
    <3>1. (\A t \in Threads : Moves(t)) /\ (\A s \in Sockets : Changes(s))
      BY <2>1, NamesAssumption, StepMoves
    <3>2. \A t \in Threads : B!ProcStep(t)
      BY <3>1, MoveImplements
    <3>3. \A s \in Sockets : B!SockStep(s)
      BY <3>1, ChangeImplements
    <3>4. AbstractLoaded' \subseteq Dir \X Sockets
      BY DEF AbstractLoaded
    <3> QED
      BY <3>2, <3>3, <3>4 DEF B!Next
  <2>2. CASE UNCHANGED vars
    BY <2>2 DEF vars, coVars, sktVars, B!vars, AbstractProc, AbstractOn, AbstractSock,
                AbstractLoaded, IsOpen
  <2> QED
    BY <2>1, <2>2
<1> QED
  BY <1>1, <1>2, HeldInvariant, PTL DEF Spec, ImplementsBlockingIO, B!Spec
=============================================================================
