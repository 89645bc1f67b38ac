---------------------------- MODULE MtCoderProof -----------------------------
(***************************************************************************)
(* Theorems about MtCoder, for any number of threads, blocks and calls:    *)
(* first where the two tokens are and what the events allow, then that it  *)
(* implements OrderedPipe.                                                 *)
(***************************************************************************)
EXTENDS MtCoder, Integers, TLAPS

-----------------------------------------------------------------------------
(***************************************************************************)
(* The inductive invariant.  Phase says when a thread can be awake, or one *)
(* of its events signaled: only while MtCoder_Code() still waits for it.   *)
(***************************************************************************)
Awaited(t) == mpc = "wait" /\ j <= t /\ t < started

Phase ==
  /\ \A t \in Threads :
       /\ Active(t) => Awaited(t) /\ ~startEvent[t] /\ ~finishedEvent[t]
       /\ startEvent[t] => Awaited(t) /\ pc[t] = "wait" /\ ~finishedEvent[t]
       /\ finishedEvent[t] => Awaited(t)
  /\ mpc = "start" => \A t \in Threads : pc[t] = "wait"

\* The events are open while threads can use them; all begins with flags and events reset.
Ready ==
  /\ mpc \in {"create", "start", "wait"} =>
       \A t \in Threads : canRead[t] # "closed" /\ canWrite[t] # "closed"
  /\ mpc \in {"create", "start"} => \A t \in Threads :
       canRead[t] = "unset" /\ canWrite[t] = "unset" /\ ~stopReading[t] /\ ~stopWriting[t]

(***************************************************************************)
(* The token to read is in an event or in a thread's hands, and counts     *)
(* only while the flag of its thread does not say to stop.  Behind a       *)
(* thread whose successor was told to stop no live token comes any more:   *)
(* that thread never reads again.                                          *)
(***************************************************************************)
EventRead(t) == canRead[t] = "set" /\ ~stopReading[t]
HandRead(t) ==
  \/ pc[t] = "testStop" /\ ~stopReading[t]
  \/ pc[t] \in {"read", "tellStop"}
  \/ pc[t] = "giveRead" /\ ~stopReading[NextThread(t)]

ReadsNoMore(t) ==
  /\ ~startEvent[t]
  /\ \/ pc[t] \in {"none", "wait", "passRead", "finish", "setError", "setProgress", "failReading",
                   "failWriting", "failRead", "failWrite"}
     \/ /\ pc[t] \in {"giveRead", "code", "waitWrite", "testWrite", "write", "giveWrite"}
        /\ stop[t]

ReadToken ==
  mpc = "wait" =>
    /\ \A t, u \in Threads :
         /\ HandRead(t) /\ HandRead(u) => t = u
         /\ EventRead(t) /\ EventRead(u) => t = u
         /\ ~(EventRead(t) /\ HandRead(u))
    /\ \A t \in Threads :
         /\ stopReading[NextThread(t)] => ReadsNoMore(t)
         /\ pc[t] \in {"passRead", "failWriting", "failRead"} => stopReading[NextThread(t)]

\* The token to write, in the same way.
EventWrite(t) == canWrite[t] = "set" /\ ~stopWriting[t]
HandWrite(t) ==
  \/ pc[t] = "testWrite" /\ ~stopWriting[t]
  \/ pc[t] \in {"write", "giveWrite"}

WriteToken ==
  mpc = "wait" =>
    /\ \A t, u \in Threads :
         /\ HandWrite(t) /\ HandWrite(u) => t = u
         /\ EventWrite(t) /\ EventWrite(u) => t = u
         /\ ~(EventWrite(t) /\ HandWrite(u))
    /\ \A t \in Threads : pc[t] \in {"failRead", "failWrite"} => stopWriting[NextThread(t)]

(***************************************************************************)
(* An error reaches p->res before anybody else can be stopped by it.       *)
(***************************************************************************)
Causes ==
  /\ res # "ok" => res \in occurred
  /\ progressRes # "ok" => res # "ok" \/ "progress" \in occurred
  /\ \A t \in Threads :
       /\ pc[t] = "setError" => err[t] # "ok" /\ (err[t] \in occurred \/ res # "ok")
       /\ pc[t] \in {"setProgress", "failReading", "failWriting", "failRead", "failWrite"} => res # "ok"
       /\ mpc = "wait" /\ stopWriting[t] => res # "ok"
  /\ mpc = "wait" /\ mres = "ok" /\ occurred # {} => res # "ok" \/ \E t \in Threads : pc[t] = "setError"
  /\ mpc \in {"create", "start"} => mres = "ok" /\ occurred = {}
  /\ mpc \in {"wait", "close", "return"} /\ mres # "ok" => mres \in occurred
  /\ mpc \in {"close", "return"} => mres # "ok"
  /\ mpc \in {"idle", "destroyed"} <=> result # "running"

IInv ==
  /\ TypeOK /\ Phase /\ Ready
  /\ ReadToken /\ WriteToken
  /\ Causes /\ ResultIsCause

\* GET_NEXT_THREAD stays among the threads.
LEMMA NextType ==
  \A t \in Threads : NextThread(t) \in Threads
BY SizesAssumption DEF Threads, NextThread

\* The numbers that MtCoder_Code()'s loops run through.
LEMMA Numbers ==
  /\ NumThreads \in Nat /\ 0 \in Threads
  /\ \A k \in Threads : k \in 0..NumThreads /\ k < NumThreads
BY SizesAssumption DEF Threads

\* The ring: two threads do not have the same next one (GET_NEXT_THREAD).
LEMMA NextInjective ==
  \A t, u \in Threads : NextThread(t) = NextThread(u) => t = u
BY SizesAssumption DEF Threads, NextThread

-----------------------------------------------------------------------------
\* Every step of MtCoder_Code(), MtCoder_Destruct() and the threads keeps the types.
LEMMA TypesStep ==
  ASSUME IInv, [Next]_vars
  PROVE  Types'
<1> USE SizesAssumption, NextType DEF IInv, TypeOK, Types, vars, main, errors, loops, events, flags, local, streams
<1>1. CASE MtCoder_Code
  BY <1>1 DEF MtCoder_Code, Called, Prepared
<1>2. CASE MtCoder_Destruct
  BY <1>2 DEF MtCoder_Destruct, Labels, All
<1>3. ASSUME NEW k \in Threads, PrepareFails(k) PROVE Types'
  BY <1>3 DEF PrepareFails, Called, Prepared, Failures
<1>4. CASE CreateThreads
  BY <1>4 DEF CreateThreads, Labels
<1>5. ASSUME NEW k \in Threads, CreateFails(k) PROVE Types'
  BY <1>5 DEF CreateFails, Labels, Failures
<1>6. CASE Start
  <2>1. j' \in 0..started' /\ started' \in 0..NumThreads
    BY <1>6, Numbers DEF Start, StartSubThreads
  <2> QED
    BY <1>6, <2>1, Numbers DEF Start, StartSubThreads
<1>7. ASSUME NEW k \in Threads, StartFails(k) PROVE Types'
  <2>1. j' \in 0..started' /\ started' \in 0..NumThreads
    BY <1>7, Numbers DEF StartFails, StartSubThreads
  <2> QED
    BY <1>7, <2>1, Numbers DEF StartFails, StartSubThreads, Failures
<1>8. CASE WaitSubThread
  <2>1. j' \in 0..started'
    BY <1>8 DEF WaitSubThread
  <2> QED
    BY <1>8, <2>1 DEF WaitSubThread
<1>9. CASE Close
  BY <1>9 DEF Close, All, Causes
<1>10. CASE ReturnAtOnce
  BY <1>10 DEF ReturnAtOnce, Failures
<1>11. ASSUME NEW t \in Threads, WakeUp(t) PROVE Types'
  BY <1>11 DEF WakeUp, Labels, Goto
<1>12. ASSUME NEW t \in Threads, WaitRead(t) PROVE Types'
  BY <1>12 DEF WaitRead, Labels, Goto
<1>13. ASSUME NEW t \in Threads, TestStop(t) PROVE Types'
  BY <1>13 DEF TestStop, Labels, Goto
<1>14. ASSUME NEW t \in Threads, PassStop(t) PROVE Types'
  BY <1>14 DEF PassStop, Labels, Goto
<1>15. ASSUME NEW t \in Threads, Read(t) PROVE Types'
  BY <1>15 DEF Read, Labels, Goto
<1>16. ASSUME NEW t \in Threads, TellStop(t) PROVE Types'
  BY <1>16 DEF TellStop, Labels, Goto
<1>17. ASSUME NEW t \in Threads, GiveRead(t) PROVE Types'
  BY <1>17 DEF GiveRead, SetEvent, Labels, Goto
<1>18. ASSUME NEW t \in Threads, Code(t) PROVE Types'
  BY <1>18 DEF Code, Labels, Goto
<1>19. ASSUME NEW t \in Threads, WaitWrite(t) PROVE Types'
  BY <1>19 DEF WaitWrite, Labels, Goto
<1>20. ASSUME NEW t \in Threads, TestWrite(t) PROVE Types'
  BY <1>20 DEF TestWrite, Labels, Goto
<1>21. ASSUME NEW t \in Threads, Write(t) PROVE Types'
  BY <1>21 DEF Write, Labels, Goto
<1>22. ASSUME NEW t \in Threads, GiveWrite(t) PROVE Types'
  BY <1>22 DEF GiveWrite, SetEvent, Labels, Goto
<1>23. ASSUME NEW t \in Threads, Finish(t) PROVE Types'
  BY <1>23 DEF Finish, Labels, Goto
<1>24. ASSUME NEW t \in Threads, ReadFails(t) PROVE Types'
  BY <1>24 DEF ReadFails, Labels, Failures, Goto
<1>25. ASSUME NEW t \in Threads, CodeFails(t) PROVE Types'
  BY <1>25 DEF CodeFails, Labels, Failures, Goto
<1>26. ASSUME NEW t \in Threads, ProgressFails(t) PROVE Types'
  <2>1. progressRes' \in Failures \union {"ok", "fail"} /\ occurred' \in SUBSET Failures
    BY <1>26 DEF ProgressFails, Failures
  <2> QED
    BY <1>26, <2>1 DEF ProgressFails, Goto, Labels, Failures
<1>27. ASSUME NEW t \in Threads, StoppedWriting(t) PROVE Types'
  BY <1>27 DEF StoppedWriting, Labels, Goto
<1>28. ASSUME NEW t \in Threads, WriteFails(t) PROVE Types'
  BY <1>28 DEF WriteFails, Labels, Failures, Goto
<1>29. ASSUME NEW t \in Threads, SetError(t) PROVE Types'
  BY <1>29 DEF SetError, Labels, Goto
<1>30. ASSUME NEW t \in Threads, SetProgressError(t) PROVE Types'
  BY <1>30 DEF SetProgressError, Labels, Goto
<1>31. ASSUME NEW t \in Threads, FailReading(t) PROVE Types'
  BY <1>31 DEF FailReading, Labels, Goto
<1>32. ASSUME NEW t \in Threads, FailWriting(t) PROVE Types'
  BY <1>32 DEF FailWriting, Labels, Goto
<1>33. CASE UNCHANGED vars
  BY <1>33
<1> QED
  BY <1>1, <1>2, <1>3, <1>4, <1>5, <1>6, <1>7, <1>8, <1>9, <1>10, <1>11, <1>12, <1>13, <1>14, <1>15, <1>16,
     <1>17, <1>18, <1>19, <1>20, <1>21, <1>22, <1>23, <1>24, <1>25, <1>26, <1>27, <1>28, <1>29, <1>30, <1>31,
     <1>32, <1>33 DEF Next, Caller, Thread

\* A thread is awake only while MtCoder_Code() waits for it: it is started with
\* startEvent, and has set finishedEvent before the wait for it ends.
LEMMA PhaseStep ==
  ASSUME IInv, [Next]_vars
  PROVE  Phase'
<1> USE SizesAssumption, NextType DEF IInv, TypeOK, Types, vars, main, errors, loops, events, flags, local, streams
<1>1. CASE MtCoder_Code
  BY <1>1 DEF MtCoder_Code, Called, Prepared, Phase, Active, Awaited
<1>2. CASE MtCoder_Destruct
  BY <1>2 DEF MtCoder_Destruct, Phase, Active, Awaited, All
<1>3. ASSUME NEW k \in Threads, PrepareFails(k) PROVE Phase'
  BY <1>3 DEF PrepareFails, Called, Prepared, Phase, Active, Awaited
<1>4. CASE CreateThreads
  BY <1>4 DEF CreateThreads, Phase, Active, Awaited
<1>5. ASSUME NEW k \in Threads, CreateFails(k) PROVE Phase'
  BY <1>5 DEF CreateFails, Phase, Active, Awaited
<1>6. CASE Start
  <2>1. /\ mpc = "start" /\ mpc' = "wait" /\ j' = 0
        /\ startEvent' = [t \in Threads |-> t < started']
        /\ UNCHANGED <<pc, finishedEvent>>
    BY <1>6 DEF Start, StartSubThreads
  <2>2. \A t \in Threads : j' <= t
    BY <2>1 DEF Threads
  <2> HIDE DEF TypeOK, Types, Threads
  <2> QED
    BY <2>1, <2>2 DEF Phase, Active, Awaited
<1>7. ASSUME NEW k \in Threads, StartFails(k) PROVE Phase'
  <2>1. /\ mpc = "start" /\ mpc' = "wait" /\ j' = 0
        /\ startEvent' = [t \in Threads |-> t < started']
        /\ UNCHANGED <<pc, finishedEvent>>
    BY <1>7 DEF StartFails, StartSubThreads
  <2>2. \A t \in Threads : j' <= t
    BY <2>1 DEF Threads
  <2> HIDE DEF TypeOK, Types, Threads
  <2> QED
    BY <2>1, <2>2 DEF Phase, Active, Awaited
<1>8. CASE WaitSubThread
  <2>1. j \in Nat /\ started \in Nat /\ j' = j + 1 /\ j < started /\ j' <= started
    BY <1>8, Numbers DEF WaitSubThread
  <2>2. \A t \in Threads : Awaited(t) /\ t # j => Awaited(t)'
    BY <1>8, <2>1 DEF WaitSubThread, Awaited, Threads
  <2>3. finishedEvent[j] /\ \A t \in Threads : finishedEvent'[t] = (finishedEvent[t] /\ t # j)
    BY <1>8 DEF WaitSubThread
  <2> QED
    BY <1>8, <2>2, <2>3 DEF WaitSubThread, Phase, Active
<1>9. CASE Close
  <2>1. \A t \in Threads : ~Awaited(t)
    BY <1>9 DEF Close, Awaited, Threads
  <2> QED
    BY <1>9, <2>1 DEF Close, Phase, Active
<1>10. CASE ReturnAtOnce
  BY <1>10 DEF ReturnAtOnce, Phase, Active, Awaited
<1>11. ASSUME NEW t \in Threads, WakeUp(t) PROVE Phase'
  BY <1>11 DEF WakeUp, Phase, Active, Awaited, Goto
<1>12. ASSUME NEW t \in Threads, WaitRead(t) PROVE Phase'
  BY <1>12 DEF WaitRead, Phase, Active, Awaited, Goto
<1>13. ASSUME NEW t \in Threads, TestStop(t) PROVE Phase'
  BY <1>13 DEF TestStop, Phase, Active, Awaited, Goto
<1>14. ASSUME NEW t \in Threads, PassStop(t) PROVE Phase'
  BY <1>14 DEF PassStop, Phase, Active, Awaited, Goto
<1>15. ASSUME NEW t \in Threads, Read(t) PROVE Phase'
  BY <1>15 DEF Read, Phase, Active, Awaited, Goto
<1>16. ASSUME NEW t \in Threads, TellStop(t) PROVE Phase'
  BY <1>16 DEF TellStop, Phase, Active, Awaited, Goto
<1>17. ASSUME NEW t \in Threads, GiveRead(t) PROVE Phase'
  BY <1>17 DEF GiveRead, SetEvent, Phase, Active, Awaited, Goto
<1>18. ASSUME NEW t \in Threads, Code(t) PROVE Phase'
  BY <1>18 DEF Code, Phase, Active, Awaited, Goto
<1>19. ASSUME NEW t \in Threads, WaitWrite(t) PROVE Phase'
  BY <1>19 DEF WaitWrite, Phase, Active, Awaited, Goto
<1>20. ASSUME NEW t \in Threads, TestWrite(t) PROVE Phase'
  BY <1>20 DEF TestWrite, Phase, Active, Awaited, Goto
<1>21. ASSUME NEW t \in Threads, Write(t) PROVE Phase'
  BY <1>21 DEF Write, Phase, Active, Awaited, Goto
<1>22. ASSUME NEW t \in Threads, GiveWrite(t) PROVE Phase'
  BY <1>22 DEF GiveWrite, SetEvent, Phase, Active, Awaited, Goto
<1>23. ASSUME NEW t \in Threads, Finish(t) PROVE Phase'
  BY <1>23 DEF Finish, Phase, Active, Awaited, Goto
<1>24. ASSUME NEW t \in Threads, ReadFails(t) PROVE Phase'
  BY <1>24 DEF ReadFails, Phase, Active, Awaited, Goto
<1>25. ASSUME NEW t \in Threads, CodeFails(t) PROVE Phase'
  BY <1>25 DEF CodeFails, Phase, Active, Awaited, Goto
<1>26. ASSUME NEW t \in Threads, ProgressFails(t) PROVE Phase'
  BY <1>26 DEF ProgressFails, Phase, Active, Awaited, Goto
<1>27. ASSUME NEW t \in Threads, StoppedWriting(t) PROVE Phase'
  BY <1>27 DEF StoppedWriting, Phase, Active, Awaited, Goto
<1>28. ASSUME NEW t \in Threads, WriteFails(t) PROVE Phase'
  BY <1>28 DEF WriteFails, Phase, Active, Awaited, Goto
<1>29. ASSUME NEW t \in Threads, SetError(t) PROVE Phase'
  BY <1>29 DEF SetError, Phase, Active, Awaited, Goto
<1>30. ASSUME NEW t \in Threads, SetProgressError(t) PROVE Phase'
  BY <1>30 DEF SetProgressError, Phase, Active, Awaited, Goto
<1>31. ASSUME NEW t \in Threads, FailReading(t) PROVE Phase'
  BY <1>31 DEF FailReading, Phase, Active, Awaited, Goto
<1>32. ASSUME NEW t \in Threads, FailWriting(t) PROVE Phase'
  BY <1>32 DEF FailWriting, Phase, Active, Awaited, Goto
<1>33. CASE UNCHANGED vars
  BY <1>33 DEF Phase, Active, Awaited
<1> QED
  BY <1>1, <1>2, <1>3, <1>4, <1>5, <1>6, <1>7, <1>8, <1>9, <1>10, <1>11, <1>12, <1>13, <1>14, <1>15, <1>16,
     <1>17, <1>18, <1>19, <1>20, <1>21, <1>22, <1>23, <1>24, <1>25, <1>26, <1>27, <1>28, <1>29, <1>30, <1>31,
     <1>32, <1>33 DEF Next, Caller, Thread

\* The events stay open while threads use them, and are reset before they are started.
LEMMA ReadyStep ==
  ASSUME IInv, [Next]_vars
  PROVE  Ready'
<1> USE SizesAssumption, NextType DEF IInv, TypeOK, Types, vars, main, errors, loops, events, flags, local, streams
<1>1. CASE MtCoder_Code
  <2>1. mpc' = "create" /\ \A t \in Threads : t < NumThreads /\ ~(t >= NumThreads)
    BY <1>1, Numbers DEF MtCoder_Code, Threads
  <2>2. \A t \in Threads : canRead'[t] = "unset" /\ canWrite'[t] = "unset"
    BY <1>1, <2>1 DEF MtCoder_Code, Prepared
  <2>3. \A t \in Threads : ~stopReading'[t] /\ ~stopWriting'[t]
    BY <1>1, <2>1 DEF MtCoder_Code, Prepared
  <2> QED
    BY <2>1, <2>2, <2>3 DEF Ready
<1>2. CASE MtCoder_Destruct
  BY <1>2 DEF MtCoder_Destruct, Ready
<1>3. ASSUME NEW k \in Threads, PrepareFails(k) PROVE Ready'
  BY <1>3 DEF PrepareFails, Prepared, Ready
<1>4. CASE CreateThreads
  BY <1>4 DEF CreateThreads, Ready
<1>5. ASSUME NEW k \in Threads, CreateFails(k) PROVE Ready'
  BY <1>5 DEF CreateFails, Ready
<1>6. CASE Start
  BY <1>6 DEF Start, StartSubThreads, Ready
<1>7. ASSUME NEW k \in Threads, StartFails(k) PROVE Ready'
  BY <1>7 DEF StartFails, StartSubThreads, Ready
<1>8. CASE WaitSubThread
  BY <1>8 DEF WaitSubThread, Ready
<1>9. CASE Close
  BY <1>9 DEF Close, Ready
<1>10. CASE ReturnAtOnce
  BY <1>10 DEF ReturnAtOnce, Ready
<1>11. ASSUME NEW t \in Threads, WakeUp(t) PROVE Ready'
  BY <1>11 DEF WakeUp, Ready
<1>12. ASSUME NEW t \in Threads, WaitRead(t) PROVE Ready'
  BY <1>12 DEF WaitRead, Ready
<1>13. ASSUME NEW t \in Threads, TestStop(t) PROVE Ready'
  BY <1>13 DEF TestStop, Ready
<1>14. ASSUME NEW t \in Threads, PassStop(t) PROVE Ready'
  BY <1>14 DEF PassStop, Ready, Phase, Active, Awaited
<1>15. ASSUME NEW t \in Threads, Read(t) PROVE Ready'
  BY <1>15 DEF Read, Ready
<1>16. ASSUME NEW t \in Threads, TellStop(t) PROVE Ready'
  BY <1>16 DEF TellStop, Ready, Phase, Active, Awaited
<1>17. ASSUME NEW t \in Threads, GiveRead(t) PROVE Ready'
  BY <1>17 DEF GiveRead, SetEvent, Ready, Phase, Active, Awaited
<1>18. ASSUME NEW t \in Threads, Code(t) PROVE Ready'
  BY <1>18 DEF Code, Ready
<1>19. ASSUME NEW t \in Threads, WaitWrite(t) PROVE Ready'
  BY <1>19 DEF WaitWrite, Ready
<1>20. ASSUME NEW t \in Threads, TestWrite(t) PROVE Ready'
  BY <1>20 DEF TestWrite, Ready
<1>21. ASSUME NEW t \in Threads, Write(t) PROVE Ready'
  BY <1>21 DEF Write, Ready
<1>22. ASSUME NEW t \in Threads, GiveWrite(t) PROVE Ready'
  BY <1>22 DEF GiveWrite, SetEvent, Ready, Phase, Active, Awaited
<1>23. ASSUME NEW t \in Threads, Finish(t) PROVE Ready'
  BY <1>23 DEF Finish, Ready
<1>24. ASSUME NEW t \in Threads, ReadFails(t) PROVE Ready'
  BY <1>24 DEF ReadFails, Ready
<1>25. ASSUME NEW t \in Threads, CodeFails(t) PROVE Ready'
  BY <1>25 DEF CodeFails, Ready
<1>26. ASSUME NEW t \in Threads, ProgressFails(t) PROVE Ready'
  BY <1>26 DEF ProgressFails, Ready
<1>27. ASSUME NEW t \in Threads, StoppedWriting(t) PROVE Ready'
  BY <1>27 DEF StoppedWriting, Ready
<1>28. ASSUME NEW t \in Threads, WriteFails(t) PROVE Ready'
  BY <1>28 DEF WriteFails, Ready
<1>29. ASSUME NEW t \in Threads, SetError(t) PROVE Ready'
  BY <1>29 DEF SetError, Ready
<1>30. ASSUME NEW t \in Threads, SetProgressError(t) PROVE Ready'
  BY <1>30 DEF SetProgressError, Ready
<1>31. ASSUME NEW t \in Threads, FailReading(t) PROVE Ready'
  BY <1>31 DEF FailReading, Ready, Phase, Active, Awaited
<1>32. ASSUME NEW t \in Threads, FailWriting(t) PROVE Ready'
  BY <1>32 DEF FailWriting, Ready, Phase, Active, Awaited
<1>33. CASE UNCHANGED vars
  BY <1>33 DEF Ready
<1> QED
  BY <1>1, <1>2, <1>3, <1>4, <1>5, <1>6, <1>7, <1>8, <1>9, <1>10, <1>11, <1>12, <1>13, <1>14, <1>15, <1>16,
     <1>17, <1>18, <1>19, <1>20, <1>21, <1>22, <1>23, <1>24, <1>25, <1>26, <1>27, <1>28, <1>29, <1>30, <1>31,
     <1>32, <1>33 DEF Next, Caller, Thread

\* The token to read: a thread takes it with canRead and gives it back by setting the
\* next thread's canRead, and whoever sets it a second time has set stopReading before.
LEMMA ReadTokenStep ==
  ASSUME IInv, [Next]_vars
  PROVE  ReadToken'
<1> USE SizesAssumption, NextType DEF IInv, TypeOK, Types, vars, main, errors, loops, events, flags, local, streams
<1>1. CASE MtCoder_Code
  BY <1>1 DEF MtCoder_Code, Prepared, ReadToken
<1>2. CASE MtCoder_Destruct
  BY <1>2 DEF MtCoder_Destruct, ReadToken
<1>3. ASSUME NEW k \in Threads, PrepareFails(k) PROVE ReadToken'
  BY <1>3 DEF PrepareFails, Prepared, ReadToken
<1>4. CASE CreateThreads
  BY <1>4 DEF CreateThreads, ReadToken
<1>5. ASSUME NEW k \in Threads, CreateFails(k) PROVE ReadToken'
  BY <1>5 DEF CreateFails, ReadToken
<1>6. CASE Start
  BY <1>6 DEF Start, StartSubThreads, ReadToken, EventRead, HandRead, Phase, Ready
<1>7. ASSUME NEW k \in Threads, StartFails(k) PROVE ReadToken'
  <2>1. \A u \in Threads : (NextThread(u) = 0 => u = NumThreads - 1)
    BY DEF Threads, NextThread
  <2>2. \A u \in Threads : /\ pc'[u] = "wait"
                           /\ startEvent'[u] <=> u < k
                           /\ stopReading'[u] <=> u = 0
    BY <1>7 DEF StartFails, StartSubThreads, Ready, Phase
  <2>3. \A u \in Threads : ~HandRead(u)' /\ ~(EventRead(u)')
    BY <1>7, <2>2 DEF StartFails, StartSubThreads, HandRead, EventRead, Ready
  <2>4. \A u \in Threads : stopReading'[NextThread(u)] => ReadsNoMore(u)'
    <3>1. ASSUME NEW u \in Threads, stopReading'[NextThread(u)] PROVE ~(u < k)
      <4>1. NextThread(u) = 0
        BY <2>2, <3>1
      <4> QED
        BY <2>1, <4>1 DEF Threads
    <3> QED
      BY <2>2, <3>1 DEF ReadsNoMore
  <2> QED
    BY <2>2, <2>3, <2>4 DEF ReadToken
<1>8. CASE WaitSubThread
  BY <1>8 DEF WaitSubThread, ReadToken, EventRead, HandRead, ReadsNoMore
<1>9. CASE Close
  BY <1>9 DEF Close, ReadToken
<1>10. CASE ReturnAtOnce
  BY <1>10 DEF ReturnAtOnce, ReadToken
<1>11. ASSUME NEW t \in Threads, WakeUp(t) PROVE ReadToken'
  BY <1>11 DEF WakeUp, ReadToken, EventRead, HandRead, ReadsNoMore, Ready, Active, Awaited, Goto
<1>12. ASSUME NEW t \in Threads, WaitRead(t) PROVE ReadToken'
  BY <1>12 DEF WaitRead, ReadToken, EventRead, HandRead, ReadsNoMore, Phase, Ready, Active, Awaited, Goto
<1>13. ASSUME NEW t \in Threads, TestStop(t) PROVE ReadToken'
  BY <1>13 DEF TestStop, ReadToken, EventRead, HandRead, ReadsNoMore, Phase, Ready, Active, Awaited, Goto
<1>14. ASSUME NEW t \in Threads, PassStop(t) PROVE ReadToken'
  BY <1>14, NextInjective DEF PassStop, ReadToken, EventRead, HandRead, ReadsNoMore, Phase, Goto
<1>15. ASSUME NEW t \in Threads, Read(t) PROVE ReadToken'
  <2>1. mpc = "wait" /\ ~stopReading[NextThread(t)]
    BY <1>15 DEF Read, ReadToken, ReadsNoMore, Phase, Active, Awaited
  <2>2. \A u \in Threads : HandRead(u)' = HandRead(u) /\ EventRead(u)' = EventRead(u)
    BY <1>15 DEF Read, Goto, HandRead, EventRead
  <2>3. \A u \in Threads : u # t => ReadsNoMore(u)' = ReadsNoMore(u) /\ pc'[u] = pc[u]
    BY <1>15 DEF Read, Goto, ReadsNoMore
  <2> QED
    BY <1>15, <2>1, <2>2, <2>3 DEF Read, Goto, ReadToken
<1>16. ASSUME NEW t \in Threads, TellStop(t) PROVE ReadToken'
  <2>1. mpc = "wait" /\ ~startEvent[t] /\ ~stopReading[NextThread(t)]
    BY <1>16 DEF TellStop, ReadToken, ReadsNoMore, Phase, Active, Awaited
  <2>2. \A u \in Threads : (HandRead(u)' => HandRead(u)) /\ (EventRead(u)' => EventRead(u))
    BY <1>16, <2>1 DEF TellStop, Goto, HandRead, EventRead
  <2>3. \A u \in Threads : u # t =>
          /\ ReadsNoMore(u)' = ReadsNoMore(u) /\ pc'[u] = pc[u]
          /\ stopReading'[NextThread(u)] = stopReading[NextThread(u)]
    BY <1>16, NextInjective DEF TellStop, Goto, ReadsNoMore
  <2>4. pc'[t] = "giveRead" /\ (stopReading'[NextThread(t)] => ReadsNoMore(t)')
    BY <1>16, <2>1 DEF TellStop, Goto, ReadsNoMore
  <2> QED
    BY <1>16, <2>1, <2>2, <2>3, <2>4 DEF TellStop, ReadToken
<1>17. ASSUME NEW t \in Threads, GiveRead(t) PROVE ReadToken'
  <2>1. /\ mpc = "wait"
        /\ pc'[t] \in {"code", "finish", "failWrite"}
        /\ pc'[t] = "code" <=> pc[t] = "giveRead"
        /\ \A u \in Threads : u # t => pc'[u] = pc[u]
    BY <1>17 DEF GiveRead, Goto, Phase, Active, Awaited
  <2>2. HandRead(t) \/ stopReading[NextThread(t)]
    BY <1>17, <2>1 DEF GiveRead, HandRead, ReadToken
  <2>3. ~HandRead(t)' /\ \A u \in Threads : u # t => HandRead(u)' = HandRead(u)
    BY <1>17, <2>1 DEF GiveRead, HandRead
  <2>4. \A u \in Threads : EventRead(u)' => EventRead(u) \/ (u = NextThread(t) /\ HandRead(t))
    BY <1>17, <2>2 DEF GiveRead, SetEvent, EventRead
  <2>a. \A u, v \in Threads : /\ HandRead(u) /\ HandRead(v) => u = v
                              /\ EventRead(u) /\ EventRead(v) => u = v
                              /\ ~(EventRead(u) /\ HandRead(v))
    BY <2>1, Zenon DEF ReadToken
  <2>b. /\ \A u, v \in Threads : EventRead(u)' /\ EventRead(v)' => u = v
        /\ \A u, v \in Threads : ~(EventRead(u)' /\ HandRead(v)')
    <3> HIDE DEF EventRead, HandRead, IInv, TypeOK
    <3> QED
      BY <2>3, <2>4, <2>a, Zenon
  <2>5. \A u, v \in Threads : /\ EventRead(u)' /\ EventRead(v)' => u = v
                              /\ ~(EventRead(u)' /\ HandRead(v)')
    BY <2>b, Zenon
  <2>6. \A u \in Threads : ReadsNoMore(u) => ReadsNoMore(u)'
    BY <1>17, <2>1 DEF GiveRead, ReadsNoMore
  <2> QED
    BY <1>17, <2>1, <2>3, <2>5, <2>6 DEF GiveRead, ReadToken
<1>18. ASSUME NEW t \in Threads, Code(t) PROVE ReadToken'
  BY <1>18 DEF Code, ReadToken, EventRead, HandRead, ReadsNoMore, Goto
<1>19. ASSUME NEW t \in Threads, WaitWrite(t) PROVE ReadToken'
  BY <1>19 DEF WaitWrite, ReadToken, EventRead, HandRead, ReadsNoMore, Goto
<1>20. ASSUME NEW t \in Threads, TestWrite(t) PROVE ReadToken'
  BY <1>20 DEF TestWrite, ReadToken, EventRead, HandRead, ReadsNoMore, Goto
<1>21. ASSUME NEW t \in Threads, Write(t) PROVE ReadToken'
  BY <1>21 DEF Write, ReadToken, EventRead, HandRead, ReadsNoMore, Goto
<1>22. ASSUME NEW t \in Threads, GiveWrite(t) PROVE ReadToken'
  BY <1>22 DEF GiveWrite, ReadToken, EventRead, HandRead, ReadsNoMore, Goto
<1>23. ASSUME NEW t \in Threads, Finish(t) PROVE ReadToken'
  BY <1>23 DEF Finish, ReadToken, EventRead, HandRead, ReadsNoMore, Goto
<1>24. ASSUME NEW t \in Threads, ReadFails(t) PROVE ReadToken'
  BY <1>24 DEF ReadFails, ReadToken, EventRead, HandRead, ReadsNoMore, Goto
<1>25. ASSUME NEW t \in Threads, CodeFails(t) PROVE ReadToken'
  BY <1>25 DEF CodeFails, ReadToken, EventRead, HandRead, ReadsNoMore, Goto
<1>26. ASSUME NEW t \in Threads, ProgressFails(t) PROVE ReadToken'
  BY <1>26 DEF ProgressFails, ReadToken, EventRead, HandRead, ReadsNoMore, Goto
<1>27. ASSUME NEW t \in Threads, StoppedWriting(t) PROVE ReadToken'
  BY <1>27 DEF StoppedWriting, ReadToken, EventRead, HandRead, ReadsNoMore, Goto
<1>28. ASSUME NEW t \in Threads, WriteFails(t) PROVE ReadToken'
  BY <1>28 DEF WriteFails, ReadToken, EventRead, HandRead, ReadsNoMore, Goto
<1>29. ASSUME NEW t \in Threads, SetError(t) PROVE ReadToken'
  BY <1>29 DEF SetError, ReadToken, EventRead, HandRead, ReadsNoMore, Awaited, Goto
<1>30. ASSUME NEW t \in Threads, SetProgressError(t) PROVE ReadToken'
  BY <1>30 DEF SetProgressError, ReadToken, EventRead, HandRead, ReadsNoMore, Awaited, Goto
<1>31. ASSUME NEW t \in Threads, FailReading(t) PROVE ReadToken'
  BY <1>31, NextInjective DEF FailReading, ReadToken, EventRead, HandRead, ReadsNoMore, Phase, Active, Awaited, Goto
<1>32. ASSUME NEW t \in Threads, FailWriting(t) PROVE ReadToken'
  BY <1>32 DEF FailWriting, ReadToken, EventRead, HandRead, ReadsNoMore, Goto
<1>33. CASE UNCHANGED vars
  BY <1>33 DEF ReadToken, EventRead, HandRead, ReadsNoMore
<1> QED
  BY <1>1, <1>2, <1>3, <1>4, <1>5, <1>6, <1>7, <1>8, <1>9, <1>10, <1>11, <1>12, <1>13, <1>14, <1>15, <1>16,
     <1>17, <1>18, <1>19, <1>20, <1>21, <1>22, <1>23, <1>24, <1>25, <1>26, <1>27, <1>28, <1>29, <1>30, <1>31,
     <1>32, <1>33 DEF Next, Caller, Thread

\* The token to write, taken and given back with canWrite.
LEMMA WriteTokenStep ==
  ASSUME IInv, [Next]_vars
  PROVE  WriteToken'
<1> USE SizesAssumption, NextType DEF IInv, TypeOK, Types, vars, main, errors, loops, events, flags, local, streams
<1>1. CASE MtCoder_Code
  BY <1>1 DEF MtCoder_Code, Prepared, WriteToken
<1>2. CASE MtCoder_Destruct
  BY <1>2 DEF MtCoder_Destruct, WriteToken
<1>3. ASSUME NEW k \in Threads, PrepareFails(k) PROVE WriteToken'
  BY <1>3 DEF PrepareFails, Prepared, WriteToken
<1>4. CASE CreateThreads
  BY <1>4 DEF CreateThreads, WriteToken
<1>5. ASSUME NEW k \in Threads, CreateFails(k) PROVE WriteToken'
  BY <1>5 DEF CreateFails, WriteToken
<1>6. CASE Start
  BY <1>6 DEF Start, StartSubThreads, WriteToken, EventWrite, HandWrite, Phase, Ready
<1>7. ASSUME NEW k \in Threads, StartFails(k) PROVE WriteToken'
  BY <1>7 DEF StartFails, StartSubThreads, WriteToken, EventWrite, HandWrite, Phase, Ready
<1>8. CASE WaitSubThread
  BY <1>8 DEF WaitSubThread, WriteToken, EventWrite, HandWrite
<1>9. CASE Close
  BY <1>9 DEF Close, WriteToken
<1>10. CASE ReturnAtOnce
  BY <1>10 DEF ReturnAtOnce, WriteToken
<1>11. ASSUME NEW t \in Threads, WakeUp(t) PROVE WriteToken'
  BY <1>11 DEF WakeUp, WriteToken, EventWrite, HandWrite, Goto
<1>12. ASSUME NEW t \in Threads, WaitRead(t) PROVE WriteToken'
  BY <1>12 DEF WaitRead, WriteToken, EventWrite, HandWrite, Goto
<1>13. ASSUME NEW t \in Threads, TestStop(t) PROVE WriteToken'
  BY <1>13 DEF TestStop, WriteToken, EventWrite, HandWrite, Goto
<1>14. ASSUME NEW t \in Threads, PassStop(t) PROVE WriteToken'
  BY <1>14 DEF PassStop, WriteToken, EventWrite, HandWrite, Goto
<1>15. ASSUME NEW t \in Threads, Read(t) PROVE WriteToken'
  BY <1>15 DEF Read, WriteToken, EventWrite, HandWrite, Goto
<1>16. ASSUME NEW t \in Threads, TellStop(t) PROVE WriteToken'
  BY <1>16 DEF TellStop, WriteToken, EventWrite, HandWrite, Goto
<1>17. ASSUME NEW t \in Threads, GiveRead(t) PROVE WriteToken'
  <2>1. /\ pc'[t] \in {"code", "finish", "failWrite"}
        /\ pc'[t] = "failWrite" => pc[t] = "failRead"
        /\ \A u \in Threads : u # t => pc'[u] = pc[u]
    BY <1>17 DEF GiveRead, Goto
  <2>2. \A u \in Threads : (HandWrite(u)' => HandWrite(u)) /\ EventWrite(u)' = EventWrite(u)
    BY <1>17, <2>1 DEF GiveRead, HandWrite, EventWrite
  <2>3. \A u \in Threads : pc'[u] \in {"failRead", "failWrite"} =>
          pc[u] \in {"failRead", "failWrite"} /\ stopWriting'[NextThread(u)] = stopWriting[NextThread(u)]
    BY <1>17, <2>1 DEF GiveRead
  <2> QED
    BY <1>17, <2>2, <2>3 DEF GiveRead, WriteToken
<1>18. ASSUME NEW t \in Threads, Code(t) PROVE WriteToken'
  BY <1>18 DEF Code, WriteToken, EventWrite, HandWrite, Goto
<1>19. ASSUME NEW t \in Threads, WaitWrite(t) PROVE WriteToken'
  BY <1>19 DEF WaitWrite, WriteToken, EventWrite, HandWrite, Goto
<1>20. ASSUME NEW t \in Threads, TestWrite(t) PROVE WriteToken'
  BY <1>20 DEF TestWrite, WriteToken, EventWrite, HandWrite, Goto
<1>21. ASSUME NEW t \in Threads, Write(t) PROVE WriteToken'
  BY <1>21 DEF Write, WriteToken, EventWrite, HandWrite, Goto
<1>22. ASSUME NEW t \in Threads, GiveWrite(t) PROVE WriteToken'
  BY <1>22 DEF GiveWrite, SetEvent, WriteToken, EventWrite, HandWrite, Active, Goto
<1>23. ASSUME NEW t \in Threads, Finish(t) PROVE WriteToken'
  BY <1>23 DEF Finish, WriteToken, EventWrite, HandWrite, Goto
<1>24. ASSUME NEW t \in Threads, ReadFails(t) PROVE WriteToken'
  BY <1>24 DEF ReadFails, WriteToken, EventWrite, HandWrite, Goto
<1>25. ASSUME NEW t \in Threads, CodeFails(t) PROVE WriteToken'
  BY <1>25 DEF CodeFails, WriteToken, EventWrite, HandWrite, Goto
<1>26. ASSUME NEW t \in Threads, ProgressFails(t) PROVE WriteToken'
  BY <1>26 DEF ProgressFails, WriteToken, EventWrite, HandWrite, Goto
<1>27. ASSUME NEW t \in Threads, StoppedWriting(t) PROVE WriteToken'
  BY <1>27 DEF StoppedWriting, WriteToken, EventWrite, HandWrite, Goto
<1>28. ASSUME NEW t \in Threads, WriteFails(t) PROVE WriteToken'
  BY <1>28 DEF WriteFails, WriteToken, EventWrite, HandWrite, Goto
<1>29. ASSUME NEW t \in Threads, SetError(t) PROVE WriteToken'
  BY <1>29 DEF SetError, WriteToken, EventWrite, HandWrite, Goto
<1>30. ASSUME NEW t \in Threads, SetProgressError(t) PROVE WriteToken'
  BY <1>30 DEF SetProgressError, WriteToken, EventWrite, HandWrite, Goto
<1>31. ASSUME NEW t \in Threads, FailReading(t) PROVE WriteToken'
  BY <1>31 DEF FailReading, WriteToken, EventWrite, HandWrite, Goto
<1>32. ASSUME NEW t \in Threads, FailWriting(t) PROVE WriteToken'
  BY <1>32 DEF FailWriting, WriteToken, EventWrite, HandWrite, Goto
<1>33. CASE UNCHANGED vars
  BY <1>33 DEF WriteToken, EventWrite, HandWrite
<1> QED
  BY <1>1, <1>2, <1>3, <1>4, <1>5, <1>6, <1>7, <1>8, <1>9, <1>10, <1>11, <1>12, <1>13, <1>14, <1>15, <1>16,
     <1>17, <1>18, <1>19, <1>20, <1>21, <1>22, <1>23, <1>24, <1>25, <1>26, <1>27, <1>28, <1>29, <1>30, <1>31,
     <1>32, <1>33 DEF Next, Caller, Thread

\* ThreadFunc() sets p->res before it stops the next thread, so that a thread that
\* is stopped reports an error that p->res already has.
LEMMA CausesStep ==
  ASSUME IInv, [Next]_vars
  PROVE  Causes'
<1> USE SizesAssumption, NextType DEF IInv, TypeOK, Types, vars, main, errors, loops, events, flags, local, streams
<1>1. CASE MtCoder_Code
  BY <1>1 DEF MtCoder_Code, Called, Prepared, Causes, Phase, Active, Awaited
<1>2. CASE MtCoder_Destruct
  BY <1>2 DEF MtCoder_Destruct, Causes, All
<1>3. ASSUME NEW k \in Threads, PrepareFails(k) PROVE Causes'
  BY <1>3 DEF PrepareFails, Called, Prepared, Causes, Phase, Active, Awaited
<1>4. CASE CreateThreads
  BY <1>4 DEF CreateThreads, Causes
<1>5. ASSUME NEW k \in Threads, CreateFails(k) PROVE Causes'
  BY <1>5 DEF CreateFails, Causes
<1>6. CASE Start
  BY <1>6 DEF Start, StartSubThreads, Causes, Ready
<1>7. ASSUME NEW k \in Threads, StartFails(k) PROVE Causes'
  BY <1>7 DEF StartFails, StartSubThreads, Causes, Ready
<1>8. CASE WaitSubThread
  BY <1>8 DEF WaitSubThread, Causes
<1>9. CASE Close
  <2>1. \A t \in Threads : ~Awaited(t)
    BY <1>9 DEF Close, Awaited, Threads
  <2>2. \A t \in Threads : pc[t] # "setError"
    BY <2>1 DEF Phase, Active
  <2> QED
    BY <1>9, <2>2 DEF Close, Causes, Failures
<1>10. CASE ReturnAtOnce
  BY <1>10 DEF ReturnAtOnce, Causes
<1>11. ASSUME NEW t \in Threads, WakeUp(t) PROVE Causes'
  BY <1>11 DEF WakeUp, Causes, Goto
<1>12. ASSUME NEW t \in Threads, WaitRead(t) PROVE Causes'
  BY <1>12 DEF WaitRead, Causes, Goto
<1>13. ASSUME NEW t \in Threads, TestStop(t) PROVE Causes'
  BY <1>13 DEF TestStop, Causes, Goto
<1>14. ASSUME NEW t \in Threads, PassStop(t) PROVE Causes'
  BY <1>14 DEF PassStop, Causes, Goto
<1>15. ASSUME NEW t \in Threads, Read(t) PROVE Causes'
  BY <1>15 DEF Read, Causes, Goto
<1>16. ASSUME NEW t \in Threads, TellStop(t) PROVE Causes'
  BY <1>16 DEF TellStop, Causes, Goto
<1>17. ASSUME NEW t \in Threads, GiveRead(t) PROVE Causes'
  BY <1>17 DEF GiveRead, Causes, Goto
<1>18. ASSUME NEW t \in Threads, Code(t) PROVE Causes'
  BY <1>18 DEF Code, Causes, Goto
<1>19. ASSUME NEW t \in Threads, WaitWrite(t) PROVE Causes'
  BY <1>19 DEF WaitWrite, Causes, Goto
<1>20. ASSUME NEW t \in Threads, TestWrite(t) PROVE Causes'
  BY <1>20 DEF TestWrite, Causes, Goto
<1>21. ASSUME NEW t \in Threads, Write(t) PROVE Causes'
  BY <1>21 DEF Write, Causes, Goto
<1>22. ASSUME NEW t \in Threads, GiveWrite(t) PROVE Causes'
  BY <1>22 DEF GiveWrite, Causes, Goto
<1>23. ASSUME NEW t \in Threads, Finish(t) PROVE Causes'
  BY <1>23 DEF Finish, Causes, Goto
<1>24. ASSUME NEW t \in Threads, ReadFails(t) PROVE Causes'
  BY <1>24 DEF ReadFails, Causes, Phase, Active, Awaited, All, Goto
<1>25. ASSUME NEW t \in Threads, CodeFails(t) PROVE Causes'
  BY <1>25 DEF CodeFails, Causes, Phase, Active, Awaited, Goto
<1>26. ASSUME NEW t \in Threads, ProgressFails(t) PROVE Causes'
  BY <1>26 DEF ProgressFails, Causes, Phase, Active, Awaited, Goto
<1>27. ASSUME NEW t \in Threads, StoppedWriting(t) PROVE Causes'
  BY <1>27 DEF StoppedWriting, Causes, Phase, Active, Awaited, Goto
<1>28. ASSUME NEW t \in Threads, WriteFails(t) PROVE Causes'
  BY <1>28 DEF WriteFails, Causes, Phase, Active, Awaited, Goto
<1>29. ASSUME NEW t \in Threads, SetError(t) PROVE Causes'
  BY <1>29 DEF SetError, Causes, Goto
<1>30. ASSUME NEW t \in Threads, SetProgressError(t) PROVE Causes'
  BY <1>30 DEF SetProgressError, Causes, Goto
<1>31. ASSUME NEW t \in Threads, FailReading(t) PROVE Causes'
  BY <1>31 DEF FailReading, Causes, Goto
<1>32. ASSUME NEW t \in Threads, FailWriting(t) PROVE Causes'
  BY <1>32 DEF FailWriting, Causes, Goto
<1>33. CASE UNCHANGED vars
  BY <1>33 DEF Causes
<1> QED
  BY <1>1, <1>2, <1>3, <1>4, <1>5, <1>6, <1>7, <1>8, <1>9, <1>10, <1>11, <1>12, <1>13, <1>14, <1>15, <1>16,
     <1>17, <1>18, <1>19, <1>20, <1>21, <1>22, <1>23, <1>24, <1>25, <1>26, <1>27, <1>28, <1>29, <1>30, <1>31,
     <1>32, <1>33 DEF Next, Caller, Thread

\* MtCoder_Code() returns an error that occurred, and SZ_OK only if none did.
LEMMA ResultStep ==
  ASSUME IInv, [Next]_vars
  PROVE  ResultIsCause'
<1> USE SizesAssumption, NextType DEF IInv, TypeOK, Types, vars, main, errors, loops, events, flags, local, streams
<1>1. CASE MtCoder_Code
  BY <1>1 DEF MtCoder_Code, Prepared, ResultIsCause
<1>2. CASE MtCoder_Destruct
  BY <1>2 DEF MtCoder_Destruct, ResultIsCause
<1>3. ASSUME NEW k \in Threads, PrepareFails(k) PROVE ResultIsCause'
  BY <1>3 DEF PrepareFails, Prepared, ResultIsCause
<1>4. CASE CreateThreads
  BY <1>4 DEF CreateThreads, ResultIsCause
<1>5. ASSUME NEW k \in Threads, CreateFails(k) PROVE ResultIsCause'
  BY <1>5 DEF CreateFails, ResultIsCause, Causes
<1>6. CASE Start
  BY <1>6 DEF Start, StartSubThreads, ResultIsCause
<1>7. ASSUME NEW k \in Threads, StartFails(k) PROVE ResultIsCause'
  BY <1>7 DEF StartFails, StartSubThreads, ResultIsCause
<1>8. CASE WaitSubThread
  BY <1>8 DEF WaitSubThread, ResultIsCause
<1>9. CASE Close
  <2>1. \A t \in Threads : ~Awaited(t)
    BY <1>9 DEF Close, Awaited, Threads
  <2>2. \A t \in Threads : pc[t] # "setError"
    BY <2>1 DEF Phase, Active
  <2> QED
    BY <1>9, <2>2 DEF Close, Causes, ResultIsCause
<1>10. CASE ReturnAtOnce
  BY <1>10 DEF ReturnAtOnce, ResultIsCause, Causes
<1>11. ASSUME NEW t \in Threads, WakeUp(t) PROVE ResultIsCause'
  BY <1>11 DEF WakeUp, ResultIsCause
<1>12. ASSUME NEW t \in Threads, WaitRead(t) PROVE ResultIsCause'
  BY <1>12 DEF WaitRead, ResultIsCause
<1>13. ASSUME NEW t \in Threads, TestStop(t) PROVE ResultIsCause'
  BY <1>13 DEF TestStop, ResultIsCause
<1>14. ASSUME NEW t \in Threads, PassStop(t) PROVE ResultIsCause'
  BY <1>14 DEF PassStop, ResultIsCause
<1>15. ASSUME NEW t \in Threads, Read(t) PROVE ResultIsCause'
  BY <1>15 DEF Read, ResultIsCause
<1>16. ASSUME NEW t \in Threads, TellStop(t) PROVE ResultIsCause'
  BY <1>16 DEF TellStop, ResultIsCause
<1>17. ASSUME NEW t \in Threads, GiveRead(t) PROVE ResultIsCause'
  BY <1>17 DEF GiveRead, ResultIsCause
<1>18. ASSUME NEW t \in Threads, Code(t) PROVE ResultIsCause'
  BY <1>18 DEF Code, ResultIsCause
<1>19. ASSUME NEW t \in Threads, WaitWrite(t) PROVE ResultIsCause'
  BY <1>19 DEF WaitWrite, ResultIsCause
<1>20. ASSUME NEW t \in Threads, TestWrite(t) PROVE ResultIsCause'
  BY <1>20 DEF TestWrite, ResultIsCause
<1>21. ASSUME NEW t \in Threads, Write(t) PROVE ResultIsCause'
  BY <1>21 DEF Write, ResultIsCause
<1>22. ASSUME NEW t \in Threads, GiveWrite(t) PROVE ResultIsCause'
  BY <1>22 DEF GiveWrite, ResultIsCause
<1>23. ASSUME NEW t \in Threads, Finish(t) PROVE ResultIsCause'
  BY <1>23 DEF Finish, ResultIsCause
<1>24. ASSUME NEW t \in Threads, ReadFails(t) PROVE ResultIsCause'
  BY <1>24 DEF ReadFails, ResultIsCause, Phase, Active, Awaited
<1>25. ASSUME NEW t \in Threads, CodeFails(t) PROVE ResultIsCause'
  BY <1>25 DEF CodeFails, ResultIsCause, Phase, Active, Awaited
<1>26. ASSUME NEW t \in Threads, ProgressFails(t) PROVE ResultIsCause'
  BY <1>26 DEF ProgressFails, ResultIsCause, Phase, Active, Awaited
<1>27. ASSUME NEW t \in Threads, StoppedWriting(t) PROVE ResultIsCause'
  BY <1>27 DEF StoppedWriting, ResultIsCause
<1>28. ASSUME NEW t \in Threads, WriteFails(t) PROVE ResultIsCause'
  BY <1>28 DEF WriteFails, ResultIsCause, Phase, Active, Awaited
<1>29. ASSUME NEW t \in Threads, SetError(t) PROVE ResultIsCause'
  BY <1>29 DEF SetError, ResultIsCause
<1>30. ASSUME NEW t \in Threads, SetProgressError(t) PROVE ResultIsCause'
  BY <1>30 DEF SetProgressError, ResultIsCause
<1>31. ASSUME NEW t \in Threads, FailReading(t) PROVE ResultIsCause'
  BY <1>31 DEF FailReading, ResultIsCause
<1>32. ASSUME NEW t \in Threads, FailWriting(t) PROVE ResultIsCause'
  BY <1>32 DEF FailWriting, ResultIsCause
<1>33. CASE UNCHANGED vars
  BY <1>33 DEF ResultIsCause
<1> QED
  BY <1>1, <1>2, <1>3, <1>4, <1>5, <1>6, <1>7, <1>8, <1>9, <1>10, <1>11, <1>12, <1>13, <1>14, <1>15, <1>16,
     <1>17, <1>18, <1>19, <1>20, <1>21, <1>22, <1>23, <1>24, <1>25, <1>26, <1>27, <1>28, <1>29, <1>30, <1>31,
     <1>32, <1>33 DEF Next, Caller, Thread

-----------------------------------------------------------------------------
\* The events that a thread waits for or sets are open: it is awake only in the wait of
\* MtCoder_Code(), which closes them after it.
LEMMA OpenInvariant ==
  ASSUME Phase, Ready
  PROVE  EventsOpen
BY NextType DEF Phase, Ready, Awaited, EventsOpen

\* MtCoder_Construct() establishes the invariant.
LEMMA InitInvariant == Init => IInv
<1> SUFFICES ASSUME Init PROVE IInv
  OBVIOUS
<1>1. Types
  BY SizesAssumption DEF Init, All, Types, Labels, Failures
<1>2. Phase /\ Ready
  BY DEF Init, All, Phase, Ready, Active, Awaited
<1>3. ReadToken /\ WriteToken
  BY DEF Init, ReadToken, WriteToken
<1>4. Causes /\ ResultIsCause
  BY DEF Init, All, Causes, ResultIsCause
<1> QED
  BY <1>1, <1>2, <1>3, <1>4, OpenInvariant DEF IInv, TypeOK

\* Every step preserves it.
LEMMA StepInvariant == IInv /\ [Next]_vars => IInv'
<1> SUFFICES ASSUME IInv, [Next]_vars PROVE IInv'
  OBVIOUS
<1>1. Types' /\ Phase' /\ Ready'
  BY TypesStep, PhaseStep, ReadyStep
<1>2. ReadToken' /\ WriteToken' /\ Causes' /\ ResultIsCause'
  BY ReadTokenStep, WriteTokenStep, CausesStep, ResultStep
<1>3. EventsOpen'
  BY <1>1, NextType DEF Phase, Ready, Awaited, EventsOpen
<1> QED
  BY <1>1, <1>2, <1>3 DEF IInv, TypeOK

\* IInv is an invariant of MtCoder_Code() with any number of threads.
THEOREM Invariant == Spec => []IInv
<1> QED
  BY InitInvariant, StepInvariant, PTL DEF Spec

\* Types, and no thread ever waits for or sets an event that MtCoder_Code() has closed.
THEOREM TypeCorrect == Spec => []TypeOK
<1>1. IInv => TypeOK
  BY DEF IInv
<1> QED
  BY <1>1, Invariant, PTL

\* MtThread_Process() reads the input, and writes the output, in one thread at a time.
THEOREM Exclusive == Spec => []StreamsExclusive
<1>1. IInv => StreamsExclusive
  <2> SUFFICES ASSUME IInv, NEW t \in Threads, NEW u \in Threads,
                      pc[t] = pc[u], pc[t] \in {"read", "write"}
               PROVE  t = u
    BY DEF StreamsExclusive
  <2>1. mpc = "wait"
    BY DEF IInv, Phase, Active, Awaited
  <2>2. CASE pc[t] = "read"
    BY <2>1, <2>2 DEF IInv, ReadToken, HandRead
  <2>3. CASE pc[t] = "write"
    BY <2>1, <2>3 DEF IInv, WriteToken, HandWrite
  <2> QED
    BY <2>2, <2>3
<1> QED
  BY <1>1, Invariant, PTL

\* MtCoder_Code() returns an error that occurred, and SZ_OK only if none did.
THEOREM Cause == Spec => []ResultIsCause
<1>1. IInv => ResultIsCause
  BY DEF IInv
<1> QED
  BY <1>1, Invariant, PTL

\* When MtCoder_Code() has returned, no thread runs and no event of its is signaled.
THEOREM Nobody == Spec => []NobodyLeft
<1>1. IInv => NobodyLeft
  BY DEF IInv, Phase, Awaited, NobodyLeft
<1> QED
  BY <1>1, Invariant, PTL
-----------------------------------------------------------------------------
(***************************************************************************)
(* MtCoder implements OrderedPipe.  Its tokens go around the ring, so that *)
(* the threads take turns: block n + 1 is read, and written, by thread     *)
(* n % numThreads.                                                         *)
(***************************************************************************)

(***************************************************************************)
(* Whose turn it is.  The thread that holds the live token to read reads   *)
(* block taken + 1, and there is one.                                      *)
(***************************************************************************)
Turn(n) == n % NumThreads

Reading ==
  /\ taken <= total
  /\ \A t \in Threads :
       /\ EventRead(t) \/ (pc[t] = "testStop" /\ ~stopReading[t]) \/ pc[t] = "read" =>
            taken < total /\ t = Turn(taken)
       /\ pc[t] = "tellStop" => block[t] = taken /\ (stop[t] <=> taken = total)
       /\ pc[t] = "giveRead" /\ ~stopReading[NextThread(t)] => block[t] = taken /\ taken < total

\* A thread has a block between reading it and having written it, unless it fails.
HasBlock(t) == pc[t] \in {"tellStop", "giveRead", "code", "waitWrite", "testWrite", "write"}
Failed(t) ==
  \/ pc[t] = "setError"
  \/ /\ res # "ok"
     /\ pc[t] \in {"setProgress", "failReading", "failWriting", "failRead", "failWrite", "finish", "none", "wait"}
     /\ ~startEvent[t]

(***************************************************************************)
(* The blocks that were read and not written are each with the thread      *)
(* whose turn it was to read it, or it failed, and reads none any more.    *)
(***************************************************************************)
Pending ==
  /\ Len(written) <= taken
  /\ \A t \in Threads : HasBlock(t) =>
       \E n \in Nat : block[t] = n + 1 /\ t = Turn(n) /\ Len(written) <= n /\ n < taken
  /\ \A n \in Nat : Len(written) <= n /\ n < taken =>
       \/ HasBlock(Turn(n)) /\ block[Turn(n)] = n + 1
       \/ Failed(Turn(n))

\* The thread that holds the live token to write writes the next block.
Writing ==
  \A t \in Threads :
    /\ EventWrite(t) \/ (pc[t] = "testWrite" /\ ~stopWriting[t]) \/ pc[t] = "write" => t = Turn(Len(written))
    /\ pc[t] = "giveWrite" => NextThread(t) = Turn(Len(written))

\* Without an error, no thread ends before the last block was read.
Runs(t) ==
  /\ ~stopReading[t]
  /\ \/ pc[t] = "wait" /\ startEvent[t]
     \/ pc[t] \in {"waitRead", "testStop", "read"}
     \/ (HasBlock(t) \/ pc[t] = "giveWrite") /\ ~stop[t]
GoesOn ==
  mres = "ok" =>
    /\ started = NumThreads
    /\ taken < total /\ res = "ok" /\ (\A t \in Threads : pc[t] # "setError") => \A t \in Threads : Runs(t)

Order ==
  /\ mpc = "wait" => Reading /\ Pending /\ Writing /\ GoesOn
  /\ mpc \in {"create", "start"} => taken = 0 /\ total > 0 /\ written = <<>>

-----------------------------------------------------------------------------
\* The remainder is unique.
LEMMA Remainder ==
  ASSUME NEW n \in Nat \ {0}, NEW q \in Int, NEW r \in 0..n - 1
  PROVE  (n * q + r) % n = r
<1> DEFINE a == n * q + r  p == a \div n
<1>1. a \in Int /\ p \in Int /\ a % n \in 0..n - 1
  OBVIOUS
<1>2. a = n * p + (a % n)
  OBVIOUS
<1>3. n * (q - p) = (a % n) - r
  BY <1>1, <1>2
<1>4. CASE q = p
  BY <1>2, <1>4
<1>5. CASE q > p
  <2>1. n * (q - p) >= n
    BY <1>1, <1>5
  <2> QED
    BY <1>1, <1>3, <2>1
<1>6. CASE q < p
  <2>1. n * (q - p) <= -n
    BY <1>1, <1>6
  <2> QED
    BY <1>1, <1>3, <2>1
<1> QED
  BY <1>1, <1>4, <1>5, <1>6

\* The turn goes around as the tokens do (GET_NEXT_THREAD).
LEMMA Turns ==
  ASSUME NEW n \in Nat
  PROVE  Turn(n) \in Threads /\ NextThread(Turn(n)) = Turn(n + 1)
<1> DEFINE N == NumThreads  q == n \div N  r == n % N
<1>1. N \in Nat \ {0}
  BY SizesAssumption
<1>2. q \in Int /\ r \in 0..N - 1
  BY <1>1
<1>3. n = N * q + r
  BY <1>1
<1> HIDE DEF N, q, r
<1>4. CASE r = N - 1
  <2>1. n + 1 = N * (q + 1) + 0
    BY <1>1, <1>2, <1>3, <1>4
  <2>2. (n + 1) % N = 0
    <3>1. 0 \in 0..N - 1 /\ q + 1 \in Int
      BY <1>1, <1>2
    <3>2. (N * (q + 1) + 0) % N = 0
      BY <1>1, <3>1, Remainder, Zenon
    <3> QED
      BY <2>1, <3>2, Zenon
  <2> QED
    BY <1>1, <1>2, <1>4, <2>2 DEF Turn, NextThread, Threads, N, r
<1>5. CASE r # N - 1
  <2>1. n + 1 = N * q + (r + 1) /\ r + 1 \in 0..N - 1
    BY <1>1, <1>2, <1>3, <1>5
  <2>2. (n + 1) % N = r + 1
    BY <1>1, <1>2, <2>1, Remainder
  <2> QED
    BY <1>1, <1>2, <1>5, <2>2 DEF Turn, NextThread, Threads, N, r
<1> QED
  BY <1>4, <1>5

\* After a round it is the same thread's turn.
LEMMA RoundTurn ==
  ASSUME NEW n \in Nat
  PROVE  Turn(n + NumThreads) = Turn(n)
<1> DEFINE N == NumThreads  q == n \div N  r == n % N
<1>1. N \in Nat \ {0}
  BY SizesAssumption
<1>2. q \in Int /\ r \in 0..N - 1 /\ n = N * q + r
  BY <1>1
<1> HIDE DEF N, q, r
<1>3. n + N = N * (q + 1) + r /\ q + 1 \in Int
  BY <1>1, <1>2
<1>4. (n + N) % N = r
  BY <1>1, <1>2, <1>3, Remainder
<1> QED
  BY <1>4 DEF Turn, N, r

\* While MtCoder_Code() waits, it is the threads that act.
LEMMA WaitSteps ==
  ASSUME [Next]_vars, mpc = "wait", mpc' = "wait"
  PROVE  UNCHANGED vars \/ WaitSubThread \/ \E t \in Threads : Thread(t)
BY DEF Next, Caller, MtCoder_Code, Called, MtCoder_Destruct, PrepareFails, CreateThreads, CreateFails, Start,
       StartFails, StartSubThreads, Close, ReturnAtOnce

\* A thread that reads the last block notes that it has to stop.
LEMMA ReadStops ==
  ASSUME NEW t \in Threads, stop \in [Threads -> BOOLEAN], Read(t)
  PROVE  stop'[t] <=> taken + 1 >= total
BY Zenon DEF Read

\* The token to read goes to the thread whose turn it is.
LEMMA ReadingStep ==
  ASSUME IInv, Order, [Next]_vars, mpc = "wait", mpc' = "wait"
  PROVE  Reading'
<1>0. Reading /\ ReadToken /\ mpc = "wait"
  BY DEF IInv, Order
<1>a. /\ pc \in [Threads -> Labels] /\ block \in [Threads -> Nat] /\ stop \in [Threads -> BOOLEAN]
      /\ stopReading \in [Threads -> BOOLEAN] /\ stopWriting \in [Threads -> BOOLEAN]
      /\ startEvent \in [Threads -> BOOLEAN]
      /\ canRead \in [Threads -> {"closed", "unset", "set"}] /\ canWrite \in [Threads -> {"closed", "unset", "set"}]
      /\ total \in Nat /\ taken \in Nat /\ written \in Seq(Nat)
  BY DEF IInv, TypeOK, Types
<1>b. Turn(taken) \in Threads /\ NextThread(Turn(taken)) = Turn(taken + 1)
  BY <1>a, Turns
<1>c. \A t, u \in Threads : NextThread(t) \in Threads /\ (NextThread(t) = NextThread(u) => t = u)
  BY NextType, NextInjective
<1>d. \A t \in Threads : HasBlock(t) => t = Turn(block[t] - 1) /\ NextThread(t) = Turn(block[t])
  <2>1. ASSUME NEW t \in Threads, HasBlock(t), NEW n \in Nat, block[t] = n + 1, t = Turn(n)
        PROVE  t = Turn(block[t] - 1) /\ NextThread(t) = Turn(block[t])
    <3>1. block[t] - 1 = n
      BY <2>1
    <3> QED
      BY <2>1, <3>1, Turns
  <2> QED
    BY <2>1 DEF Order, Pending
<1> USE <1>0, <1>a, <1>b, <1>c, <1>d DEF Reading, ReadToken, EventRead, HandRead, ReadsNoMore, HasBlock
<1>1. CASE UNCHANGED vars
  BY <1>1, <1>0 DEF vars, main, errors, loops, events, flags, local, streams
<1>2. CASE WaitSubThread
  BY <1>2, <1>0 DEF WaitSubThread, errors, events, flags, local, streams
<1>3. ASSUME NEW t \in Threads, WakeUp(t) PROVE Reading'
  BY <1>3, <1>0 DEF WakeUp, Goto, main, errors, events, flags, local, streams
<1>4. ASSUME NEW t \in Threads, WaitRead(t) PROVE Reading'
  BY <1>4, <1>0 DEF WaitRead, Goto, main, errors, loops, flags, streams
<1>5. ASSUME NEW t \in Threads, TestStop(t) PROVE Reading'
  BY <1>5, <1>0 DEF TestStop, Goto, main, errors, loops, events, flags, local, streams
<1>6. ASSUME NEW t \in Threads, PassStop(t) PROVE Reading'
  BY <1>6, <1>0 DEF PassStop, Goto, main, errors, loops, events, local, streams
<1>7. ASSUME NEW t \in Threads, Read(t) PROVE Reading'
  <2>1. taken < total /\ t = Turn(taken)
    BY <1>7 DEF Read
  <2>2. /\ pc' = [pc EXCEPT ![t] = "tellStop"]
        /\ taken' = taken + 1 /\ block'[t] = taken'
        /\ UNCHANGED <<canRead, stopReading, total>>
        /\ \A u \in Threads \ {t} : block'[u] = block[u] /\ stop'[u] = stop[u]
    BY <1>7 DEF Read, Goto, main, errors, loops, events, flags
  <2>3. stop'[t] <=> taken' = total'
    <3>1. stop'[t] <=> taken + 1 >= total
      BY <1>7, ReadStops
    <3>2. taken + 1 >= total <=> taken + 1 = total
      BY <2>1
    <3> QED
      BY <2>2, <3>1, <3>2
  <2>4. \A u \in Threads : ~EventRead(u) /\ (HandRead(u) => u = t)
    BY <1>7 DEF Read
  <2> QED
    BY <2>1, <2>2, <2>3, <2>4
<1>8. ASSUME NEW t \in Threads, TellStop(t) PROVE Reading'
  BY <1>8, <1>0 DEF TellStop, Goto, main, errors, loops, events, local, streams
<1>9. ASSUME NEW t \in Threads, GiveRead(t) PROVE Reading'
  BY <1>9, <1>0 DEF GiveRead, Goto, SetEvent, main, errors, loops, flags, local, streams
<1>10. ASSUME NEW t \in Threads, Code(t) PROVE Reading'
  BY <1>10, <1>0 DEF Code, Goto, main, errors, loops, events, flags, local, streams
<1>11. ASSUME NEW t \in Threads, WaitWrite(t) PROVE Reading'
  BY <1>11, <1>0 DEF WaitWrite, Goto, main, errors, loops, flags, local, streams
<1>12. ASSUME NEW t \in Threads, TestWrite(t) PROVE Reading'
  BY <1>12, <1>0 DEF TestWrite, Goto, main, errors, loops, events, flags, local, streams
<1>13. ASSUME NEW t \in Threads, Write(t) PROVE Reading'
  BY <1>13, <1>0 DEF Write, Goto, main, errors, loops, events, flags, local
<1>14. ASSUME NEW t \in Threads, GiveWrite(t) PROVE Reading'
  BY <1>14, <1>0 DEF GiveWrite, Goto, SetEvent, main, errors, loops, flags, local, streams
<1>15. ASSUME NEW t \in Threads, Finish(t) PROVE Reading'
  BY <1>15, <1>0 DEF Finish, Goto, main, errors, events, flags, streams
<1>16. ASSUME NEW t \in Threads, ReadFails(t) PROVE Reading'
  BY <1>16, <1>0 DEF ReadFails, Goto, main, loops, events, flags, streams
<1>17. ASSUME NEW t \in Threads, CodeFails(t) PROVE Reading'
  BY <1>17, <1>0 DEF CodeFails, Goto, main, loops, events, flags, streams
<1>18. ASSUME NEW t \in Threads, ProgressFails(t) PROVE Reading'
  BY <1>18, <1>0 DEF ProgressFails, Goto, main, loops, events, flags, streams
<1>19. ASSUME NEW t \in Threads, StoppedWriting(t) PROVE Reading'
  BY <1>19, <1>0 DEF StoppedWriting, Goto, main, errors, loops, events, flags, streams
<1>20. ASSUME NEW t \in Threads, WriteFails(t) PROVE Reading'
  BY <1>20, <1>0 DEF WriteFails, Goto, main, loops, events, flags, streams
<1>21. ASSUME NEW t \in Threads, SetError(t) PROVE Reading'
  BY <1>21, <1>0 DEF SetError, Goto, main, loops, events, flags, local, streams
<1>22. ASSUME NEW t \in Threads, SetProgressError(t) PROVE Reading'
  BY <1>22, <1>0 DEF SetProgressError, Goto, main, loops, events, flags, local, streams
<1>23. ASSUME NEW t \in Threads, FailReading(t) PROVE Reading'
  BY <1>23, <1>0 DEF FailReading, Goto, main, errors, loops, events, local, streams
<1>24. ASSUME NEW t \in Threads, FailWriting(t) PROVE Reading'
  BY <1>24, <1>0 DEF FailWriting, Goto, main, errors, loops, events, local, streams
<1> QED
  BY <1>1, <1>2, <1>3, <1>4, <1>5, <1>6, <1>7, <1>8, <1>9, <1>10, <1>11, <1>12, <1>13, <1>14, <1>15,
    <1>16, <1>17, <1>18, <1>19, <1>20, <1>21, <1>22, <1>23, <1>24, WaitSteps DEF Thread

\* The token to write goes to the thread whose block is the next.
LEMMA WritingStep ==
  ASSUME IInv, Order, [Next]_vars, mpc = "wait", mpc' = "wait"
  PROVE  Writing'
<1>0. Writing /\ WriteToken /\ mpc = "wait"
  BY DEF IInv, Order
<1>a. /\ pc \in [Threads -> Labels] /\ block \in [Threads -> Nat] /\ stop \in [Threads -> BOOLEAN]
      /\ stopReading \in [Threads -> BOOLEAN] /\ stopWriting \in [Threads -> BOOLEAN]
      /\ startEvent \in [Threads -> BOOLEAN]
      /\ canRead \in [Threads -> {"closed", "unset", "set"}] /\ canWrite \in [Threads -> {"closed", "unset", "set"}]
      /\ total \in Nat /\ taken \in Nat /\ written \in Seq(Nat)
  BY DEF IInv, TypeOK, Types
<1>b. /\ Len(written) \in Nat /\ NextThread(Turn(Len(written))) = Turn(Len(written) + 1)
      /\ \A n : Len(Append(written, n)) = Len(written) + 1
  BY <1>a, Turns
<1>c. \A t, u \in Threads : NextThread(t) \in Threads /\ (NextThread(t) = NextThread(u) => t = u)
  BY NextType, NextInjective
<1> USE <1>0, <1>a, <1>b, <1>c DEF Writing, WriteToken, EventWrite, HandWrite
<1>1. CASE UNCHANGED vars
  BY <1>1, <1>0 DEF vars, main, errors, loops, events, flags, local, streams
<1>2. CASE WaitSubThread
  BY <1>2, <1>0 DEF WaitSubThread, errors, events, flags, local, streams
<1>3. ASSUME NEW t \in Threads, WakeUp(t) PROVE Writing'
  BY <1>3, <1>0 DEF WakeUp, Goto, main, errors, events, flags, local, streams
<1>4. ASSUME NEW t \in Threads, WaitRead(t) PROVE Writing'
  BY <1>4, <1>0 DEF WaitRead, Goto, main, errors, loops, flags, streams
<1>5. ASSUME NEW t \in Threads, TestStop(t) PROVE Writing'
  BY <1>5, <1>0 DEF TestStop, Goto, main, errors, loops, events, flags, local, streams
<1>6. ASSUME NEW t \in Threads, PassStop(t) PROVE Writing'
  BY <1>6, <1>0 DEF PassStop, Goto, main, errors, loops, events, local, streams
<1>7. ASSUME NEW t \in Threads, Read(t) PROVE Writing'
  BY <1>7, <1>0 DEF Read, Goto, main, errors, loops, events, flags
<1>8. ASSUME NEW t \in Threads, TellStop(t) PROVE Writing'
  BY <1>8, <1>0 DEF TellStop, Goto, main, errors, loops, events, local, streams
<1>9. ASSUME NEW t \in Threads, GiveRead(t) PROVE Writing'
  BY <1>9, <1>0 DEF GiveRead, Goto, SetEvent, main, errors, loops, flags, local, streams
<1>10. ASSUME NEW t \in Threads, Code(t) PROVE Writing'
  BY <1>10, <1>0 DEF Code, Goto, main, errors, loops, events, flags, local, streams
<1>11. ASSUME NEW t \in Threads, WaitWrite(t) PROVE Writing'
  BY <1>11, <1>0 DEF WaitWrite, Goto, main, errors, loops, flags, local, streams
<1>12. ASSUME NEW t \in Threads, TestWrite(t) PROVE Writing'
  BY <1>12, <1>0 DEF TestWrite, Goto, main, errors, loops, events, flags, local, streams
<1>13. ASSUME NEW t \in Threads, Write(t) PROVE Writing'
  BY <1>13, <1>0 DEF Write, Goto, main, errors, loops, events, flags, local
<1>14. ASSUME NEW t \in Threads, GiveWrite(t) PROVE Writing'
  BY <1>14, <1>0 DEF GiveWrite, Goto, SetEvent, main, errors, loops, flags, local, streams
<1>15. ASSUME NEW t \in Threads, Finish(t) PROVE Writing'
  BY <1>15, <1>0 DEF Finish, Goto, main, errors, events, flags, streams
<1>16. ASSUME NEW t \in Threads, ReadFails(t) PROVE Writing'
  BY <1>16, <1>0 DEF ReadFails, Goto, main, loops, events, flags, streams
<1>17. ASSUME NEW t \in Threads, CodeFails(t) PROVE Writing'
  BY <1>17, <1>0 DEF CodeFails, Goto, main, loops, events, flags, streams
<1>18. ASSUME NEW t \in Threads, ProgressFails(t) PROVE Writing'
  BY <1>18, <1>0 DEF ProgressFails, Goto, main, loops, events, flags, streams
<1>19. ASSUME NEW t \in Threads, StoppedWriting(t) PROVE Writing'
  BY <1>19, <1>0 DEF StoppedWriting, Goto, main, errors, loops, events, flags, streams
<1>20. ASSUME NEW t \in Threads, WriteFails(t) PROVE Writing'
  BY <1>20, <1>0 DEF WriteFails, Goto, main, loops, events, flags, streams
<1>21. ASSUME NEW t \in Threads, SetError(t) PROVE Writing'
  BY <1>21, <1>0 DEF SetError, Goto, main, loops, events, flags, local, streams
<1>22. ASSUME NEW t \in Threads, SetProgressError(t) PROVE Writing'
  BY <1>22, <1>0 DEF SetProgressError, Goto, main, loops, events, flags, local, streams
<1>23. ASSUME NEW t \in Threads, FailReading(t) PROVE Writing'
  BY <1>23, <1>0 DEF FailReading, Goto, main, errors, loops, events, local, streams
<1>24. ASSUME NEW t \in Threads, FailWriting(t) PROVE Writing'
  BY <1>24, <1>0 DEF FailWriting, Goto, main, errors, loops, events, local, streams
<1> QED
  BY <1>1, <1>2, <1>3, <1>4, <1>5, <1>6, <1>7, <1>8, <1>9, <1>10, <1>11, <1>12, <1>13, <1>14, <1>15,
    <1>16, <1>17, <1>18, <1>19, <1>20, <1>21, <1>22, <1>23, <1>24, WaitSteps DEF Thread

(***************************************************************************)
(* The steps that read and write nothing: a block is given up only by a    *)
(* thread that fails.                                                      *)
(***************************************************************************)
Kept ==
  /\ UNCHANGED <<taken, written>>
  /\ \A u \in Threads :
       /\ HasBlock(u)' => HasBlock(u)
       /\ HasBlock(u) => block'[u] = block[u] /\ (HasBlock(u)' \/ Failed(u)')
       /\ Failed(u) => Failed(u)'

\* A block is read by the thread whose turn it is, which has none, and written by it.
LEMMA PendingStep ==
  ASSUME IInv, Order, [Next]_vars, mpc = "wait", mpc' = "wait"
  PROVE  Pending'
<1>0. Pending /\ Reading /\ Writing /\ Phase /\ Causes /\ mpc = "wait"
  BY DEF IInv, Order
<1>a. /\ pc \in [Threads -> Labels] /\ block \in [Threads -> Nat] /\ stop \in [Threads -> BOOLEAN]
      /\ stopReading \in [Threads -> BOOLEAN] /\ stopWriting \in [Threads -> BOOLEAN]
      /\ startEvent \in [Threads -> BOOLEAN]
      /\ canRead \in [Threads -> {"closed", "unset", "set"}] /\ canWrite \in [Threads -> {"closed", "unset", "set"}]
      /\ total \in Nat /\ taken \in Nat /\ written \in Seq(Nat)
      /\ res \in Failures \union {"ok", "fail"} /\ err \in [Threads -> Failures \union {"ok", "fail"}]
  BY DEF IInv, TypeOK, Types
<1>b. Len(written) \in Nat /\ taken \in Nat /\ \A n : Len(Append(written, n)) = Len(written) + 1
  BY <1>a
<1>c. \A n \in Nat : Turn(n) \in Threads
  BY Turns
<1>d. Kept => Pending'
  <2> SUFFICES ASSUME Kept PROVE Pending'
    OBVIOUS
  <2>1. ASSUME NEW u \in Threads, HasBlock(u)'
        PROVE  \E n \in Nat : block'[u] = n + 1 /\ u = Turn(n) /\ Len(written') <= n /\ n < taken'
    BY <1>0, <2>1 DEF Kept, Pending
  <2>2. ASSUME NEW n \in Nat, Len(written') <= n, n < taken'
        PROVE  (HasBlock(Turn(n))' /\ block'[Turn(n)] = n + 1) \/ Failed(Turn(n))'
    BY <1>0, <1>c, <2>2 DEF Kept, Pending
  <2> QED
    BY <1>0, <2>1, <2>2 DEF Pending, Kept, Turn
<1> USE <1>0, <1>a, <1>b
<1>1. CASE UNCHANGED vars
  <2>1. Kept
    BY <1>1 DEF Kept, HasBlock, Failed, vars, main, errors, loops, events, flags, local, streams
  <2> QED
    BY <1>d, <2>1
<1>2. CASE WaitSubThread
  <2>1. Kept
    BY <1>2 DEF Kept, HasBlock, Failed, WaitSubThread, errors, events, flags, local, streams
  <2> QED
    BY <1>d, <2>1
<1>3. ASSUME NEW t \in Threads, WakeUp(t) PROVE Pending'
  <2>1. Kept
    BY <1>3 DEF Kept, HasBlock, Failed, WakeUp, Goto, main, errors, events, flags, local, streams
  <2> QED
    BY <1>d, <2>1
<1>4. ASSUME NEW t \in Threads, WaitRead(t) PROVE Pending'
  <2>1. Kept
    BY <1>4 DEF Kept, HasBlock, Failed, WaitRead, Goto, main, errors, loops, flags, streams
  <2> QED
    BY <1>d, <2>1
<1>5. ASSUME NEW t \in Threads, TestStop(t) PROVE Pending'
  <2>1. Kept
    BY <1>5 DEF Kept, HasBlock, Failed, TestStop, Goto, main, errors, loops, events, flags, local,
      streams
  <2> QED
    BY <1>d, <2>1
<1>6. ASSUME NEW t \in Threads, PassStop(t) PROVE Pending'
  <2>1. Kept
    BY <1>6 DEF Kept, HasBlock, Failed, PassStop, Goto, main, errors, loops, events, local, streams
  <2> QED
    BY <1>d, <2>1
<1>7. ASSUME NEW t \in Threads, Read(t) PROVE Pending'
  <2>1. taken < total /\ t = Turn(taken) /\ ~Failed(t) /\ ~HasBlock(t) /\ HasBlock(t)'
    BY <1>7 DEF Read, Goto, Reading, HasBlock, Failed
  <2>2. /\ taken' = taken + 1 /\ written' = written /\ block'[t] = taken + 1
        /\ \A u \in Threads \ {t} : block'[u] = block[u]
    BY <1>7 DEF Read, streams
  <2>3. \A u \in Threads \ {t} : (HasBlock(u)' <=> HasBlock(u)) /\ (Failed(u)' <=> Failed(u))
    BY <1>7 DEF HasBlock, Failed, Read, Goto, main, errors, loops, events, flags
  <2>4. ASSUME NEW u \in Threads, HasBlock(u)'
        PROVE  \E n \in Nat : block'[u] = n + 1 /\ u = Turn(n) /\ Len(written') <= n /\ n < taken'
    <3>1. CASE u = t
      BY <2>1, <2>2, <3>1 DEF Pending
    <3>2. CASE u # t
      <4>1. PICK n \in Nat : block[u] = n + 1 /\ u = Turn(n) /\ Len(written) <= n /\ n < taken
        BY <2>3, <2>4, <3>2 DEF Pending
      <4>2. block'[u] = n + 1 /\ Len(written') <= n /\ n < taken'
        BY <2>2, <3>2, <4>1
      <4> QED
        BY <4>1, <4>2
    <3> QED
      BY <3>1, <3>2
  <2>5. ASSUME NEW n \in Nat, Len(written') <= n, n < taken'
        PROVE  (HasBlock(Turn(n))' /\ block'[Turn(n)] = n + 1) \/ Failed(Turn(n))'
    <3>1. CASE n = taken
      BY <2>1, <2>2, <3>1
    <3>2. CASE n # taken
      <4>1. (HasBlock(Turn(n)) /\ block[Turn(n)] = n + 1) \/ Failed(Turn(n))
        BY <2>2, <2>5, <3>2 DEF Pending
      <4> QED
        BY <1>c, <2>1, <2>2, <2>3, <4>1
    <3> QED
      BY <3>1, <3>2
  <2> QED
    BY <2>2, <2>4, <2>5 DEF Pending, Turn
<1>8. ASSUME NEW t \in Threads, TellStop(t) PROVE Pending'
  <2>1. Kept
    BY <1>8 DEF Kept, HasBlock, Failed, TellStop, Goto, main, errors, loops, events, local, streams
  <2> QED
    BY <1>d, <2>1
<1>9. ASSUME NEW t \in Threads, GiveRead(t) PROVE Pending'
  <2>1. Kept
    BY <1>9 DEF Kept, HasBlock, Failed, GiveRead, Goto, SetEvent, main, errors, loops, flags, local,
      streams
  <2> QED
    BY <1>d, <2>1
<1>10. ASSUME NEW t \in Threads, Code(t) PROVE Pending'
  <2>1. Kept
    BY <1>10 DEF Kept, HasBlock, Failed, Code, Goto, main, errors, loops, events, flags, local,
      streams
  <2> QED
    BY <1>d, <2>1
<1>11. ASSUME NEW t \in Threads, WaitWrite(t) PROVE Pending'
  <2>1. Kept
    BY <1>11 DEF Kept, HasBlock, Failed, WaitWrite, Goto, main, errors, loops, flags, local, streams
  <2> QED
    BY <1>d, <2>1
<1>12. ASSUME NEW t \in Threads, TestWrite(t) PROVE Pending'
  <2>1. Kept
    BY <1>12 DEF Kept, HasBlock, Failed, TestWrite, Goto, main, errors, loops, events, flags, local,
      streams
  <2> QED
    BY <1>d, <2>1
<1>13. ASSUME NEW t \in Threads, Write(t) PROVE Pending'
  <2>1. t = Turn(Len(written)) /\ HasBlock(t) /\ ~HasBlock(t)' /\ ~Failed(t)
    BY <1>13 DEF Write, Goto, Writing, HasBlock, Failed
  <2>2. block[t] = Len(written) + 1 /\ Len(written) < taken
    <3>1. Len(written) < taken
      BY <2>1 DEF Pending
    <3>2. \/ HasBlock(Turn(Len(written))) /\ block[Turn(Len(written))] = Len(written) + 1
          \/ Failed(Turn(Len(written)))
      BY <3>1 DEF Pending
    <3> QED
      BY <2>1, <3>1, <3>2
  <2>3. /\ Len(written') = Len(written) + 1 /\ UNCHANGED <<taken, block>>
    BY <1>13 DEF Write, local
  <2>4. \A u \in Threads \ {t} : (HasBlock(u)' <=> HasBlock(u)) /\ (Failed(u)' <=> Failed(u))
    BY <1>13 DEF HasBlock, Failed, Write, Goto, main, errors, loops, events, flags, local
  <2>5. ASSUME NEW u \in Threads, HasBlock(u)'
        PROVE  \E n \in Nat : block'[u] = n + 1 /\ u = Turn(n) /\ Len(written') <= n /\ n < taken'
    <3>1. u # t
      BY <2>1, <2>5
    <3>2. PICK n \in Nat : block[u] = n + 1 /\ u = Turn(n) /\ Len(written) <= n /\ n < taken
      BY <2>4, <2>5, <3>1 DEF Pending
    <3>3. n # Len(written)
      BY <2>1, <3>1, <3>2
    <3> QED
      BY <2>3, <3>2, <3>3
  <2>6. ASSUME NEW n \in Nat, Len(written') <= n, n < taken'
        PROVE  (HasBlock(Turn(n))' /\ block'[Turn(n)] = n + 1) \/ Failed(Turn(n))'
    <3>1. (HasBlock(Turn(n)) /\ block[Turn(n)] = n + 1) \/ Failed(Turn(n))
      BY <2>3, <2>6 DEF Pending
    <3>2. Turn(n) # t
      BY <2>1, <2>2, <2>3, <2>6, <3>1
    <3> QED
      BY <1>c, <2>3, <2>4, <3>1, <3>2
  <2> QED
    BY <2>2, <2>3, <2>5, <2>6 DEF Pending, Turn
<1>14. ASSUME NEW t \in Threads, GiveWrite(t) PROVE Pending'
  <2>1. Kept
    BY <1>14 DEF Kept, HasBlock, Failed, GiveWrite, Goto, SetEvent, main, errors, loops, flags,
      local, streams
  <2> QED
    BY <1>d, <2>1
<1>15. ASSUME NEW t \in Threads, Finish(t) PROVE Pending'
  <2>1. Kept
    BY <1>15 DEF Kept, HasBlock, Failed, Finish, Goto, main, errors, events, flags, streams
  <2> QED
    BY <1>d, <2>1
<1>16. ASSUME NEW t \in Threads, ReadFails(t) PROVE Pending'
  <2>1. Kept
    BY <1>16 DEF Kept, HasBlock, Failed, ReadFails, Goto, main, loops, events, flags, streams
  <2> QED
    BY <1>d, <2>1
<1>17. ASSUME NEW t \in Threads, CodeFails(t) PROVE Pending'
  <2>1. Kept
    BY <1>17 DEF Kept, HasBlock, Failed, CodeFails, Goto, main, loops, events, flags, streams
  <2> QED
    BY <1>d, <2>1
<1>18. ASSUME NEW t \in Threads, ProgressFails(t) PROVE Pending'
  <2>1. Kept
    BY <1>18 DEF Kept, HasBlock, Failed, ProgressFails, Goto, main, loops, events, flags, streams
  <2> QED
    BY <1>d, <2>1
<1>19. ASSUME NEW t \in Threads, StoppedWriting(t) PROVE Pending'
  <2>1. Kept
    BY <1>19 DEF Kept, HasBlock, Failed, StoppedWriting, Goto, main, errors, loops, events, flags,
      streams
  <2> QED
    BY <1>d, <2>1
<1>20. ASSUME NEW t \in Threads, WriteFails(t) PROVE Pending'
  <2>1. Kept
    BY <1>20 DEF Kept, HasBlock, Failed, WriteFails, Goto, main, loops, events, flags, streams
  <2> QED
    BY <1>d, <2>1
<1>21. ASSUME NEW t \in Threads, SetError(t) PROVE Pending'
  <2>1. Kept
    BY <1>21 DEF Kept, Causes, Phase, Active, HasBlock, Failed, SetError, Goto, main, loops, events,
      flags, local, streams
  <2> QED
    BY <1>d, <2>1
<1>22. ASSUME NEW t \in Threads, SetProgressError(t) PROVE Pending'
  <2>1. Kept
    BY <1>22 DEF Kept, HasBlock, Failed, SetProgressError, Goto, main, loops, events, flags, local,
      streams
  <2> QED
    BY <1>d, <2>1
<1>23. ASSUME NEW t \in Threads, FailReading(t) PROVE Pending'
  <2>1. Kept
    BY <1>23 DEF Kept, HasBlock, Failed, FailReading, Goto, main, errors, loops, events, local,
      streams
  <2> QED
    BY <1>d, <2>1
<1>24. ASSUME NEW t \in Threads, FailWriting(t) PROVE Pending'
  <2>1. Kept
    BY <1>24 DEF Kept, HasBlock, Failed, FailWriting, Goto, main, errors, loops, events, local,
      streams
  <2> QED
    BY <1>d, <2>1
<1> QED
  BY <1>1, <1>2, <1>3, <1>4, <1>5, <1>6, <1>7, <1>8, <1>9, <1>10, <1>11, <1>12, <1>13, <1>14, <1>15,
    <1>16, <1>17, <1>18, <1>19, <1>20, <1>21, <1>22, <1>23, <1>24, WaitSteps DEF Thread

\* Without an error every thread goes on until the last block was read.
LEMMA GoesOnStep ==
  ASSUME IInv, Order, [Next]_vars, mpc = "wait", mpc' = "wait"
  PROVE  GoesOn'
<1>0. GoesOn /\ Reading /\ Causes /\ mpc = "wait"
  BY DEF IInv, Order
<1>a. /\ pc \in [Threads -> Labels] /\ block \in [Threads -> Nat] /\ stop \in [Threads -> BOOLEAN]
      /\ stopReading \in [Threads -> BOOLEAN] /\ stopWriting \in [Threads -> BOOLEAN]
      /\ startEvent \in [Threads -> BOOLEAN]
      /\ canRead \in [Threads -> {"closed", "unset", "set"}] /\ canWrite \in [Threads -> {"closed", "unset", "set"}]
      /\ total \in Nat /\ taken \in Nat /\ written \in Seq(Nat)
      /\ err \in [Threads -> Failures \union {"ok", "fail"}]
  BY DEF IInv, TypeOK, Types
<1>c. \A t, u \in Threads : NextThread(t) \in Threads /\ (NextThread(t) = NextThread(u) => t = u)
  BY NextType, NextInjective
<1> USE <1>0, <1>a, <1>c DEF GoesOn, Runs, HasBlock, Reading
<1>1. CASE UNCHANGED vars
  BY <1>1, <1>0 DEF vars, main, errors, loops, events, flags, local, streams
<1>2. CASE WaitSubThread
  BY <1>2, <1>0 DEF WaitSubThread, errors, events, flags, local, streams
<1>3. ASSUME NEW t \in Threads, WakeUp(t) PROVE GoesOn'
  BY <1>3, <1>0 DEF WakeUp, Goto, main, errors, events, flags, local, streams
<1>4. ASSUME NEW t \in Threads, WaitRead(t) PROVE GoesOn'
  BY <1>4, <1>0 DEF WaitRead, Goto, main, errors, loops, flags, streams
<1>5. ASSUME NEW t \in Threads, TestStop(t) PROVE GoesOn'
  BY <1>5, <1>0 DEF TestStop, Goto, main, errors, loops, events, flags, local, streams
<1>6. ASSUME NEW t \in Threads, PassStop(t) PROVE GoesOn'
  BY <1>6, <1>0 DEF PassStop, Goto, main, errors, loops, events, local, streams
<1>7. ASSUME NEW t \in Threads, Read(t) PROVE GoesOn'
  BY <1>7, <1>0 DEF Read, Goto, main, errors, loops, events, flags
<1>8. ASSUME NEW t \in Threads, TellStop(t) PROVE GoesOn'
  BY <1>8, <1>0 DEF TellStop, Goto, main, errors, loops, events, local, streams
<1>9. ASSUME NEW t \in Threads, GiveRead(t) PROVE GoesOn'
  <2>1. /\ pc[t] \in {"giveRead", "passRead", "failRead"}
        /\ pc' = [pc EXCEPT ![t] = CASE pc[t] = "giveRead" -> "code"
                                      [] pc[t] = "passRead" -> "finish"
                                      [] pc[t] = "failRead" -> "failWrite"]
        /\ UNCHANGED <<main, errors, loops, canWrite, flags, local, streams>>
    BY <1>9 DEF GiveRead, Goto
  <2>2. \A u \in Threads : u # t => pc'[u] = pc[u]
    BY <2>1
  <2>3. pc'[t] \in {"code", "finish", "failWrite"} /\ (pc'[t] = "code" <=> pc[t] = "giveRead")
    BY <2>1
  <2>4. UNCHANGED <<mres, started, taken, total, res, stop, startEvent, stopReading>>
    BY <2>1 DEF main, errors, loops, local, streams, flags
  <2> QED
    BY <2>1, <2>2, <2>3, <2>4
<1>10. ASSUME NEW t \in Threads, Code(t) PROVE GoesOn'
  BY <1>10, <1>0 DEF Code, Goto, main, errors, loops, events, flags, local, streams
<1>11. ASSUME NEW t \in Threads, WaitWrite(t) PROVE GoesOn'
  BY <1>11, <1>0 DEF WaitWrite, Goto, main, errors, loops, flags, local, streams
<1>12. ASSUME NEW t \in Threads, TestWrite(t) PROVE GoesOn'
  BY <1>12, <1>0 DEF TestWrite, Goto, main, errors, loops, events, flags, local, streams
<1>13. ASSUME NEW t \in Threads, Write(t) PROVE GoesOn'
  BY <1>13, <1>0 DEF Write, Goto, main, errors, loops, events, flags, local
<1>14. ASSUME NEW t \in Threads, GiveWrite(t) PROVE GoesOn'
  BY <1>14, <1>0 DEF GiveWrite, Goto, SetEvent, main, errors, loops, flags, local, streams
<1>15. ASSUME NEW t \in Threads, Finish(t) PROVE GoesOn'
  BY <1>15, <1>0 DEF Finish, Goto, main, errors, events, flags, streams
<1>16. ASSUME NEW t \in Threads, ReadFails(t) PROVE GoesOn'
  BY <1>16, <1>0 DEF ReadFails, Goto, main, loops, events, flags, streams
<1>17. ASSUME NEW t \in Threads, CodeFails(t) PROVE GoesOn'
  BY <1>17, <1>0 DEF CodeFails, Goto, main, loops, events, flags, streams
<1>18. ASSUME NEW t \in Threads, ProgressFails(t) PROVE GoesOn'
  BY <1>18, <1>0 DEF ProgressFails, Goto, main, loops, events, flags, streams
<1>19. ASSUME NEW t \in Threads, StoppedWriting(t) PROVE GoesOn'
  BY <1>19, <1>0 DEF StoppedWriting, Goto, main, errors, loops, events, flags, streams
<1>20. ASSUME NEW t \in Threads, WriteFails(t) PROVE GoesOn'
  BY <1>20, <1>0 DEF WriteFails, Goto, main, loops, events, flags, streams
<1>21. ASSUME NEW t \in Threads, SetError(t) PROVE GoesOn'
  BY <1>21 DEF Causes, SetError, Goto, main, loops, events, flags, local, streams
<1>22. ASSUME NEW t \in Threads, SetProgressError(t) PROVE GoesOn'
  BY <1>22, <1>0 DEF SetProgressError, Goto, main, loops, events, flags, local, streams
<1>23. ASSUME NEW t \in Threads, FailReading(t) PROVE GoesOn'
  BY <1>23, <1>0 DEF FailReading, Goto, main, errors, loops, events, local, streams
<1>24. ASSUME NEW t \in Threads, FailWriting(t) PROVE GoesOn'
  BY <1>24, <1>0 DEF FailWriting, Goto, main, errors, loops, events, local, streams
<1> QED
  BY <1>1, <1>2, <1>3, <1>4, <1>5, <1>6, <1>7, <1>8, <1>9, <1>10, <1>11, <1>12, <1>13, <1>14, <1>15,
    <1>16, <1>17, <1>18, <1>19, <1>20, <1>21, <1>22, <1>23, <1>24, WaitSteps DEF Thread

-----------------------------------------------------------------------------
\* MtCoder_Code() gives both tokens to thread 0, whose turn it is.
LEMMA FirstTurn ==
  ASSUME IInv, Order, mpc = "start", NEW k \in 0..NumThreads, StartSubThreads(k),
         Start \/ StartFails(k)
  PROVE  Reading' /\ Pending' /\ Writing' /\ GoesOn'
<1>1. /\ taken' = 0 /\ written' = <<>> /\ total' \in Nat /\ total' > 0 /\ Len(written') = 0
      /\ pc' = pc /\ \A t \in Threads : pc[t] = "wait" /\ canRead[t] = "unset" /\ canWrite[t] = "unset"
      /\ canRead \in [Threads -> {"closed", "unset", "set"}] /\ canWrite \in [Threads -> {"closed", "unset", "set"}]
  BY DEF Order, IInv, TypeOK, Types, Phase, Ready, StartSubThreads, streams
<1>2. Turn(0) = 0 /\ 0 \in Threads
  <2>1. NumThreads \in Nat \ {0}
    BY SizesAssumption
  <2>2. 0 % NumThreads = 0
    BY <2>1
  <2> QED
    BY <2>2, Numbers DEF Turn
<1>3. Reading'
  BY <1>1, <1>2 DEF Reading, EventRead, StartSubThreads
<1>4. Pending'
  BY <1>1 DEF Pending, HasBlock
<1>5. Writing'
  BY <1>1, <1>2 DEF Writing, EventWrite, StartSubThreads
<1>6. GoesOn'
  <2>1. CASE Start
    <3>1. /\ stopReading' = stopReading /\ \A t \in Threads : ~stopReading[t]
          /\ started' = NumThreads /\ \A t \in Threads : startEvent'[t]
      BY <2>1, Numbers DEF Start, StartSubThreads, IInv, Ready
    <3> QED
      BY <1>1, <3>1 DEF GoesOn, Runs
  <2>2. CASE StartFails(k)
    BY <2>2 DEF GoesOn, StartFails
  <2> QED
    BY <2>1, <2>2
<1> QED
  BY <1>3, <1>4, <1>5, <1>6

\* Before the first call there is nothing to keep in order.
LEMMA OrderInit == Init => Order
BY DEF Init, Order

\* Each step keeps the order.
LEMMA OrderStep == IInv /\ Order /\ [Next]_vars => Order'
<1> SUFFICES ASSUME IInv, Order, [Next]_vars PROVE Order'
  OBVIOUS
<1>1. CASE mpc' = "wait"
  <2>1. CASE mpc = "wait"
    BY <1>1, <2>1, ReadingStep, PendingStep, WritingStep, GoesOnStep DEF Order
  <2>2. CASE mpc # "wait"
    <3>1. mpc = "start" /\ (Start \/ \E k \in Threads : StartFails(k))
      <4>1. ASSUME NEW t \in Threads, Thread(t) PROVE mpc' = mpc
        BY <4>1 DEF Thread, WakeUp, WaitRead, TestStop, PassStop, Read, TellStop, GiveRead, Code, WaitWrite,
          TestWrite, Write, GiveWrite, Finish, ReadFails, CodeFails, ProgressFails, StoppedWriting, WriteFails, SetError,
          SetProgressError, FailReading, FailWriting, main
      <4> QED
        BY <1>1, <2>2, <4>1
        DEF Next, Caller, MtCoder_Code, MtCoder_Destruct, PrepareFails, CreateThreads, CreateFails, Start,
          StartFails, StartSubThreads, WaitSubThread, Close, ReturnAtOnce, vars, main
    <3>2. CASE Start
      <4>1. StartSubThreads(NumThreads) /\ NumThreads \in 0..NumThreads
        BY <3>2, Numbers DEF Start, StartSubThreads
      <4> QED
        BY <1>1, <3>1, <3>2, <4>1, FirstTurn DEF Order
    <3>3. ASSUME NEW k \in Threads, StartFails(k) PROVE Order'
      <4>1. StartSubThreads(k) /\ k \in 0..NumThreads
        BY <3>3, Numbers DEF StartFails, StartSubThreads
      <4> QED
        BY <1>1, <3>1, <3>3, <4>1, FirstTurn DEF Order
    <3> QED
      BY <3>1, <3>2, <3>3
  <2> QED
    BY <2>1, <2>2
<1>2. CASE mpc' \in {"create", "start"}
  <2>1. ASSUME NEW t \in Threads, Thread(t) PROVE mpc # "wait" => ~Active(t) /\ ~startEvent[t]
    BY DEF IInv, Phase, Awaited
  <2>2. ASSUME NEW t \in Threads, Thread(t) PROVE mpc = "wait"
    BY <2>1, <2>2 DEF Thread, WakeUp, WaitRead, TestStop, PassStop, Read, TellStop, GiveRead, Code, WaitWrite,
      TestWrite, Write, GiveWrite, Finish, ReadFails, CodeFails, ProgressFails, StoppedWriting, WriteFails,
      SetError, SetProgressError, FailReading, FailWriting, Active
  <2>3. ASSUME NEW t \in Threads, Thread(t) PROVE mpc' = mpc
    BY <2>3 DEF Thread, WakeUp, WaitRead, TestStop, PassStop, Read, TellStop, GiveRead, Code, WaitWrite, TestWrite,
      Write, GiveWrite, Finish, ReadFails, CodeFails, ProgressFails, StoppedWriting, WriteFails, SetError,
      SetProgressError, FailReading, FailWriting, main
  <2>4. MtCoder_Code \/ CreateThreads \/ UNCHANGED vars
    BY <1>2, <2>2, <2>3
    DEF Next, Caller, MtCoder_Destruct, PrepareFails, CreateFails, Start, StartFails, StartSubThreads, WaitSubThread,
      Close, ReturnAtOnce
  <2>5. MaxBlocks \in Nat
    BY SizesAssumption
  <2> QED
    BY <1>2, <2>4, <2>5 DEF MtCoder_Code, Called, CreateThreads, vars, streams, main, Order
<1> QED
  BY <1>1, <1>2 DEF Order

(***************************************************************************)
(* The invariant of the turns.                                             *)
(***************************************************************************)
THEOREM TakesTurns == Spec => []Order
<1>1. IInv /\ IInv' /\ Order /\ [Next]_vars => Order'
  BY OrderStep
<1> QED
  BY <1>1, OrderInit, Invariant, PTL DEF Spec

-----------------------------------------------------------------------------
\* A call that returns SZ_OK has written every block.
LEMMA EndsWhole ==
  ASSUME IInv, Order, Close, result' = "ok"
  PROVE  Len(written) = total
<1>1. mres = "ok" /\ res = "ok" /\ mpc = "wait" /\ j = started
  BY DEF Close, IInv, Causes
<1>2. Reading /\ Pending /\ GoesOn /\ started = NumThreads
  BY <1>1 DEF Order, GoesOn
<1>3. /\ Len(written) \in Nat /\ taken \in Nat /\ total \in Nat /\ pc \in [Threads -> Labels] /\ 0 \in Threads
  BY Numbers DEF IInv, TypeOK, Types
<1>4. \A t \in Threads : ~Active(t) /\ ~startEvent[t]
  <2>1. \A t \in Threads : ~(j <= t /\ t < started)
    BY <1>1 DEF IInv, TypeOK, Types, Threads
  <2> QED
    BY <2>1 DEF IInv, Phase, Awaited
<1>5. taken = total
  BY <1>1, <1>2, <1>3, <1>4 DEF GoesOn, Reading, Runs, HasBlock, Active
<1>6. ~(Len(written) < taken)
  <2> SUFFICES ASSUME Len(written) < taken PROVE FALSE
    OBVIOUS
  <2>1. Turn(Len(written)) \in Threads
    BY <1>3, Turns
  <2>2. HasBlock(Turn(Len(written))) \/ Failed(Turn(Len(written)))
    BY <1>2, <1>3 DEF Pending
  <2> QED
    BY <1>1, <1>4, <2>1, <2>2 DEF HasBlock, Failed, Active
<1> QED
  BY <1>2, <1>3, <1>5, <1>6 DEF Pending

\* A thread that reads is less than a round ahead, and one that writes does what the pipe does.
LEMMA ThreadStep ==
  ASSUME IInv, Order, mpc = "wait", NEW t \in Threads, Thread(t)
  PROVE  Pipe!Next \/ UNCHANGED Pipe!vars
<1>0. Reading /\ Pending /\ Writing /\ result = "running"
  BY DEF Order, IInv, Causes
<1>1. /\ Len(written) \in Nat /\ taken \in Nat /\ total \in Nat /\ NumThreads \in Nat \ {0}
      /\ block \in [Threads -> Nat] /\ written \in Seq(Nat)
  BY SizesAssumption DEF IInv, TypeOK, Types
<1>2. CASE Read(t)
  <2>1. taken < total /\ t = Turn(taken) /\ ~HasBlock(t) /\ ~Failed(t)
    BY <1>0, <1>2 DEF Read, Reading, HasBlock, Failed
  <2>2. taken - Len(written) < NumThreads
    <3> SUFFICES ASSUME taken >= Len(written) + NumThreads PROVE FALSE
      BY <1>1
    <3> DEFINE n == taken - NumThreads
    <3>1. n \in Nat /\ Len(written) <= n /\ n < taken /\ taken = n + NumThreads
      BY <1>1
    <3> HIDE DEF n
    <3>2. Turn(n) = Turn(taken)
      BY <1>1, <3>1, RoundTurn
    <3>3. HasBlock(Turn(n)) \/ Failed(Turn(n))
      BY <1>0, <3>1 DEF Pending
    <3> QED
      BY <2>1, <3>2, <3>3
  <2>3. Pipe!Take
    BY <1>0, <1>1, <1>2, <2>1, <2>2 DEF Pipe!Take, Read, main
  <2> QED
    BY <2>3 DEF Pipe!Next
<1>3. CASE Write(t)
  <2>1. t = Turn(Len(written)) /\ HasBlock(t) /\ ~Failed(t)
    BY <1>0, <1>3 DEF Write, Writing, HasBlock, Failed
  <2>2. Len(written) < taken
    BY <1>0, <1>1, <2>1 DEF Pending
  <2>3. block[t] = Len(written) + 1
    BY <1>0, <1>1, <2>1, <2>2 DEF Pending
  <2>4. Pipe!Give
    BY <1>0, <1>3, <2>2, <2>3 DEF Pipe!Give, Write, main
  <2> QED
    BY <2>4 DEF Pipe!Next
<1>4. CASE ~Read(t) /\ ~Write(t)
  BY <1>4
  DEF Thread, WakeUp, WaitRead, TestStop, PassStop, TellStop, GiveRead, Code, WaitWrite, TestWrite, GiveWrite,
    Finish, ReadFails, CodeFails, ProgressFails, StoppedWriting, WriteFails, SetError, SetProgressError,
    FailReading, FailWriting, main, streams, Pipe!vars
<1> QED
  BY <1>2, <1>3, <1>4

(***************************************************************************)
(* MtCoder does what OrderedPipe does, however many threads there are: a   *)
(* call begins a pipe, Read takes a block, Write gives the next one out,   *)
(* and Close and ReturnAtOnce end it, with SZ_OK only when it is empty.    *)
(***************************************************************************)
THEOREM Refinement == Spec => ImplementsPipe
<1>1. Init => Pipe!Init
  BY DEF Init, Pipe!Init
<1>2. ASSUME IInv, Order, [Next]_vars PROVE Pipe!Next \/ UNCHANGED Pipe!vars
  <2>1. /\ mpc \in {"idle", "destroyed"} <=> result # "running"
        /\ mpc \in {"close", "return"} => mres # "ok"
        /\ mres # "running" /\ res # "running"
    BY <1>2 DEF IInv, Causes, TypeOK, Types, Failures
  <2>2. ASSUME NEW t \in Threads, Thread(t) PROVE mpc = "wait"
    <3>1. mpc # "wait" => ~Active(t) /\ ~startEvent[t]
      BY <1>2 DEF IInv, Phase, Awaited
    <3> QED
      BY <2>2, <3>1 DEF Thread, WakeUp, WaitRead, TestStop, PassStop, Read, TellStop, GiveRead, Code, WaitWrite,
        TestWrite, Write, GiveWrite, Finish, ReadFails, CodeFails, ProgressFails, StoppedWriting, WriteFails,
        SetError, SetProgressError, FailReading, FailWriting, Active
  <2>3. CASE MtCoder_Code \/ \E k \in Threads : PrepareFails(k)
    BY <2>1, <2>3 DEF MtCoder_Code, PrepareFails, Called, Pipe!Next, Pipe!Begin
  <2>4. CASE Close
    <3>1. result = "running" /\ result' # "running"
      BY <2>1, <2>4 DEF Close
    <3>2. result' = "ok" => Len(written) = total
      BY <1>2, <2>4, EndsWhole
    <3> QED
      BY <2>4, <3>1, <3>2 DEF Close, streams, Pipe!Next, Pipe!End
  <2>5. CASE ReturnAtOnce
    BY <2>1, <2>5 DEF ReturnAtOnce, streams, Pipe!Next, Pipe!End
  <2>6. CASE MtCoder_Destruct \/ CreateThreads \/ Start \/ WaitSubThread \/ UNCHANGED vars
    BY <2>6 DEF MtCoder_Destruct, CreateThreads, Start, StartSubThreads, WaitSubThread, streams, main, vars, Pipe!vars
  <2>7. ASSUME NEW k \in Threads, CreateFails(k) \/ StartFails(k) PROVE UNCHANGED Pipe!vars
    BY <2>7 DEF CreateFails, StartFails, StartSubThreads, streams, Pipe!vars
  <2>8. ASSUME NEW t \in Threads, Thread(t) PROVE Pipe!Next \/ UNCHANGED Pipe!vars
    BY <1>2, <2>2, <2>8, ThreadStep
  <2> QED
    BY <1>2, <2>3, <2>4, <2>5, <2>6, <2>7, <2>8 DEF Next, Caller
<1> QED
  BY <1>1, <1>2, Invariant, TakesTurns, PTL DEF Spec, ImplementsPipe, Pipe!Spec
=============================================================================
