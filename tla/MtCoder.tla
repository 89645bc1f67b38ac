------------------------------- MODULE MtCoder -------------------------------
(***************************************************************************)
(* lzma's MtCoder: MtCoder_Code() runs numThreads threads in a ring.  Two  *)
(* tokens travel around it, the auto-reset events canRead and canWrite: a  *)
(* thread reads a block, passes canRead on, encodes the block while the    *)
(* others work, waits for canWrite, writes the block and passes canWrite   *)
(* on.  The end of the input and errors travel the same way, as the flags  *)
(* stopReading and stopWriting of the next thread.  One action per access  *)
(* to what threads share.                                                  *)
(***************************************************************************)
EXTENDS Naturals, Sequences

CONSTANTS
  NumThreads,   \* mtCoder->numThreads
  MaxBlocks,    \* bound: the blocks an input has, the last of them short
  MaxCalls      \* bound: how often MtCoder_Code() is called

ASSUME SizesAssumption == NumThreads \in Nat \ {0} /\ MaxBlocks \in Nat /\ MaxCalls \in Nat

Threads == 0..NumThreads - 1

VARIABLES
  mpc,           \* where the caller is
  mres,          \* the res of MtCoder_Code()
  j,             \* the thread MtCoder_Code() waits for
  started,       \* threads 0 to started - 1 have been started
  calls,         \* how often MtCoder_Code() was called
  result,        \* "running", or what it returned
  res,           \* p->res
  progressRes,   \* p->mtProgress.res
  pc,            \* what each thread is about to do
  startEvent, finishedEvent,   \* whether they are signaled
  canRead, canWrite,           \* "closed", "unset" or "set"
  stopReading, stopWriting,
  stop,          \* the stop of ThreadFunc()
  err,           \* what MtThread_Process() returned
  block,         \* the block in the thread's buffers
  total, taken,  \* the blocks of the input, and how many were read
  written,       \* the blocks written
  occurred       \* history: the failures of this call that came from outside

main == <<mpc, mres, j, started, calls, result>>
errors == <<res, progressRes, occurred>>
loops == <<startEvent, finishedEvent>>
events == <<canRead, canWrite>>
flags == <<stopReading, stopWriting>>
local == <<stop, err, block>>
streams == <<total, taken, written>>
vars == <<main, errors, pc, loops, events, flags, local, streams>>

All(value) == [t \in Threads |-> value]

Init ==
  /\ mpc = "idle" /\ mres = "ok" /\ j = 0 /\ started = 0 /\ calls = 0 /\ result = "ok"
  /\ res = "ok" /\ progressRes = "ok" /\ occurred = {}
  /\ pc = All("none")
  /\ startEvent = All(FALSE) /\ finishedEvent = All(FALSE)
  /\ canRead = All("closed") /\ canWrite = All("closed")
  /\ stopReading = All(FALSE) /\ stopWriting = All(FALSE)
  /\ stop = All(FALSE) /\ err = All("ok") /\ block = All(0)
  /\ total = 0 /\ taken = 0 /\ written = <<>>

\* GET_NEXT_THREAD
NextThread(t) == IF t = NumThreads - 1 THEN 0 ELSE t + 1

Goto(t, to) == pc' = [pc EXCEPT ![t] = to]

-----------------------------------------------------------------------------
(***************************************************************************)
(* MtCoder_Code().  No thread is running before it starts them, so that    *)
(* its first loops are one step each; each may fail for thread k.          *)
(***************************************************************************)
Prepared(k) ==
  /\ canRead' = [t \in Threads |-> IF t < k THEN "unset" ELSE canRead[t]]
  /\ canWrite' = [t \in Threads |-> IF t < k THEN "unset" ELSE canWrite[t]]
  /\ stopReading' = [t \in Threads |-> t >= k /\ stopReading[t]]
  /\ stopWriting' = [t \in Threads |-> t >= k /\ stopWriting[t]]

Called ==
  /\ mpc = "idle" /\ calls < MaxCalls
  /\ calls' = calls + 1
  /\ res' = "ok" /\ progressRes' = "ok"
  /\ total' \in 1..MaxBlocks /\ taken' = 0 /\ written' = <<>>
  /\ UNCHANGED <<j, started, pc, loops, local>>

MtCoder_Code ==
  /\ Called /\ Prepared(NumThreads)
  /\ mpc' = "create" /\ mres' = "ok" /\ result' = "running" /\ occurred' = {}

\* The function returns at once: the events of the threads before k stay open.
PrepareFails(k) ==
  /\ Called /\ Prepared(k)
  /\ mpc' = "return" /\ mres' = "mem" /\ result' = "running" /\ occurred' = {"mem"}

CreateThreads ==
  /\ mpc = "create" /\ mpc' = "start"
  /\ pc' = [t \in Threads |-> IF pc[t] = "none" THEN "wait" ELSE pc[t]]
  /\ UNCHANGED <<mres, j, started, calls, result, errors, loops, events, flags, local, streams>>

CreateFails(k) ==
  /\ mpc = "create" /\ mpc' = "close"
  /\ pc[k] = "none"
  /\ pc' = [t \in Threads |-> IF pc[t] = "none" /\ t < k THEN "wait" ELSE pc[t]]
  /\ mres' = "thread" /\ occurred' = {"thread"}
  /\ UNCHANGED <<j, started, calls, result, res, progressRes, loops, events, flags, local, streams>>

\* The threads before k are started, and the tokens given to thread 0.
StartSubThreads(k) ==
  /\ mpc = "start" /\ mpc' = "wait"
  /\ started' = k /\ j' = 0
  /\ startEvent' = [t \in Threads |-> t < k]
  /\ canRead' = [canRead EXCEPT ![0] = "set"]
  /\ canWrite' = [canWrite EXCEPT ![0] = "set"]
  /\ UNCHANGED <<calls, result, res, progressRes, pc, finishedEvent, stopWriting, local, streams>>

Start ==
  /\ StartSubThreads(NumThreads)
  /\ UNCHANGED <<mres, stopReading, occurred>>

StartFails(k) ==
  /\ StartSubThreads(k)
  /\ stopReading' = [stopReading EXCEPT ![0] = TRUE]
  /\ mres' = "thread" /\ occurred' = occurred \union {"thread"}

WaitSubThread ==
  /\ mpc = "wait" /\ j < started
  /\ finishedEvent[j]
  /\ finishedEvent' = [finishedEvent EXCEPT ![j] = FALSE]
  /\ j' = j + 1
  /\ UNCHANGED <<mpc, mres, started, calls, result, errors, pc, startEvent, events, flags, local, streams>>

MutClose ==
  /\ \/ mpc = "wait" /\ j + 1 >= started
     \/ mpc = "close"
  /\ canRead' = All("closed") /\ canWrite' = All("closed")
  /\ mpc' = "idle"
  /\ result' = IF mres = "ok" THEN res ELSE mres
  /\ UNCHANGED <<mres, j, started, calls, errors, pc, loops, flags, local, streams>>

Close ==
  /\ \/ mpc = "wait" /\ j = started
     \/ mpc = "close"
  /\ canRead' = All("closed") /\ canWrite' = All("closed")
  /\ mpc' = "idle"
  /\ result' = IF mres = "ok" THEN res ELSE mres
  /\ UNCHANGED <<mres, j, started, calls, errors, pc, loops, flags, local, streams>>

ReturnAtOnce ==
  /\ mpc = "return" /\ mpc' = "idle"
  /\ result' = mres
  /\ UNCHANGED <<mres, j, started, calls, errors, pc, loops, events, flags, local, streams>>

\* MtCoder_Destruct(): each thread is told to stop, and waited for.
MtCoder_Destruct ==
  /\ mpc = "idle" /\ mpc' = "destroyed"
  /\ \A t \in Threads : pc[t] \in {"none", "wait"}
  /\ pc' = All("none")
  /\ canRead' = All("closed") /\ canWrite' = All("closed")
  /\ UNCHANGED <<mres, j, started, calls, result, errors, loops, flags, local, streams>>

-----------------------------------------------------------------------------
(***************************************************************************)
(* LoopThreadFunc() and MtThread_Process().                                *)
(***************************************************************************)
WakeUp(t) ==
  /\ pc[t] = "wait" /\ startEvent[t]
  /\ startEvent' = [startEvent EXCEPT ![t] = FALSE]
  /\ Goto(t, "waitRead")
  /\ UNCHANGED <<main, errors, finishedEvent, events, flags, local, streams>>

WaitRead(t) ==
  /\ pc[t] = "waitRead" /\ canRead[t] = "set"
  /\ canRead' = [canRead EXCEPT ![t] = "unset"]
  /\ stop' = [stop EXCEPT ![t] = TRUE]
  /\ Goto(t, "testStop")
  /\ UNCHANGED <<main, errors, loops, canWrite, flags, err, block, streams>>

TestStop(t) ==
  /\ pc[t] = "testStop"
  /\ Goto(t, IF stopReading[t] THEN "passStop" ELSE "read")
  /\ UNCHANGED <<main, errors, loops, events, flags, local, streams>>

PassStop(t) ==
  /\ pc[t] = "passStop"
  /\ stopReading' = [stopReading EXCEPT ![NextThread(t)] = TRUE]
  /\ Goto(t, "passRead")
  /\ UNCHANGED <<main, errors, loops, events, stopWriting, local, streams>>

\* FullRead() fills the buffer, or reads the last block, which is short.
Read(t) ==
  /\ pc[t] = "read"
  /\ taken' = taken + 1
  /\ block' = [block EXCEPT ![t] = taken + 1]
  /\ stop' = [stop EXCEPT ![t] = taken + 1 >= total]
  /\ Goto(t, "tellStop")
  /\ UNCHANGED <<main, errors, loops, events, flags, err, total, written>>

MutTellStop(t) ==
  /\ pc[t] = "tellStop"
  /\ Goto(t, "giveRead")
  /\ UNCHANGED <<main, errors, loops, events, flags, local, streams>>

TellStop(t) ==
  /\ pc[t] = "tellStop"
  /\ stopReading' = [stopReading EXCEPT ![NextThread(t)] = stop[t]]
  /\ Goto(t, "giveRead")
  /\ UNCHANGED <<main, errors, loops, events, stopWriting, local, streams>>

SetEvent(event, t) == [event EXCEPT ![t] = IF @ = "closed" THEN @ ELSE "set"]

\* canRead is passed on: with the block read, with the end of the input, or after an error.
GiveRead(t) ==
  /\ pc[t] \in {"giveRead", "passRead", "failRead"}
  /\ canRead' = SetEvent(canRead, NextThread(t))
  /\ Goto(t, CASE pc[t] = "giveRead" -> "code"
               [] pc[t] = "passRead" -> "finish"
               [] pc[t] = "failRead" -> "failWrite")
  /\ UNCHANGED <<main, errors, loops, canWrite, flags, local, streams>>

\* The encoder asks mtProgress between the pieces of a block; the last block may be empty.
Code(t) ==
  /\ pc[t] = "code"
  /\ progressRes = "ok" \/ stop[t]
  /\ Goto(t, "waitWrite")
  /\ UNCHANGED <<main, errors, loops, events, flags, local, streams>>

WaitWrite(t) ==
  /\ pc[t] = "waitWrite" /\ canWrite[t] = "set"
  /\ canWrite' = [canWrite EXCEPT ![t] = "unset"]
  /\ Goto(t, "testWrite")
  /\ UNCHANGED <<main, errors, loops, canRead, flags, local, streams>>

TestWrite(t) ==
  /\ pc[t] = "testWrite" /\ ~stopWriting[t]
  /\ Goto(t, "write")
  /\ UNCHANGED <<main, errors, loops, events, flags, local, streams>>

Write(t) ==
  /\ pc[t] = "write"
  /\ written' = Append(written, block[t])
  /\ Goto(t, "giveWrite")
  /\ UNCHANGED <<main, errors, loops, events, flags, local, total, taken>>

MutGiveWrite(t) ==
  /\ pc[t] \in {"giveWrite", "failWrite"}
  /\ canWrite' = IF pc[t] = "giveWrite" THEN SetEvent(canWrite, NextThread(t)) ELSE canWrite
  /\ Goto(t, IF pc[t] = "giveWrite" /\ ~stop[t] THEN "waitRead" ELSE "finish")
  /\ UNCHANGED <<main, errors, loops, canRead, flags, local, streams>>

\* canWrite is passed on: after a block, then ThreadFunc() goes on or ends, or after an error.
GiveWrite(t) ==
  /\ pc[t] \in {"giveWrite", "failWrite"}
  /\ canWrite' = SetEvent(canWrite, NextThread(t))
  /\ Goto(t, IF pc[t] = "giveWrite" /\ ~stop[t] THEN "waitRead" ELSE "finish")
  /\ UNCHANGED <<main, errors, loops, canRead, flags, local, streams>>

Finish(t) ==
  /\ pc[t] = "finish"
  /\ finishedEvent' = [finishedEvent EXCEPT ![t] = TRUE]
  /\ stop' = [stop EXCEPT ![t] = FALSE]
  /\ err' = [err EXCEPT ![t] = "ok"]
  /\ block' = [block EXCEPT ![t] = 0]
  /\ Goto(t, "wait")
  /\ UNCHANGED <<main, errors, startEvent, events, flags, streams>>

-----------------------------------------------------------------------------
(***************************************************************************)
(* Errors.  MtThread_Process() returns one, and ThreadFunc() reports it,   *)
(* first to the caller, and stops the next thread.                         *)
(***************************************************************************)
ReadFails(t) ==
  /\ pc[t] = "read"
  /\ err' = [err EXCEPT ![t] = "read"]
  /\ occurred' = occurred \union {"read"}
  /\ Goto(t, "setError")
  /\ UNCHANGED <<main, res, progressRes, loops, events, flags, stop, block, streams>>

CodeFails(t) ==
  /\ pc[t] = "code"
  /\ err' = [err EXCEPT ![t] = "code"]
  /\ occurred' = occurred \union {"code"}
  /\ Goto(t, "setError")
  /\ UNCHANGED <<main, res, progressRes, loops, events, flags, stop, block, streams>>

\* MtProgress_Set(): the caller's progress function fails, or something failed before.
ProgressFails(t) ==
  /\ pc[t] = "code"
  /\ err' = [err EXCEPT ![t] = "progress"]
  /\ IF progressRes = "ok"
     THEN progressRes' = "progress" /\ occurred' = occurred \union {"progress"}
     ELSE UNCHANGED <<progressRes, occurred>>
  /\ Goto(t, "setError")
  /\ UNCHANGED <<main, res, loops, events, flags, stop, block, streams>>

StoppedWriting(t) ==
  /\ pc[t] = "testWrite" /\ stopWriting[t]
  /\ err' = [err EXCEPT ![t] = "fail"]
  /\ Goto(t, "setError")
  /\ UNCHANGED <<main, errors, loops, events, flags, stop, block, streams>>

WriteFails(t) ==
  /\ pc[t] = "write"
  /\ err' = [err EXCEPT ![t] = "write"]
  /\ occurred' = occurred \union {"write"}
  /\ Goto(t, "setError")
  /\ UNCHANGED <<main, res, progressRes, loops, events, flags, stop, block, streams>>

MutSetError(t) ==
  /\ pc[t] = "setError"
  /\ res' = err[t]
  /\ Goto(t, "setProgress")
  /\ UNCHANGED <<main, progressRes, occurred, loops, events, flags, local, streams>>

SetError(t) ==
  /\ pc[t] = "setError"
  /\ res' = IF res = "ok" THEN err[t] ELSE res
  /\ Goto(t, "setProgress")
  /\ UNCHANGED <<main, progressRes, occurred, loops, events, flags, local, streams>>

SetProgressError(t) ==
  /\ pc[t] = "setProgress"
  /\ progressRes' = IF progressRes = "ok" THEN err[t] ELSE progressRes
  /\ Goto(t, "failReading")
  /\ UNCHANGED <<main, res, occurred, loops, events, flags, local, streams>>

FailReading(t) ==
  /\ pc[t] = "failReading"
  /\ stopReading' = [stopReading EXCEPT ![NextThread(t)] = TRUE]
  /\ Goto(t, "failWriting")
  /\ UNCHANGED <<main, errors, loops, events, stopWriting, local, streams>>

MutFailWriting(t) ==
  /\ pc[t] = "failWriting"
  /\ Goto(t, "failRead")
  /\ UNCHANGED <<main, errors, loops, events, flags, local, streams>>

FailWriting(t) ==
  /\ pc[t] = "failWriting"
  /\ stopWriting' = [stopWriting EXCEPT ![NextThread(t)] = TRUE]
  /\ Goto(t, "failRead")
  /\ UNCHANGED <<main, errors, loops, events, stopReading, local, streams>>

-----------------------------------------------------------------------------
Caller ==
  \/ CreateThreads \/ Start \/ WaitSubThread \/ Close \/ ReturnAtOnce
  \/ \E k \in Threads : CreateFails(k) \/ StartFails(k)

Thread(t) ==
  \/ WakeUp(t) \/ WaitRead(t) \/ TestStop(t) \/ PassStop(t) \/ Read(t) \/ TellStop(t) \/ GiveRead(t)
  \/ Code(t) \/ WaitWrite(t) \/ TestWrite(t) \/ Write(t) \/ GiveWrite(t) \/ Finish(t)
  \/ ReadFails(t) \/ CodeFails(t) \/ ProgressFails(t) \/ StoppedWriting(t) \/ WriteFails(t)
  \/ SetError(t) \/ SetProgressError(t) \/ FailReading(t) \/ FailWriting(t)

Next ==
  \/ MtCoder_Code \/ MtCoder_Destruct
  \/ \E k \in Threads : PrepareFails(k)
  \/ Caller
  \/ \E t \in Threads : Thread(t)

Spec == Init /\ [][Next]_vars

\* Every thread is scheduled, and the streams and the encoder return.
FairSpec == Spec /\ WF_vars(Caller) /\ \A t \in Threads : WF_vars(Thread(t))

-----------------------------------------------------------------------------
Labels == {"none", "wait", "waitRead", "testStop", "passStop", "passRead", "read", "tellStop", "giveRead",
  "code", "waitWrite", "testWrite", "write", "giveWrite", "setError", "setProgress", "failReading",
  "failWriting", "failRead", "failWrite", "finish"}
Failures == {"mem", "thread", "read", "code", "progress", "write"}
Active(t) == pc[t] \notin {"none", "wait"}

Types ==
  /\ mpc \in {"idle", "create", "start", "wait", "close", "return", "destroyed"}
  /\ mres \in {"ok", "mem", "thread"}
  /\ j \in 0..started /\ started \in 0..NumThreads /\ calls \in 0..MaxCalls
  /\ res \in Failures \union {"ok", "fail"} /\ progressRes \in Failures \union {"ok", "fail"}
  /\ result \in Failures \union {"ok", "running"} /\ occurred \in SUBSET Failures
  /\ pc \in [Threads -> Labels]
  /\ startEvent \in [Threads -> BOOLEAN] /\ finishedEvent \in [Threads -> BOOLEAN]
  /\ stopReading \in [Threads -> BOOLEAN] /\ stopWriting \in [Threads -> BOOLEAN]
  /\ stop \in [Threads -> BOOLEAN] /\ err \in [Threads -> Failures \union {"ok", "fail"}]
  /\ canRead \in [Threads -> {"closed", "unset", "set"}]
  /\ canWrite \in [Threads -> {"closed", "unset", "set"}]
  /\ block \in [Threads -> Nat] /\ total \in Nat /\ taken \in Nat /\ written \in Seq(Nat)

\* The events a thread waits for or sets are open while it runs.
EventsOpen ==
  \A t \in Threads : Active(t) =>
    \A u \in {t, NextThread(t)} : canRead[u] # "closed" /\ canWrite[u] # "closed"

\* Type invariant of what MtCoder_Code() and its threads share, the life of the events included.
TypeOK == Types /\ EventsOpen

(***************************************************************************)
(* MtThread_Process() takes no lock: the tokens alone keep two threads     *)
(* from reading the input, or writing the output, at the same time, also   *)
(* after an error, when a second token follows the first.                  *)
(***************************************************************************)
StreamsExclusive ==
  \A t, u \in Threads : pc[t] = pc[u] /\ pc[t] \in {"read", "write"} => t = u

(***************************************************************************)
(* MtCoder_Code() fails when something failed, and returns what failed: a  *)
(* thread that was stopped by another one's error does not hide that       *)
(* error.                                                                  *)
(***************************************************************************)
ResultIsCause ==
  /\ result = "ok" => mpc # "idle" \/ occurred = {}
  /\ result \notin {"ok", "running"} => result \in occurred

(***************************************************************************)
(* When MtCoder_Code() returns, no thread is left running, and no event is *)
(* left signaled that a later call would take for its own.                 *)
(***************************************************************************)
NobodyLeft ==
  mpc \in {"idle", "destroyed"} =>
    \A t \in Threads : ~Active(t) /\ ~startEvent[t] /\ ~finishedEvent[t]

(***************************************************************************)
(* MtCoder_Code() returns, whatever fails and wherever the other threads   *)
(* are then.                                                               *)
(***************************************************************************)
CodeReturns == result = "running" ~> result # "running"

Pipe == INSTANCE OrderedPipe WITH Ahead <- NumThreads, given <- written

(***************************************************************************)
(* The threads do what one thread would: blocks come out in order, once,   *)
(* and all of them when the result is SZ_OK.                               *)
(***************************************************************************)
ImplementsPipe == Pipe!Spec
=============================================================================
