------------------------------- MODULE LzFindMt ------------------------------
(***************************************************************************)
(* lzma's multithreaded match finder: a chain of three threads.  The hash  *)
(* thread fills blocks of hash heads for the bt thread, which fills blocks *)
(* of matches for the encoder, here "main".  Each link of the chain is a   *)
(* CMtSync: a producer, a consumer, two counting semaphores for the blocks *)
(* that are free and filled, events to start and stop the producer, and a  *)
(* critical section that the consumer is in while it uses a block, because *)
(* the hash thread may move the window that its pointers point into.  One  *)
(* action per operation on what the threads share.  The threads and the    *)
(* synchronization objects are those of Windows: events reset themselves,  *)
(* and a semaphore at its maximum refuses a release.                       *)
(***************************************************************************)
EXTENDS Naturals

CONSTANTS
  NumBlocks,    \* kMtHashNumBlocks and kMtBtNumBlocks
  MaxHeads,     \* bound: the hash blocks the bt thread gets for one block
  MaxBlocks,    \* bound: the blocks the encoder gets from one stream
  MaxStreams    \* bound: how often the match finder is started

ASSUME SizesAssumption ==
  /\ NumBlocks \in Nat \ {0} /\ MaxHeads \in Nat \ {0}
  /\ MaxBlocks \in Nat /\ MaxStreams \in Nat

Syncs == {"hash", "bt"}   \* hashSync and btSync, each named after its producer
Threads == {"main", "bt", "hash"}
Consumer(s) == IF s = "hash" THEN "bt" ELSE "main"
Nobody == "nobody"

VARIABLES
  needStart, stopWriting, exit, numProcessedBlocks, csWasEntered,
  canStart, wasStarted, wasStopped,   \* the events that are signaled
  freeSemaphore, filledSemaphore,     \* the counts
  cs,           \* who is in the critical section
  pc,           \* what each thread is about to do
  blockIndex,   \* the producer's count of blocks
  myNumBlocks,  \* the local of MtSync_StopWriting()
  buf,          \* hashBuf and btBuf: the stream and the index of each block
  moved,        \* the window was moved since the last hash block
  left,         \* hashBufPos # hashBufPosLimit
  heads,        \* the hash blocks the bt thread got for the current block
  used,         \* whether it got matches from any
  stream,       \* counts the calls of MatchFinderMt_Init()
  blocks        \* the blocks the encoder got from the stream

fields == <<needStart, stopWriting, exit, numProcessedBlocks, csWasEntered>>
signals == <<canStart, wasStarted, wasStopped>>
semaphores == <<freeSemaphore, filledSemaphore>>
bt == <<left, heads, used>>
encoder == <<stream, blocks>>
data == <<blockIndex, myNumBlocks, buf, moved, bt, encoder>>
vars == <<fields, signals, semaphores, cs, pc, data>>

Nothing == <<0, 0>>
All(value) == [s \in Syncs |-> value]

Init ==
  /\ needStart = All(TRUE) /\ stopWriting = All(FALSE) /\ exit = All(FALSE)
  /\ numProcessedBlocks = All(0) /\ csWasEntered = All(FALSE)
  /\ canStart = All(FALSE) /\ wasStarted = All(FALSE) /\ wasStopped = All(FALSE)
  /\ freeSemaphore = All(NumBlocks) /\ filledSemaphore = All(0)
  /\ cs = All(Nobody)
  /\ pc = [t \in Threads |-> "none"]
  /\ blockIndex = All(0) /\ myNumBlocks = All(0)
  /\ buf = All([i \in 0..NumBlocks - 1 |-> Nothing])
  /\ moved = FALSE /\ left = FALSE /\ heads = 0 /\ used = FALSE
  /\ stream = 0 /\ blocks = 0

Goto(t, to) == pc' = [pc EXCEPT ![t] = to]
Set(f, s, value) == [f EXCEPT ![s] = value]
Inc(f, s) == [f EXCEPT ![s] = @ + 1]
Dec(f, s) == [f EXCEPT ![s] = @ - 1]

\* ReleaseSemaphore() by one, which fails at the maximum.
Release(semaphore, s) == semaphore' = IF semaphore[s] = NumBlocks THEN semaphore ELSE Inc(semaphore, s)

-----------------------------------------------------------------------------
(***************************************************************************)
(* MtSync_GetNextBlock(), called by the consumer.                          *)
(***************************************************************************)
GetStart(s) ==
  /\ pc[Consumer(s)] = "get" /\ needStart[s]
  /\ numProcessedBlocks' = Set(numProcessedBlocks, s, 1)
  /\ needStart' = Set(needStart, s, FALSE)
  /\ stopWriting' = Set(stopWriting, s, FALSE)
  /\ exit' = Set(exit, s, FALSE)
  /\ wasStarted' = Set(wasStarted, s, FALSE)
  /\ wasStopped' = Set(wasStopped, s, FALSE)
  /\ canStart' = Set(canStart, s, TRUE)
  /\ Goto(Consumer(s), "waitStarted")
  /\ UNCHANGED <<csWasEntered, semaphores, cs, data>>

WaitStarted(s) ==
  /\ pc[Consumer(s)] = "waitStarted" /\ wasStarted[s]
  /\ wasStarted' = Set(wasStarted, s, FALSE)
  /\ Goto(Consumer(s), "waitFilled")
  /\ UNCHANGED <<fields, canStart, wasStopped, semaphores, cs, data>>

GetLeave(s) ==
  /\ pc[Consumer(s)] = "get" /\ ~needStart[s]
  /\ cs' = Set(cs, s, Nobody)
  /\ csWasEntered' = Set(csWasEntered, s, FALSE)
  /\ numProcessedBlocks' = Inc(numProcessedBlocks, s)
  /\ Goto(Consumer(s), "free")
  /\ UNCHANGED <<needStart, stopWriting, exit, signals, semaphores, data>>

GetFree(s) ==
  /\ pc[Consumer(s)] = "free"
  /\ Release(freeSemaphore, s)
  /\ Goto(Consumer(s), "waitFilled")
  /\ UNCHANGED <<fields, signals, filledSemaphore, cs, data>>

WaitFilled(s) ==
  /\ pc[Consumer(s)] = "waitFilled" /\ filledSemaphore[s] > 0
  /\ filledSemaphore' = Dec(filledSemaphore, s)
  /\ Goto(Consumer(s), "enter")
  /\ UNCHANGED <<fields, signals, freeSemaphore, cs, data>>

\* The consumer has its block; the bt thread goes on in BtGetMatches().
EnterSection(s) ==
  /\ pc[Consumer(s)] = "enter" /\ cs[s] = Nobody
  /\ cs' = Set(cs, s, Consumer(s))
  /\ csWasEntered' = Set(csWasEntered, s, TRUE)
  /\ left' = (left \/ s = "hash")
  /\ Goto(Consumer(s), IF s = "hash" THEN "fill" ELSE "using")
  /\ UNCHANGED <<needStart, stopWriting, exit, numProcessedBlocks, signals, semaphores, blockIndex, myNumBlocks,
                 buf, moved, heads, used, encoder>>

(***************************************************************************)
(* MtSync_StopWriting(), called by the consumer: by the encoder to release *)
(* the stream, and by the bt thread when it is told to stop.               *)
(***************************************************************************)
Stopped(s) == IF s = "hash" THEN "tellStopped" ELSE "idle"

StopNothing(s) ==
  /\ pc[Consumer(s)] = "stop" /\ needStart[s]
  /\ Goto(Consumer(s), Stopped(s))
  /\ UNCHANGED <<fields, signals, semaphores, cs, data>>

StopWriting(s) ==
  /\ pc[Consumer(s)] = "stop" /\ ~needStart[s]
  /\ myNumBlocks' = Set(myNumBlocks, s, numProcessedBlocks[s])
  /\ stopWriting' = Set(stopWriting, s, TRUE)
  /\ Goto(Consumer(s), "leave")
  /\ UNCHANGED <<needStart, exit, numProcessedBlocks, csWasEntered, signals, semaphores, cs, blockIndex, buf, moved, bt, encoder>>

MutStopLeave(s) ==
  /\ pc[Consumer(s)] = "leave"
  /\ cs' = IF csWasEntered[s] THEN Set(cs, s, Nobody) ELSE cs
  /\ Goto(Consumer(s), "wake")
  /\ UNCHANGED <<fields, signals, semaphores, data>>

StopLeave(s) ==
  /\ pc[Consumer(s)] = "leave"
  /\ cs' = IF csWasEntered[s] THEN Set(cs, s, Nobody) ELSE cs
  /\ csWasEntered' = Set(csWasEntered, s, FALSE)
  /\ Goto(Consumer(s), "wake")
  /\ UNCHANGED <<needStart, stopWriting, exit, numProcessedBlocks, signals, semaphores, data>>

MutStopWake(s) ==
  /\ pc[Consumer(s)] = "wake"
  /\ Goto(Consumer(s), "waitStopped")
  /\ UNCHANGED <<fields, signals, semaphores, cs, data>>

StopWake(s) ==
  /\ pc[Consumer(s)] = "wake"
  /\ Release(freeSemaphore, s)
  /\ Goto(Consumer(s), "waitStopped")
  /\ UNCHANGED <<fields, signals, filledSemaphore, cs, data>>

WaitStopped(s) ==
  /\ pc[Consumer(s)] = "waitStopped" /\ wasStopped[s]
  /\ wasStopped' = Set(wasStopped, s, FALSE)
  /\ Goto(Consumer(s), "drain")
  /\ UNCHANGED <<fields, canStart, wasStarted, semaphores, cs, data>>

MutDrain(s) ==
  /\ pc[Consumer(s)] = "drain" /\ myNumBlocks[s] # numProcessedBlocks[s]
  /\ filledSemaphore[s] > 0
  /\ filledSemaphore' = Dec(filledSemaphore, s)
  /\ myNumBlocks' = Inc(myNumBlocks, s)
  /\ UNCHANGED <<fields, signals, freeSemaphore, cs, pc, blockIndex, buf, moved, bt, encoder>>

\* A block that was filled and will not be used.
Drain(s) ==
  /\ pc[Consumer(s)] = "drain" /\ myNumBlocks[s] # numProcessedBlocks[s]
  /\ filledSemaphore[s] > 0
  /\ filledSemaphore' = Dec(filledSemaphore, s)
  /\ Release(freeSemaphore, s)
  /\ myNumBlocks' = Inc(myNumBlocks, s)
  /\ UNCHANGED <<fields, signals, cs, pc, blockIndex, buf, moved, bt, encoder>>

MutDrained(s) ==
  /\ pc[Consumer(s)] = "drain"
  /\ needStart' = Set(needStart, s, TRUE)
  /\ Goto(Consumer(s), Stopped(s))
  /\ UNCHANGED <<stopWriting, exit, numProcessedBlocks, csWasEntered, signals, semaphores, cs, data>>

Drained(s) ==
  /\ pc[Consumer(s)] = "drain" /\ myNumBlocks[s] = numProcessedBlocks[s]
  /\ needStart' = Set(needStart, s, TRUE)
  /\ Goto(Consumer(s), Stopped(s))
  /\ UNCHANGED <<stopWriting, exit, numProcessedBlocks, csWasEntered, signals, semaphores, cs, data>>

-----------------------------------------------------------------------------
(***************************************************************************)
(* HashThreadFunc() and BtThreadFunc(): what they have in common.          *)
(***************************************************************************)
WaitStart(s) ==
  /\ pc[s] = "waitStart" /\ canStart[s]
  /\ canStart' = Set(canStart, s, FALSE)
  /\ blockIndex' = Set(blockIndex, s, 0)
  /\ Goto(s, "tellStarted")
  /\ UNCHANGED <<fields, wasStarted, wasStopped, semaphores, cs, myNumBlocks, buf, moved, bt, encoder>>

TellStarted(s) ==
  /\ pc[s] = "tellStarted"
  /\ wasStarted' = Set(wasStarted, s, TRUE)
  /\ Goto(s, "check")
  /\ UNCHANGED <<fields, canStart, wasStopped, semaphores, cs, data>>

CheckExit(s) ==
  /\ pc[s] = "check" /\ exit[s]
  /\ Goto(s, "exited")
  /\ UNCHANGED <<fields, signals, semaphores, cs, data>>

MutCheckStop(s) ==
  /\ pc[s] = "check" /\ ~exit[s] /\ stopWriting[s]
  /\ numProcessedBlocks' = Set(numProcessedBlocks, s, blockIndex[s])
  /\ Goto(s, "tellStopped")
  /\ UNCHANGED <<needStart, stopWriting, exit, csWasEntered, signals, semaphores, cs, data>>

\* The bt thread stops the hash thread before it says that it has stopped.
CheckStop(s) ==
  /\ pc[s] = "check" /\ ~exit[s] /\ stopWriting[s]
  /\ numProcessedBlocks' = Set(numProcessedBlocks, s, blockIndex[s])
  /\ Goto(s, IF s = "bt" THEN "stop" ELSE "tellStopped")
  /\ UNCHANGED <<needStart, stopWriting, exit, csWasEntered, signals, semaphores, cs, data>>

TellStopped(s) ==
  /\ pc[s] = "tellStopped"
  /\ wasStopped' = Set(wasStopped, s, TRUE)
  /\ Goto(s, "waitStart")
  /\ UNCHANGED <<fields, canStart, wasStarted, semaphores, cs, data>>

CheckGoOn(s) ==
  /\ pc[s] = "check" /\ ~exit[s] /\ ~stopWriting[s]
  /\ Goto(s, "waitFree")
  /\ UNCHANGED <<fields, signals, semaphores, cs, data>>

Slot(i) == i % NumBlocks

\* The block is overwritten from here on.
WaitFree(s) ==
  /\ pc[s] = "waitFree" /\ freeSemaphore[s] > 0
  /\ freeSemaphore' = Dec(freeSemaphore, s)
  /\ buf' = [buf EXCEPT ![s][Slot(blockIndex[s])] = Nothing]
  /\ Goto(s, "begin")
  /\ UNCHANGED <<fields, signals, filledSemaphore, cs, blockIndex, myNumBlocks, moved, bt, encoder>>

Filled(s) ==
  /\ buf' = [buf EXCEPT ![s][Slot(blockIndex[s])] = <<stream, blockIndex[s]>>]
  /\ blockIndex' = Inc(blockIndex, s)
  /\ UNCHANGED <<myNumBlocks, encoder>>

ReleaseFilled(s) ==
  /\ pc[s] = "filled"
  /\ Release(filledSemaphore, s)
  /\ Goto(s, "check")
  /\ UNCHANGED <<fields, signals, freeSemaphore, cs, data>>

-----------------------------------------------------------------------------
(***************************************************************************)
(* HashThreadFunc(): it moves the window to the front of its buffer when   *)
(* it has to, in both critical sections.                                   *)
(***************************************************************************)
NeedMove ==
  /\ pc["hash"] = "check" /\ ~exit["hash"] /\ ~stopWriting["hash"]
  /\ ~moved
  /\ Goto("hash", "enterBt")
  /\ UNCHANGED <<fields, signals, semaphores, cs, data>>

EnterToMove(s) ==
  /\ pc["hash"] = IF s = "bt" THEN "enterBt" ELSE "enterHash"
  /\ cs[s] = Nobody
  /\ cs' = Set(cs, s, "hash")
  /\ Goto("hash", IF s = "bt" THEN "enterHash" ELSE "moving")
  /\ UNCHANGED <<fields, signals, semaphores, data>>

MoveBlock ==
  /\ pc["hash"] = "moving"
  /\ moved' = TRUE
  /\ Goto("hash", "leaveBt")
  /\ UNCHANGED <<fields, signals, semaphores, cs, blockIndex, myNumBlocks, buf, bt, encoder>>

LeaveMoved(s) ==
  /\ pc["hash"] = IF s = "bt" THEN "leaveBt" ELSE "leaveHash"
  /\ cs' = Set(cs, s, Nobody)
  /\ Goto("hash", IF s = "bt" THEN "leaveHash" ELSE "check")
  /\ UNCHANGED <<fields, signals, semaphores, data>>

FillHash ==
  /\ pc["hash"] = "begin"
  /\ Filled("hash")
  /\ moved' = FALSE
  /\ Goto("hash", "filled")
  /\ UNCHANGED <<fields, signals, semaphores, cs, bt>>

-----------------------------------------------------------------------------
(***************************************************************************)
(* BtFillBlock() and BtGetMatches(): a block of matches takes a part of a  *)
(* hash block, or several.                                                 *)
(***************************************************************************)
MutBeginFill ==
  /\ pc["bt"] = "begin"
  /\ heads' = 0 /\ used' = FALSE
  /\ Goto("bt", "fill")
  /\ UNCHANGED <<fields, signals, semaphores, cs, blockIndex, myNumBlocks, buf, moved, left, encoder>>

BeginFill ==
  /\ pc["bt"] = "begin"
  /\ IF needStart["hash"]
     THEN UNCHANGED <<cs, csWasEntered>>
     ELSE /\ cs["hash"] = Nobody
          /\ cs' = Set(cs, "hash", "bt")
          /\ csWasEntered' = Set(csWasEntered, "hash", TRUE)
  /\ heads' = 0 /\ used' = FALSE
  /\ Goto("bt", "fill")
  /\ UNCHANGED <<needStart, stopWriting, exit, numProcessedBlocks, signals, semaphores,
                 blockIndex, myNumBlocks, buf, moved, left, encoder>>

GetNextBlock_Hash ==
  /\ pc["bt"] = "fill" /\ ~left /\ heads < MaxHeads
  /\ heads' = heads + 1
  /\ Goto("bt", "get")
  /\ UNCHANGED <<fields, signals, semaphores, cs, blockIndex, myNumBlocks, buf, moved, left, used, encoder>>

\* It takes the heads of the block in hand, all or some.
UseHeads ==
  /\ pc["bt"] = "fill" /\ left
  /\ used' = TRUE
  /\ left' \in BOOLEAN
  /\ UNCHANGED <<fields, signals, semaphores, cs, pc, blockIndex, myNumBlocks, buf, moved, heads, encoder>>

FillBlock ==
  /\ pc["bt"] = "fill" /\ used
  /\ Filled("bt")
  /\ Goto("bt", "filledLeave")
  /\ UNCHANGED <<fields, signals, semaphores, cs, moved, bt>>

EndFill ==
  /\ pc["bt"] = "filledLeave"
  /\ cs' = IF needStart["hash"] THEN cs ELSE Set(cs, "hash", Nobody)
  /\ csWasEntered' = IF needStart["hash"] THEN csWasEntered ELSE Set(csWasEntered, "hash", FALSE)
  /\ Goto("bt", "filled")
  /\ UNCHANGED <<needStart, stopWriting, exit, numProcessedBlocks, signals, semaphores, data>>

-----------------------------------------------------------------------------
(***************************************************************************)
(* What the encoder calls.  It takes blocks one after the other, releases  *)
(* the stream at any time, and starts again with another one.              *)
(***************************************************************************)
\* MatchFinderMt_Create(): when the second thread cannot be created, it may be called again.
Create(created) ==
  /\ pc["main"] = "none"
  /\ pc' = [t \in Threads |->
       IF t = "main" /\ created = Syncs THEN "idle"
       ELSE IF t \in created THEN "waitStart" ELSE pc[t]]
  /\ UNCHANGED <<fields, signals, semaphores, cs, data>>

MatchFinderMt_Init ==
  /\ pc["main"] = "idle" /\ stream < MaxStreams
  /\ stream' = stream + 1
  /\ blocks' = 0
  /\ left' = FALSE
  /\ Goto("main", "ready")
  /\ UNCHANGED <<fields, signals, semaphores, cs, blockIndex, myNumBlocks, buf, moved, heads, used>>

GetNextBlock_Bt ==
  /\ pc["main"] \in {"ready", "using"} /\ blocks < MaxBlocks
  /\ blocks' = blocks + 1
  /\ Goto("main", "get")
  /\ UNCHANGED <<fields, signals, semaphores, cs, blockIndex, myNumBlocks, buf, moved, bt, stream>>

ReleaseStream ==
  /\ pc["main"] \in {"ready", "using"}
  /\ Goto("main", "stop")
  /\ UNCHANGED <<fields, signals, semaphores, cs, data>>

\* MatchFinderMt_Destruct(), after the stream was released: hashSync first, then btSync.
Destruct ==
  /\ pc["main"] \in {"none", "idle"}
  /\ Goto("main", "exitHash")
  /\ UNCHANGED <<fields, signals, semaphores, cs, data>>

TellExit(s) ==
  /\ pc["main"] = IF s = "hash" THEN "exitHash" ELSE "exitBt"
  /\ IF pc[s] = "none"
     THEN UNCHANGED <<exit, canStart>>
     ELSE /\ needStart[s]
          /\ exit' = Set(exit, s, TRUE)
          /\ canStart' = Set(canStart, s, TRUE)
  /\ Goto("main", IF s = "hash" THEN "waitHash" ELSE "waitBt")
  /\ UNCHANGED <<needStart, stopWriting, numProcessedBlocks, csWasEntered, wasStarted, wasStopped, semaphores, cs, data>>

WaitExit(s) ==
  /\ pc["main"] = IF s = "hash" THEN "waitHash" ELSE "waitBt"
  /\ pc[s] \in {"none", "exited"}
  /\ Goto("main", IF s = "hash" THEN "exitBt" ELSE "destructed")
  /\ UNCHANGED <<fields, signals, semaphores, cs, data>>

Consume(s) ==
  \/ GetStart(s) \/ WaitStarted(s) \/ GetLeave(s) \/ GetFree(s) \/ WaitFilled(s) \/ EnterSection(s)
  \/ StopNothing(s) \/ StopWriting(s) \/ StopLeave(s) \/ StopWake(s) \/ WaitStopped(s)
  \/ Drain(s) \/ Drained(s)

Produce(s) ==
  \/ WaitStart(s) \/ TellStarted(s) \/ CheckExit(s) \/ CheckStop(s) \/ TellStopped(s)
  \/ CheckGoOn(s) \/ WaitFree(s) \/ ReleaseFilled(s)

HashThread ==
  \/ Produce("hash") \/ NeedMove \/ MoveBlock \/ FillHash
  \/ \E s \in Syncs : EnterToMove(s) \/ LeaveMoved(s)

BtThread ==
  \/ Produce("bt") \/ Consume("hash")
  \/ BeginFill \/ GetNextBlock_Hash \/ UseHeads \/ FillBlock \/ EndFill

EncoderCall ==
  \/ \E created \in {{"hash"}, Syncs} : Create(created)
  \/ MatchFinderMt_Init \/ GetNextBlock_Bt \/ ReleaseStream \/ Destruct

InCall == Consume("bt") \/ \E s \in Syncs : TellExit(s) \/ WaitExit(s)

Next == HashThread \/ BtThread \/ EncoderCall \/ InCall

Spec == Init /\ [][Next]_vars

\* The threads are scheduled; the encoder may call the match finder or not.
FairSpec == Spec /\ WF_vars(HashThread) /\ WF_vars(BtThread) /\ WF_vars(InCall)

-----------------------------------------------------------------------------
\* Type invariant; csWasEntered tells who is in the section.
TypeOK ==
  /\ \A f \in {needStart, stopWriting, exit, csWasEntered, canStart, wasStarted, wasStopped} :
       f \in [Syncs -> BOOLEAN]
  /\ \A f \in {freeSemaphore, filledSemaphore} : f \in [Syncs -> 0..NumBlocks]
  /\ \A f \in {numProcessedBlocks, blockIndex, myNumBlocks} : f \in [Syncs -> Nat]
  /\ \A s \in Syncs : cs[s] \in {Nobody, "hash", Consumer(s)}
  /\ \A s \in Syncs : csWasEntered[s] <=> cs[s] = Consumer(s)
  /\ heads \in 0..MaxHeads /\ stream \in 0..MaxStreams /\ blocks \in 0..MaxBlocks

\* A consumer is between getting a block and the next call.
Using(s) == IF s = "hash" THEN pc["bt"] = "fill" /\ left ELSE pc["main"] = "using"

(***************************************************************************)
(* The window is moved only while neither the encoder nor the bt thread    *)
(* uses pointers into it.                                                  *)
(***************************************************************************)
MovesAlone == pc["hash"] = "moving" => \A s \in Syncs : ~Using(s)

(***************************************************************************)
(* A consumer uses the blocks of its stream in the order they were filled, *)
(* each complete, and none is overwritten while it is used: not after a    *)
(* restart either, when the producer had been ahead.                       *)
(***************************************************************************)
BlocksIntact ==
  \A s \in Syncs :
    LET k == numProcessedBlocks[s] - 1 IN Using(s) => buf[s][Slot(k)] = <<stream, k>>

(***************************************************************************)
(* A block is free, filled, with the producer or with the consumer, also   *)
(* while the producer is being stopped, when the consumer's block is freed *)
(* to wake it up: no release is ever refused.                              *)
(***************************************************************************)
ProducerHas(s) == pc[s] \in {"begin", "filled"} \/ (s = "bt" /\
  pc["bt"] \in {"fill", "filledLeave", "get", "free", "waitStarted", "waitFilled", "enter"})
ConsumerHas(s) ==
  ~needStart[s] /\ pc[Consumer(s)] \notin {"waitStarted", "waitFilled", "waitStopped", "drain"}
One(condition) == IF condition THEN 1 ELSE 0
BlocksCount ==
  \A s \in Syncs :
    freeSemaphore[s] + filledSemaphore[s] + One(ProducerHas(s)) + One(ConsumerHas(s)) = NumBlocks

(***************************************************************************)
(* Between two streams everything is as it was at the beginning: the       *)
(* producers wait for a start, all blocks are free, and no event is left   *)
(* signaled.                                                               *)
(***************************************************************************)
Quiescent ==
  pc["main"] \in {"idle", "ready"} => \A s \in Syncs :
    /\ pc[s] = "waitStart" /\ needStart[s] /\ cs[s] = Nobody
    /\ ~canStart[s] /\ ~wasStarted[s] /\ ~wasStopped[s]
    /\ freeSemaphore[s] = NumBlocks /\ filledSemaphore[s] = 0

(***************************************************************************)
(* Every call of the encoder returns: a block comes, the stream is         *)
(* released, the threads end.                                              *)
(***************************************************************************)
CallReturns ==
  pc["main"] \notin {"none", "idle", "ready", "using"} ~>
    pc["main"] \in {"idle", "using", "destructed"}
=============================================================================
