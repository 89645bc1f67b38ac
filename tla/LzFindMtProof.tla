---------------------------- MODULE LzFindMtProof ----------------------------
(***************************************************************************)
(* Theorems about LzFindMt, for any number of blocks and streams.  A link  *)
(* is off or on, as its consumer knows from needStart; when it is on, its  *)
(* producer works, stops or has stopped, and the events tell how far its   *)
(* consumer knows that (Links).  From there one can say who is in the      *)
(* critical sections (Sections), and, for each of these phases, how the    *)
(* counts of the semaphores and those of the two threads agree (Counts).   *)
(* So a producer that has a free block is less than a turn ahead of its    *)
(* consumer, and fills none that the consumer has yet to use (Intact).     *)
(* Each part has a lemma that a step preserves it, with a step per action. *)
(***************************************************************************)
EXTENDS LzFindMt, Integers, TLAPS

-----------------------------------------------------------------------------
(***************************************************************************)
(* Where a thread can be.  The bt thread is the producer of one link and   *)
(* the consumer of the other.                                              *)
(***************************************************************************)
Getting == {"get", "free", "waitStarted", "waitFilled", "enter"}
Stopping == {"leave", "wake", "waitStopped"}
Moving == {"enterBt", "enterHash", "moving", "leaveBt", "leaveHash"}
Quitting == {"exitHash", "waitHash", "exitBt", "waitBt", "destructed"}
States ==
  Getting \union Stopping \union Moving \union Quitting \union
  {"none", "idle", "ready", "using", "stop", "drain", "waitStart", "tellStarted", "check",
   "exited", "tellStopped", "waitFree", "begin", "filled", "fill", "filledLeave"}

\* A producer that fills blocks, or has not yet seen that it is to stop.
Works(s) == pc[s] \in {"check", "waitFree", "begin", "filled"} \union
                      (IF s = "hash" THEN Moving ELSE Getting \union {"fill", "filledLeave"})
\* A producer that has seen it; the bt thread stops the hash thread first.
Stops(s) == pc[s] \in {"tellStopped"} \union
                      (IF s = "hash" THEN {} ELSE Stopping \union {"stop", "drain"})
\* A consumer of a link that was started.
Consumes(s) == pc[Consumer(s)] \in Getting \union Stopping \union {"stop", "drain"} \union
  (IF s = "hash" THEN {"check", "waitFree", "begin", "filled", "fill", "filledLeave"} ELSE {"using"})

Flags ==
  /\ needStart \in [Syncs -> BOOLEAN] /\ stopWriting \in [Syncs -> BOOLEAN] /\ exit \in [Syncs -> BOOLEAN]
  /\ canStart \in [Syncs -> BOOLEAN] /\ wasStarted \in [Syncs -> BOOLEAN] /\ wasStopped \in [Syncs -> BOOLEAN]
  /\ csWasEntered \in [Syncs -> BOOLEAN] /\ cs \in [Syncs -> {Nobody, "main", "bt", "hash"}]
  /\ pc \in [Threads -> States] /\ left \in BOOLEAN

Numbers ==
  /\ freeSemaphore \in [Syncs -> Nat] /\ filledSemaphore \in [Syncs -> Nat]
  /\ numProcessedBlocks \in [Syncs -> Nat] /\ myNumBlocks \in [Syncs -> Nat] /\ blockIndex \in [Syncs -> Nat]
  /\ heads \in 0..MaxHeads /\ stream \in 0..MaxStreams /\ blocks \in 0..MaxBlocks
  /\ buf \in [Syncs -> [0..NumBlocks - 1 -> Nat \X Nat]]

(***************************************************************************)
(* How far a link is between one start and the next, which its two threads *)
(* know from two flags and three events.                                   *)
(***************************************************************************)
Quits(s) == pc["main"] \in {"waitBt", "destructed"} \union (IF s = "hash" THEN {"waitHash", "exitBt"} ELSE {})

LinkOff(s) ==
  /\ pc[Consumer(s)] \notin (Getting \ {"get"}) \union Stopping \union {"using", "drain"}
  /\ ~wasStopped[s]
  /\ exit[s] => /\ Quits(s)
                /\ pc[s] \in {"waitStart", "tellStarted", "check", "exited"}
                /\ canStart[s] <=> pc[s] = "waitStart"
  /\ ~exit[s] => pc[s] \in {"none", "waitStart"} /\ ~canStart[s] /\ ~wasStarted[s]

LinkOn(s) ==
  /\ Consumes(s) /\ ~exit[s]
  /\ IF pc[Consumer(s)] = "waitStarted"
     THEN /\ ~wasStopped[s] /\ ~stopWriting[s]
          /\ \/ pc[s] = "waitStart" /\ canStart[s] /\ ~wasStarted[s]
             \/ pc[s] = "tellStarted" /\ ~canStart[s] /\ ~wasStarted[s]
             \/ Works(s) /\ ~canStart[s] /\ wasStarted[s]
     ELSE /\ ~canStart[s] /\ ~wasStarted[s]
          /\ CASE pc[Consumer(s)] \in Stopping ->
                    /\ stopWriting[s]
                    /\ \/ (Works(s) \/ Stops(s)) /\ ~wasStopped[s]
                       \/ pc[s] = "waitStart" /\ wasStopped[s]
               [] pc[Consumer(s)] = "drain" -> pc[s] = "waitStart" /\ ~wasStopped[s]
               [] OTHER -> ~stopWriting[s] /\ Works(s) /\ ~wasStopped[s]

Links ==
  /\ \A s \in Syncs : IF needStart[s] THEN LinkOff(s) ELSE LinkOn(s)
  /\ ~needStart["hash"] => ~needStart["bt"]
  /\ pc["main"] \notin Quitting \union {"none"} => \A s \in Syncs : pc[s] # "none"

\* Who is in which critical section.
Sections ==
  /\ \A s \in Syncs : /\ cs[s] \in {Nobody, "hash", Consumer(s)}
                      /\ csWasEntered[s] <=> cs[s] = Consumer(s)
  /\ cs["hash"] = "bt" <=> ~needStart["hash"] /\ pc["bt"] \in {"fill", "filledLeave", "get"}
  /\ cs["bt"] = "main" <=> ~needStart["bt"] /\ pc["main"] \in {"using", "get", "stop", "leave"}
  /\ cs["bt"] = "hash" <=> pc["hash"] \in {"enterHash", "moving", "leaveBt"}
  /\ cs["hash"] = "hash" <=> pc["hash"] \in {"moving", "leaveBt", "leaveHash"}

\* A new stream does not begin with hash heads that the last one has left.
Anew ==
  \/ pc["main"] \in {"ready", "waitStarted"}
  \/ pc["main"] = "get" /\ needStart["bt"]
  \/ pc["bt"] \in {"waitFree", "begin", "fill", "filledLeave", "filled", "get"}
  \/ pc["bt"] \in {"tellStarted", "check"} /\ ~exit["bt"]
NothingLeft == needStart["hash"] /\ Anew => ~left

(***************************************************************************)
(* The filled blocks are those that the producer has counted and the       *)
(* consumer has not: its count is ahead of it while it waits for a block,  *)
(* and becomes the producer's when that stops.                             *)
(***************************************************************************)
Uncounted(s) == pc[s] = "filled" \/ (s = "bt" /\ pc["bt"] = "filledLeave")
Holds(s) == pc[Consumer(s)] \notin {"waitStarted", "waitFilled", "waitStopped", "drain"}
Halts(s) == pc[Consumer(s)] \in Stopping \union {"drain"}
Begins(s) == pc[Consumer(s)] = "waitStarted"
Waits(s) == pc[s] = "waitStart"
Ahead(s) == pc[Consumer(s)] \in {"waitStarted", "free", "waitFilled"}

FilledLink(s) ==
  IF needStart[s] THEN filledSemaphore[s] = 0
  ELSE IF Halts(s)
  THEN /\ filledSemaphore[s] + myNumBlocks[s] + One(Uncounted(s)) = blockIndex[s]
       /\ ~Works(s) => numProcessedBlocks[s] = blockIndex[s]
  ELSE /\ numProcessedBlocks[s] > 0
       /\ Waits(s) => filledSemaphore[s] = 0
       /\ Begins(s) => numProcessedBlocks[s] = 1
       /\ ~Waits(s) => filledSemaphore[s] + numProcessedBlocks[s] + One(Uncounted(s)) = blockIndex[s] + One(Ahead(s))

BlocksLink(s) ==
  freeSemaphore[s] + filledSemaphore[s] + One(ProducerHas(s)) + One(ConsumerHas(s)) = NumBlocks

Counts == \A s \in Syncs : FilledLink(s) /\ BlocksLink(s)

\* The blocks from the one that the consumer has, or waits for, to the last are what they were filled with.
InUse(s) == ~needStart[s] /\ ~Halts(s) /\ ~Waits(s)
Live(s, i) == numProcessedBlocks[s] <= i + 1 /\ i < blockIndex[s]
IntactLink(s) == InUse(s) => \A i \in Nat : Live(s, i) => buf[s][Slot(i)] = <<stream, i>>
Intact == \A s \in Syncs : IntactLink(s)

IInv == Flags /\ Numbers /\ Links /\ Sections /\ NothingLeft /\ Counts /\ Intact

(***************************************************************************)
(* The steps that neither count affects.                                   *)
(***************************************************************************)
Same(s) ==
  /\ UNCHANGED <<needStart[s], freeSemaphore[s], filledSemaphore[s]>>
  /\ ProducerHas(s)' <=> ProducerHas(s)
  /\ ~needStart[s] =>
       /\ UNCHANGED <<numProcessedBlocks[s], myNumBlocks[s], blockIndex[s]>>
       /\ Holds(s)' <=> Holds(s)
       /\ Halts(s)' <=> Halts(s)
       /\ Uncounted(s)' <=> Uncounted(s)
       /\ IF Halts(s) THEN Works(s)' <=> Works(s)
          ELSE /\ Waits(s)' <=> Waits(s)
               /\ Begins(s)' <=> Begins(s)
               /\ Ahead(s)' <=> Ahead(s)

\* And those that affect no block in use.
Kept(s) ==
  InUse(s)' =>
    /\ InUse(s)
    /\ UNCHANGED <<stream, blockIndex[s], buf[s]>>
    /\ numProcessedBlocks[s] <= numProcessedBlocks'[s]

-----------------------------------------------------------------------------
\* A flag that is set is a flag, and a section that is entered is somebody's.
LEMMA Setting ==
  ASSUME NEW S, NEW f \in [Syncs -> S], NEW s \in Syncs, NEW value \in S
  PROVE  Set(f, s, value) \in [Syncs -> S]
BY Zenon DEF Set

\* What is signaled stays a flag, and every thread somewhere.
LEMMA FlagsStep ==
  ASSUME IInv, [Next]_vars
  PROVE  Flags'
<1>0. Flags
  BY DEF IInv
<1> USE DEF Flags, States, Stopping, Getting, Moving, Quitting, Threads, Syncs,
   Consumer, Nobody
<1>1. CASE UNCHANGED vars
  BY <1>1, <1>0 DEF vars, fields, signals, semaphores, bt, encoder, data
<1>2. ASSUME NEW s \in Syncs, GetStart(s) PROVE Flags'
  BY <1>2, <1>0 DEF GetStart, Goto, Set, semaphores, bt, encoder, data
<1>3. ASSUME NEW s \in Syncs, WaitStarted(s) PROVE Flags'
  BY <1>3, <1>0 DEF WaitStarted, Goto, Set, fields, semaphores, bt, encoder, data
<1>4. ASSUME NEW s \in Syncs, GetLeave(s) PROVE Flags'
  BY <1>4, <1>0 DEF GetLeave, Goto, Set, Inc, signals, semaphores, bt, encoder, data
<1>5. ASSUME NEW s \in Syncs, GetFree(s) PROVE Flags'
  BY <1>5, <1>0 DEF GetFree, Goto, Inc, Release, fields, signals, bt, encoder, data
<1>6. ASSUME NEW s \in Syncs, WaitFilled(s) PROVE Flags'
  BY <1>6, <1>0 DEF WaitFilled, Goto, Dec, fields, signals, bt, encoder, data
<1>7. ASSUME NEW s \in Syncs, EnterSection(s) PROVE Flags'
  BY <1>7, <1>0 DEF EnterSection, Goto, Set, signals, semaphores, encoder
<1>8. ASSUME NEW s \in Syncs, StopNothing(s) PROVE Flags'
  BY <1>8, <1>0 DEF StopNothing, Goto, Stopped, fields, signals, semaphores, bt, encoder, data
<1>9. ASSUME NEW s \in Syncs, StopWriting(s) PROVE Flags'
  BY <1>9, <1>0 DEF StopWriting, Goto, Set, signals, semaphores, bt, encoder
<1>10. ASSUME NEW s \in Syncs, StopLeave(s) PROVE Flags'
  BY <1>10, <1>0 DEF StopLeave, Goto, Set, signals, semaphores, bt, encoder, data
<1>11. ASSUME NEW s \in Syncs, StopWake(s) PROVE Flags'
  BY <1>11, <1>0 DEF StopWake, Goto, Inc, Release, fields, signals, bt, encoder, data
<1>12. ASSUME NEW s \in Syncs, WaitStopped(s) PROVE Flags'
  BY <1>12, <1>0 DEF WaitStopped, Goto, Set, fields, semaphores, bt, encoder, data
<1>13. ASSUME NEW s \in Syncs, Drain(s) PROVE Flags'
  BY <1>13, <1>0 DEF Drain, Inc, Dec, Release, fields, signals, bt, encoder
<1>14. ASSUME NEW s \in Syncs, Drained(s) PROVE Flags'
  BY <1>14, <1>0 DEF Drained, Goto, Set, Stopped, signals, semaphores, bt, encoder, data
<1>15. ASSUME NEW s \in Syncs, WaitStart(s) PROVE Flags'
  BY <1>15, <1>0 DEF WaitStart, Goto, Set, fields, semaphores, bt, encoder
<1>16. ASSUME NEW s \in Syncs, TellStarted(s) PROVE Flags'
  BY <1>16, <1>0 DEF TellStarted, Goto, Set, fields, semaphores, bt, encoder, data
<1>17. ASSUME NEW s \in Syncs, CheckExit(s) PROVE Flags'
  BY <1>17, <1>0 DEF CheckExit, Goto, fields, signals, semaphores, bt, encoder, data
<1>18. ASSUME NEW s \in Syncs, CheckStop(s) PROVE Flags'
  BY <1>18, <1>0 DEF CheckStop, Goto, Set, signals, semaphores, bt, encoder, data
<1>19. ASSUME NEW s \in Syncs, TellStopped(s) PROVE Flags'
  BY <1>19, <1>0 DEF TellStopped, Goto, Set, fields, semaphores, bt, encoder, data
<1>20. ASSUME NEW s \in Syncs, CheckGoOn(s) PROVE Flags'
  BY <1>20, <1>0 DEF CheckGoOn, Goto, fields, signals, semaphores, bt, encoder, data
<1>21. ASSUME NEW s \in Syncs, WaitFree(s) PROVE Flags'
  BY <1>21, <1>0 DEF WaitFree, Goto, Dec, Slot, fields, signals, bt, encoder
<1>22. ASSUME NEW s \in Syncs, ReleaseFilled(s) PROVE Flags'
  BY <1>22, <1>0 DEF ReleaseFilled, Goto, Inc, Release, fields, signals, bt, encoder, data
<1>23. ASSUME NEW s \in Syncs, EnterToMove(s) PROVE Flags'
  BY <1>23, <1>0 DEF EnterToMove, Goto, Set, fields, signals, semaphores, bt, encoder, data
<1>24. ASSUME NEW s \in Syncs, LeaveMoved(s) PROVE Flags'
  BY <1>24, <1>0 DEF LeaveMoved, Goto, Set, fields, signals, semaphores, bt, encoder, data
<1>25. ASSUME NEW s \in Syncs, TellExit(s) PROVE Flags'
  <2>1. exit' \in [Syncs -> BOOLEAN] /\ canStart' \in [Syncs -> BOOLEAN]
    <3>1. /\ exit \in [Syncs -> BOOLEAN] /\ canStart \in [Syncs -> BOOLEAN]
          /\ Set(exit, s, TRUE) \in [Syncs -> BOOLEAN] /\ Set(canStart, s, TRUE) \in [Syncs -> BOOLEAN]
      <4>1. /\ exit \in [Syncs -> BOOLEAN] /\ canStart \in [Syncs -> BOOLEAN] /\ TRUE \in BOOLEAN
        BY <1>0
      <4> HIDE DEF Syncs
      <4> QED
        BY <4>1, Setting, Zenon
    <3>2. \/ exit' = exit /\ canStart' = canStart
          \/ exit' = Set(exit, s, TRUE) /\ canStart' = Set(canStart, s, TRUE)
      BY <1>25, Zenon DEF TellExit
    <3> QED
      BY <3>1, <3>2, Zenon
  <2>2. pc' \in [Threads -> States]
    BY <1>25, <1>0 DEF TellExit, Goto
  <2>3. UNCHANGED <<needStart, stopWriting, csWasEntered, wasStarted, wasStopped, cs, left>>
    BY <1>25 DEF TellExit, data, bt
  <2> HIDE DEF States, Threads, Syncs
  <2> QED
    BY <1>0, <2>1, <2>2, <2>3
<1>26. ASSUME NEW s \in Syncs, WaitExit(s) PROVE Flags'
  BY <1>26, <1>0 DEF WaitExit, Goto, fields, signals, semaphores, bt, encoder, data
<1>27. CASE NeedMove
  BY <1>27, <1>0 DEF NeedMove, Goto, fields, signals, semaphores, bt, encoder, data
<1>28. CASE MoveBlock
  BY <1>28, <1>0 DEF MoveBlock, Goto, fields, signals, semaphores, bt, encoder
<1>29. CASE FillHash
  BY <1>29, <1>0 DEF FillHash, Goto, Inc, Filled, Slot, fields, signals, semaphores, bt, encoder
<1>30. CASE BeginFill
  <2>1. csWasEntered' \in [Syncs -> BOOLEAN] /\ cs' \in [Syncs -> {Nobody, "main", "bt", "hash"}]
    <3>1. /\ Set(csWasEntered, "hash", TRUE) \in [Syncs -> BOOLEAN]
          /\ Set(cs, "hash", "bt") \in [Syncs -> {Nobody, "main", "bt", "hash"}]
      <4>1. /\ csWasEntered \in [Syncs -> BOOLEAN] /\ TRUE \in BOOLEAN /\ "hash" \in Syncs
            /\ cs \in [Syncs -> {Nobody, "main", "bt", "hash"}] /\ "bt" \in {Nobody, "main", "bt", "hash"}
        BY <1>0
      <4> HIDE DEF Syncs
      <4> QED
        BY <4>1, Setting, Zenon
    <3>2. \/ csWasEntered' = csWasEntered /\ cs' = cs
          \/ csWasEntered' = Set(csWasEntered, "hash", TRUE) /\ cs' = Set(cs, "hash", "bt")
      BY <1>30, Zenon DEF BeginFill
    <3>3. csWasEntered \in [Syncs -> BOOLEAN] /\ cs \in [Syncs -> {Nobody, "main", "bt", "hash"}]
      BY <1>0
    <3> QED
      BY <3>1, <3>2, <3>3, Zenon
  <2>2. pc' \in [Threads -> States]
    BY <1>30, <1>0 DEF BeginFill, Goto
  <2>3. UNCHANGED <<needStart, stopWriting, exit, signals, left>>
    BY <1>30 DEF BeginFill
  <2> HIDE DEF States, Threads, Syncs
  <2> QED
    BY <1>0, <2>1, <2>2, <2>3 DEF signals
<1>31. CASE GetNextBlock_Hash
  BY <1>31, <1>0 DEF GetNextBlock_Hash, Goto, fields, signals, semaphores, encoder
<1>32. CASE UseHeads
  BY <1>32, <1>0 DEF UseHeads, fields, signals, semaphores, encoder
<1>33. CASE FillBlock
  BY <1>33, <1>0 DEF FillBlock, Goto, Inc, Filled, Slot, fields, signals, semaphores, bt, encoder
<1>34. CASE EndFill
  BY <1>34, <1>0 DEF EndFill, Goto, Set, signals, semaphores, bt, encoder, data
<1>35. CASE MatchFinderMt_Init
  BY <1>35, <1>0 DEF MatchFinderMt_Init, Goto, fields, signals, semaphores
<1>36. CASE GetNextBlock_Bt
  BY <1>36, <1>0 DEF GetNextBlock_Bt, Goto, fields, signals, semaphores, bt
<1>37. CASE ReleaseStream
  BY <1>37, <1>0 DEF ReleaseStream, Goto, fields, signals, semaphores, bt, encoder, data
<1>38. CASE Destruct
  BY <1>38, <1>0 DEF Destruct, Goto, fields, signals, semaphores, bt, encoder, data
<1>39. ASSUME NEW created \in {{"hash"}, Syncs}, Create(created) PROVE Flags'
  <2>1. CASE created = {"hash"}
    BY <1>39, <2>1, <1>0 DEF Create, fields, signals, semaphores, bt, encoder, data
  <2>2. CASE created = Syncs
    BY <1>39, <2>2, <1>0 DEF Create, fields, signals, semaphores, bt, encoder, data
  <2> QED
    BY <1>39, <2>1, <2>2
<1> QED
  BY <1>1, <1>2, <1>3, <1>4, <1>5, <1>6, <1>7, <1>8, <1>9, <1>10, <1>11, <1>12, <1>13, <1>14, <1>15,
     <1>16, <1>17, <1>18, <1>19, <1>20, <1>21, <1>22, <1>23, <1>24, <1>25, <1>26, <1>27, <1>28,
     <1>29, <1>30, <1>31, <1>32, <1>33, <1>34, <1>35, <1>36, <1>37, <1>38, <1>39
  DEF Next, HashThread, BtThread, EncoderCall, InCall, Consume, Produce

-----------------------------------------------------------------------------
\* A link goes from one phase to the next.
LEMMA LinksStep ==
  ASSUME IInv, [Next]_vars
  PROVE  Links'
<1>0. Flags /\ Links
  BY DEF IInv
<1> USE DEF Links, LinkOff, LinkOn, Quits, Works, Stops, Consumes, Consumer, Syncs,
   Threads, Getting, Stopping, Moving, Quitting, Flags
<1>1. CASE UNCHANGED vars
  BY <1>1, <1>0 DEF vars, fields, signals, semaphores, bt, encoder, data
<1>2. ASSUME NEW s \in Syncs, GetStart(s) PROVE Links'
  BY <1>2, <1>0 DEF GetStart, Goto, Set, semaphores, bt, encoder, data
<1>3. ASSUME NEW s \in Syncs, WaitStarted(s) PROVE Links'
  BY <1>3, <1>0 DEF WaitStarted, Goto, Set, fields, semaphores, bt, encoder, data
<1>4. ASSUME NEW s \in Syncs, GetLeave(s) PROVE Links'
  BY <1>4, <1>0 DEF GetLeave, Goto, Set, Inc, signals, semaphores, bt, encoder, data
<1>5. ASSUME NEW s \in Syncs, GetFree(s) PROVE Links'
  BY <1>5, <1>0 DEF GetFree, Goto, Inc, Release, fields, signals, bt, encoder, data
<1>6. ASSUME NEW s \in Syncs, WaitFilled(s) PROVE Links'
  BY <1>6, <1>0 DEF WaitFilled, Goto, Dec, fields, signals, bt, encoder, data
<1>7. ASSUME NEW s \in Syncs, EnterSection(s) PROVE Links'
  BY <1>7, <1>0 DEF EnterSection, Goto, Set, signals, semaphores, encoder
<1>8. ASSUME NEW s \in Syncs, StopNothing(s) PROVE Links'
  BY <1>8, <1>0 DEF StopNothing, Goto, Stopped, fields, signals, semaphores, bt, encoder, data
<1>9. ASSUME NEW s \in Syncs, StopWriting(s) PROVE Links'
  BY <1>9, <1>0 DEF StopWriting, Goto, Set, signals, semaphores, bt, encoder
<1>10. ASSUME NEW s \in Syncs, StopLeave(s) PROVE Links'
  BY <1>10, <1>0 DEF StopLeave, Goto, Set, signals, semaphores, bt, encoder, data
<1>11. ASSUME NEW s \in Syncs, StopWake(s) PROVE Links'
  BY <1>11, <1>0 DEF StopWake, Goto, Inc, Release, fields, signals, bt, encoder, data
<1>12. ASSUME NEW s \in Syncs, WaitStopped(s) PROVE Links'
  BY <1>12, <1>0 DEF WaitStopped, Goto, Set, fields, semaphores, bt, encoder, data
<1>13. ASSUME NEW s \in Syncs, Drain(s) PROVE Links'
  BY <1>13, <1>0 DEF Drain, Inc, Dec, Release, fields, signals, bt, encoder
<1>14. ASSUME NEW s \in Syncs, Drained(s) PROVE Links'
  BY <1>14, <1>0 DEF Drained, Goto, Set, Stopped, signals, semaphores, bt, encoder, data
<1>15. ASSUME NEW s \in Syncs, WaitStart(s) PROVE Links'
  BY <1>15, <1>0 DEF WaitStart, Goto, Set, fields, semaphores, bt, encoder
<1>16. ASSUME NEW s \in Syncs, TellStarted(s) PROVE Links'
  BY <1>16, <1>0 DEF TellStarted, Goto, Set, fields, semaphores, bt, encoder, data
<1>17. ASSUME NEW s \in Syncs, CheckExit(s) PROVE Links'
  BY <1>17, <1>0 DEF CheckExit, Goto, fields, signals, semaphores, bt, encoder, data
<1>18. ASSUME NEW s \in Syncs, CheckStop(s) PROVE Links'
  BY <1>18, <1>0 DEF CheckStop, Goto, Set, signals, semaphores, bt, encoder, data
<1>19. ASSUME NEW s \in Syncs, TellStopped(s) PROVE Links'
  BY <1>19, <1>0 DEF TellStopped, Goto, Set, fields, semaphores, bt, encoder, data
<1>20. ASSUME NEW s \in Syncs, CheckGoOn(s) PROVE Links'
  BY <1>20, <1>0 DEF CheckGoOn, Goto, fields, signals, semaphores, bt, encoder, data
<1>21. ASSUME NEW s \in Syncs, WaitFree(s) PROVE Links'
  BY <1>21, <1>0 DEF WaitFree, Goto, Dec, Slot, fields, signals, bt, encoder
<1>22. ASSUME NEW s \in Syncs, ReleaseFilled(s) PROVE Links'
  BY <1>22, <1>0 DEF ReleaseFilled, Goto, Inc, Release, fields, signals, bt, encoder, data
<1>23. ASSUME NEW s \in Syncs, EnterToMove(s) PROVE Links'
  BY <1>23, <1>0 DEF EnterToMove, Goto, Set, fields, signals, semaphores, bt, encoder, data
<1>24. ASSUME NEW s \in Syncs, LeaveMoved(s) PROVE Links'
  BY <1>24, <1>0 DEF LeaveMoved, Goto, Set, fields, signals, semaphores, bt, encoder, data
<1>25. ASSUME NEW s \in Syncs, TellExit(s) PROVE Links'
  BY <1>25, <1>0 DEF TellExit, Goto, Set, semaphores, bt, encoder, data
<1>26. ASSUME NEW s \in Syncs, WaitExit(s) PROVE Links'
  BY <1>26, <1>0 DEF WaitExit, Goto, fields, signals, semaphores, bt, encoder, data
<1>27. CASE NeedMove
  BY <1>27, <1>0 DEF NeedMove, Goto, fields, signals, semaphores, bt, encoder, data
<1>28. CASE MoveBlock
  BY <1>28, <1>0 DEF MoveBlock, Goto, fields, signals, semaphores, bt, encoder
<1>29. CASE FillHash
  BY <1>29, <1>0 DEF FillHash, Goto, Inc, Filled, Slot, fields, signals, semaphores, bt, encoder
<1>30. CASE BeginFill
  BY <1>30, <1>0 DEF BeginFill, Goto, Set, signals, semaphores, encoder
<1>31. CASE GetNextBlock_Hash
  BY <1>31, <1>0 DEF GetNextBlock_Hash, Goto, fields, signals, semaphores, encoder
<1>32. CASE UseHeads
  BY <1>32, <1>0 DEF UseHeads, fields, signals, semaphores, encoder
<1>33. CASE FillBlock
  BY <1>33, <1>0 DEF FillBlock, Goto, Inc, Filled, Slot, fields, signals, semaphores, bt, encoder
<1>34. CASE EndFill
  BY <1>34, <1>0 DEF EndFill, Goto, Set, signals, semaphores, bt, encoder, data
<1>35. CASE MatchFinderMt_Init
  BY <1>35, <1>0 DEF MatchFinderMt_Init, Goto, fields, signals, semaphores
<1>36. CASE GetNextBlock_Bt
  BY <1>36, <1>0 DEF GetNextBlock_Bt, Goto, fields, signals, semaphores, bt
<1>37. CASE ReleaseStream
  BY <1>37, <1>0 DEF ReleaseStream, Goto, fields, signals, semaphores, bt, encoder, data
<1>38. CASE Destruct
  BY <1>38, <1>0 DEF Destruct, Goto, fields, signals, semaphores, bt, encoder, data
<1>39. ASSUME NEW created \in {{"hash"}, Syncs}, Create(created) PROVE Links'
  <2>1. CASE created = {"hash"}
    BY <1>39, <2>1, <1>0 DEF Create, fields, signals, semaphores, bt, encoder, data
  <2>2. CASE created = Syncs
    BY <1>39, <2>2, <1>0 DEF Create, fields, signals, semaphores, bt, encoder, data
  <2> QED
    BY <1>39, <2>1, <2>2
<1> QED
  BY <1>1, <1>2, <1>3, <1>4, <1>5, <1>6, <1>7, <1>8, <1>9, <1>10, <1>11, <1>12, <1>13, <1>14, <1>15,
     <1>16, <1>17, <1>18, <1>19, <1>20, <1>21, <1>22, <1>23, <1>24, <1>25, <1>26, <1>27, <1>28,
     <1>29, <1>30, <1>31, <1>32, <1>33, <1>34, <1>35, <1>36, <1>37, <1>38, <1>39
  DEF Next, HashThread, BtThread, EncoderCall, InCall, Consume, Produce

-----------------------------------------------------------------------------
\* A section is entered when nobody is in it, and left by who is.
LEMMA SectionsStep ==
  ASSUME IInv, [Next]_vars
  PROVE  Sections'
<1>0. Flags /\ Links /\ Sections
  BY DEF IInv
<1> USE DEF Links, LinkOff, LinkOn, Quits, Works, Stops, Consumes, Consumer, Syncs,
   Threads, Getting, Stopping, Moving, Quitting, Flags, Sections, Nobody
<1>1. CASE UNCHANGED vars
  BY <1>1, <1>0 DEF vars, fields, signals, semaphores, bt, encoder, data
<1>2. ASSUME NEW s \in Syncs, GetStart(s) PROVE Sections'
  BY <1>2, <1>0 DEF GetStart, Goto, Set, semaphores, bt, encoder, data
<1>3. ASSUME NEW s \in Syncs, WaitStarted(s) PROVE Sections'
  BY <1>3, <1>0 DEF WaitStarted, Goto, Set, fields, semaphores, bt, encoder, data
<1>4. ASSUME NEW s \in Syncs, GetLeave(s) PROVE Sections'
  BY <1>4, <1>0 DEF GetLeave, Goto, Set, Inc, signals, semaphores, bt, encoder, data
<1>5. ASSUME NEW s \in Syncs, GetFree(s) PROVE Sections'
  BY <1>5, <1>0 DEF GetFree, Goto, Inc, Release, fields, signals, bt, encoder, data
<1>6. ASSUME NEW s \in Syncs, WaitFilled(s) PROVE Sections'
  BY <1>6, <1>0 DEF WaitFilled, Goto, Dec, fields, signals, bt, encoder, data
<1>7. ASSUME NEW s \in Syncs, EnterSection(s) PROVE Sections'
  BY <1>7, <1>0 DEF EnterSection, Goto, Set, signals, semaphores, encoder
<1>8. ASSUME NEW s \in Syncs, StopNothing(s) PROVE Sections'
  BY <1>8, <1>0 DEF StopNothing, Goto, Stopped, fields, signals, semaphores, bt, encoder, data
<1>9. ASSUME NEW s \in Syncs, StopWriting(s) PROVE Sections'
  BY <1>9, <1>0 DEF StopWriting, Goto, Set, signals, semaphores, bt, encoder
<1>10. ASSUME NEW s \in Syncs, StopLeave(s) PROVE Sections'
  BY <1>10, <1>0 DEF StopLeave, Goto, Set, signals, semaphores, bt, encoder, data
<1>11. ASSUME NEW s \in Syncs, StopWake(s) PROVE Sections'
  BY <1>11, <1>0 DEF StopWake, Goto, Inc, Release, fields, signals, bt, encoder, data
<1>12. ASSUME NEW s \in Syncs, WaitStopped(s) PROVE Sections'
  BY <1>12, <1>0 DEF WaitStopped, Goto, Set, fields, semaphores, bt, encoder, data
<1>13. ASSUME NEW s \in Syncs, Drain(s) PROVE Sections'
  BY <1>13, <1>0 DEF Drain, Inc, Dec, Release, fields, signals, bt, encoder
<1>14. ASSUME NEW s \in Syncs, Drained(s) PROVE Sections'
  BY <1>14, <1>0 DEF Drained, Goto, Set, Stopped, signals, semaphores, bt, encoder, data
<1>15. ASSUME NEW s \in Syncs, WaitStart(s) PROVE Sections'
  BY <1>15, <1>0 DEF WaitStart, Goto, Set, fields, semaphores, bt, encoder
<1>16. ASSUME NEW s \in Syncs, TellStarted(s) PROVE Sections'
  BY <1>16, <1>0 DEF TellStarted, Goto, Set, fields, semaphores, bt, encoder, data
<1>17. ASSUME NEW s \in Syncs, CheckExit(s) PROVE Sections'
  BY <1>17, <1>0 DEF CheckExit, Goto, fields, signals, semaphores, bt, encoder, data
<1>18. ASSUME NEW s \in Syncs, CheckStop(s) PROVE Sections'
  BY <1>18, <1>0 DEF CheckStop, Goto, Set, signals, semaphores, bt, encoder, data
<1>19. ASSUME NEW s \in Syncs, TellStopped(s) PROVE Sections'
  BY <1>19, <1>0 DEF TellStopped, Goto, Set, fields, semaphores, bt, encoder, data
<1>20. ASSUME NEW s \in Syncs, CheckGoOn(s) PROVE Sections'
  BY <1>20, <1>0 DEF CheckGoOn, Goto, fields, signals, semaphores, bt, encoder, data
<1>21. ASSUME NEW s \in Syncs, WaitFree(s) PROVE Sections'
  BY <1>21, <1>0 DEF WaitFree, Goto, Dec, Slot, fields, signals, bt, encoder
<1>22. ASSUME NEW s \in Syncs, ReleaseFilled(s) PROVE Sections'
  BY <1>22, <1>0 DEF ReleaseFilled, Goto, Inc, Release, fields, signals, bt, encoder, data
<1>23. ASSUME NEW s \in Syncs, EnterToMove(s) PROVE Sections'
  BY <1>23, <1>0 DEF EnterToMove, Goto, Set, fields, signals, semaphores, bt, encoder, data
<1>24. ASSUME NEW s \in Syncs, LeaveMoved(s) PROVE Sections'
  BY <1>24, <1>0 DEF LeaveMoved, Goto, Set, fields, signals, semaphores, bt, encoder, data
<1>25. ASSUME NEW s \in Syncs, TellExit(s) PROVE Sections'
  BY <1>25, <1>0 DEF TellExit, Goto, Set, semaphores, bt, encoder, data
<1>26. ASSUME NEW s \in Syncs, WaitExit(s) PROVE Sections'
  BY <1>26, <1>0 DEF WaitExit, Goto, fields, signals, semaphores, bt, encoder, data
<1>27. CASE NeedMove
  BY <1>27, <1>0 DEF NeedMove, Goto, fields, signals, semaphores, bt, encoder, data
<1>28. CASE MoveBlock
  BY <1>28, <1>0 DEF MoveBlock, Goto, fields, signals, semaphores, bt, encoder
<1>29. CASE FillHash
  BY <1>29, <1>0 DEF FillHash, Goto, Inc, Filled, Slot, fields, signals, semaphores, bt, encoder
<1>30. CASE BeginFill
  BY <1>30, <1>0 DEF BeginFill, Goto, Set, signals, semaphores, encoder
<1>31. CASE GetNextBlock_Hash
  BY <1>31, <1>0 DEF GetNextBlock_Hash, Goto, fields, signals, semaphores, encoder
<1>32. CASE UseHeads
  BY <1>32, <1>0 DEF UseHeads, fields, signals, semaphores, encoder
<1>33. CASE FillBlock
  BY <1>33, <1>0 DEF FillBlock, Goto, Inc, Filled, Slot, fields, signals, semaphores, bt, encoder
<1>34. CASE EndFill
  BY <1>34, <1>0 DEF EndFill, Goto, Set, signals, semaphores, bt, encoder, data
<1>35. CASE MatchFinderMt_Init
  BY <1>35, <1>0 DEF MatchFinderMt_Init, Goto, fields, signals, semaphores
<1>36. CASE GetNextBlock_Bt
  BY <1>36, <1>0 DEF GetNextBlock_Bt, Goto, fields, signals, semaphores, bt
<1>37. CASE ReleaseStream
  BY <1>37, <1>0 DEF ReleaseStream, Goto, fields, signals, semaphores, bt, encoder, data
<1>38. CASE Destruct
  BY <1>38, <1>0 DEF Destruct, Goto, fields, signals, semaphores, bt, encoder, data
<1>39. ASSUME NEW created \in {{"hash"}, Syncs}, Create(created) PROVE Sections'
  <2>1. CASE created = {"hash"}
    BY <1>39, <2>1, <1>0 DEF Create, fields, signals, semaphores, bt, encoder, data
  <2>2. CASE created = Syncs
    BY <1>39, <2>2, <1>0 DEF Create, fields, signals, semaphores, bt, encoder, data
  <2> QED
    BY <1>39, <2>1, <2>2
<1> QED
  BY <1>1, <1>2, <1>3, <1>4, <1>5, <1>6, <1>7, <1>8, <1>9, <1>10, <1>11, <1>12, <1>13, <1>14, <1>15,
     <1>16, <1>17, <1>18, <1>19, <1>20, <1>21, <1>22, <1>23, <1>24, <1>25, <1>26, <1>27, <1>28,
     <1>29, <1>30, <1>31, <1>32, <1>33, <1>34, <1>35, <1>36, <1>37, <1>38, <1>39
  DEF Next, HashThread, BtThread, EncoderCall, InCall, Consume, Produce

-----------------------------------------------------------------------------
\* The hash heads are used up, or forgotten when a stream begins.
LEMMA NothingLeftStep ==
  ASSUME IInv, [Next]_vars
  PROVE  NothingLeft'
<1>0. Flags /\ Links /\ NothingLeft
  BY DEF IInv
<1> USE DEF Links, LinkOff, LinkOn, Quits, Works, Stops, Consumes, Consumer, Syncs,
   Threads, Getting, Stopping, Moving, Quitting, Flags, NothingLeft, Anew
<1>1. CASE UNCHANGED vars
  BY <1>1, <1>0 DEF vars, fields, signals, semaphores, bt, encoder, data
<1>2. ASSUME NEW s \in Syncs, GetStart(s) PROVE NothingLeft'
  BY <1>2, <1>0 DEF GetStart, Goto, Set, semaphores, bt, encoder, data
<1>3. ASSUME NEW s \in Syncs, WaitStarted(s) PROVE NothingLeft'
  BY <1>3, <1>0 DEF WaitStarted, Goto, Set, fields, semaphores, bt, encoder, data
<1>4. ASSUME NEW s \in Syncs, GetLeave(s) PROVE NothingLeft'
  BY <1>4, <1>0 DEF GetLeave, Goto, Set, Inc, signals, semaphores, bt, encoder, data
<1>5. ASSUME NEW s \in Syncs, GetFree(s) PROVE NothingLeft'
  BY <1>5, <1>0 DEF GetFree, Goto, Inc, Release, fields, signals, bt, encoder, data
<1>6. ASSUME NEW s \in Syncs, WaitFilled(s) PROVE NothingLeft'
  BY <1>6, <1>0 DEF WaitFilled, Goto, Dec, fields, signals, bt, encoder, data
<1>7. ASSUME NEW s \in Syncs, EnterSection(s) PROVE NothingLeft'
  BY <1>7, <1>0 DEF EnterSection, Goto, Set, signals, semaphores, encoder
<1>8. ASSUME NEW s \in Syncs, StopNothing(s) PROVE NothingLeft'
  BY <1>8, <1>0 DEF StopNothing, Goto, Stopped, fields, signals, semaphores, bt, encoder, data
<1>9. ASSUME NEW s \in Syncs, StopWriting(s) PROVE NothingLeft'
  BY <1>9, <1>0 DEF StopWriting, Goto, Set, signals, semaphores, bt, encoder
<1>10. ASSUME NEW s \in Syncs, StopLeave(s) PROVE NothingLeft'
  BY <1>10, <1>0 DEF StopLeave, Goto, Set, signals, semaphores, bt, encoder, data
<1>11. ASSUME NEW s \in Syncs, StopWake(s) PROVE NothingLeft'
  BY <1>11, <1>0 DEF StopWake, Goto, Inc, Release, fields, signals, bt, encoder, data
<1>12. ASSUME NEW s \in Syncs, WaitStopped(s) PROVE NothingLeft'
  BY <1>12, <1>0 DEF WaitStopped, Goto, Set, fields, semaphores, bt, encoder, data
<1>13. ASSUME NEW s \in Syncs, Drain(s) PROVE NothingLeft'
  BY <1>13, <1>0 DEF Drain, Inc, Dec, Release, fields, signals, bt, encoder
<1>14. ASSUME NEW s \in Syncs, Drained(s) PROVE NothingLeft'
  BY <1>14, <1>0 DEF Drained, Goto, Set, Stopped, signals, semaphores, bt, encoder, data
<1>15. ASSUME NEW s \in Syncs, WaitStart(s) PROVE NothingLeft'
  BY <1>15, <1>0 DEF WaitStart, Goto, Set, fields, semaphores, bt, encoder
<1>16. ASSUME NEW s \in Syncs, TellStarted(s) PROVE NothingLeft'
  BY <1>16, <1>0 DEF TellStarted, Goto, Set, fields, semaphores, bt, encoder, data
<1>17. ASSUME NEW s \in Syncs, CheckExit(s) PROVE NothingLeft'
  BY <1>17, <1>0 DEF CheckExit, Goto, fields, signals, semaphores, bt, encoder, data
<1>18. ASSUME NEW s \in Syncs, CheckStop(s) PROVE NothingLeft'
  BY <1>18, <1>0 DEF CheckStop, Goto, Set, signals, semaphores, bt, encoder, data
<1>19. ASSUME NEW s \in Syncs, TellStopped(s) PROVE NothingLeft'
  BY <1>19, <1>0 DEF TellStopped, Goto, Set, fields, semaphores, bt, encoder, data
<1>20. ASSUME NEW s \in Syncs, CheckGoOn(s) PROVE NothingLeft'
  BY <1>20, <1>0 DEF CheckGoOn, Goto, fields, signals, semaphores, bt, encoder, data
<1>21. ASSUME NEW s \in Syncs, WaitFree(s) PROVE NothingLeft'
  BY <1>21, <1>0 DEF WaitFree, Goto, Dec, Slot, fields, signals, bt, encoder
<1>22. ASSUME NEW s \in Syncs, ReleaseFilled(s) PROVE NothingLeft'
  BY <1>22, <1>0 DEF ReleaseFilled, Goto, Inc, Release, fields, signals, bt, encoder, data
<1>23. ASSUME NEW s \in Syncs, EnterToMove(s) PROVE NothingLeft'
  BY <1>23, <1>0 DEF EnterToMove, Goto, Set, fields, signals, semaphores, bt, encoder, data
<1>24. ASSUME NEW s \in Syncs, LeaveMoved(s) PROVE NothingLeft'
  BY <1>24, <1>0 DEF LeaveMoved, Goto, Set, fields, signals, semaphores, bt, encoder, data
<1>25. ASSUME NEW s \in Syncs, TellExit(s) PROVE NothingLeft'
  BY <1>25, <1>0 DEF TellExit, Goto, Set, semaphores, bt, encoder, data
<1>26. ASSUME NEW s \in Syncs, WaitExit(s) PROVE NothingLeft'
  BY <1>26, <1>0 DEF WaitExit, Goto, fields, signals, semaphores, bt, encoder, data
<1>27. CASE NeedMove
  BY <1>27, <1>0 DEF NeedMove, Goto, fields, signals, semaphores, bt, encoder, data
<1>28. CASE MoveBlock
  BY <1>28, <1>0 DEF MoveBlock, Goto, fields, signals, semaphores, bt, encoder
<1>29. CASE FillHash
  BY <1>29, <1>0 DEF FillHash, Goto, Inc, Filled, Slot, fields, signals, semaphores, bt, encoder
<1>30. CASE BeginFill
  BY <1>30, <1>0 DEF BeginFill, Goto, Set, signals, semaphores, encoder
<1>31. CASE GetNextBlock_Hash
  BY <1>31, <1>0 DEF GetNextBlock_Hash, Goto, fields, signals, semaphores, encoder
<1>32. CASE UseHeads
  BY <1>32, <1>0 DEF UseHeads, fields, signals, semaphores, encoder
<1>33. CASE FillBlock
  BY <1>33, <1>0 DEF FillBlock, Goto, Inc, Filled, Slot, fields, signals, semaphores, bt, encoder
<1>34. CASE EndFill
  BY <1>34, <1>0 DEF EndFill, Goto, Set, signals, semaphores, bt, encoder, data
<1>35. CASE MatchFinderMt_Init
  BY <1>35, <1>0 DEF MatchFinderMt_Init, Goto, fields, signals, semaphores
<1>36. CASE GetNextBlock_Bt
  BY <1>36, <1>0 DEF GetNextBlock_Bt, Goto, fields, signals, semaphores, bt
<1>37. CASE ReleaseStream
  BY <1>37, <1>0 DEF ReleaseStream, Goto, fields, signals, semaphores, bt, encoder, data
<1>38. CASE Destruct
  BY <1>38, <1>0 DEF Destruct, Goto, fields, signals, semaphores, bt, encoder, data
<1>39. ASSUME NEW created \in {{"hash"}, Syncs}, Create(created) PROVE NothingLeft'
  <2>1. CASE created = {"hash"}
    BY <1>39, <2>1, <1>0 DEF Create, fields, signals, semaphores, bt, encoder, data
  <2>2. CASE created = Syncs
    BY <1>39, <2>2, <1>0 DEF Create, fields, signals, semaphores, bt, encoder, data
  <2> QED
    BY <1>39, <2>1, <2>2
<1> QED
  BY <1>1, <1>2, <1>3, <1>4, <1>5, <1>6, <1>7, <1>8, <1>9, <1>10, <1>11, <1>12, <1>13, <1>14, <1>15,
     <1>16, <1>17, <1>18, <1>19, <1>20, <1>21, <1>22, <1>23, <1>24, <1>25, <1>26, <1>27, <1>28,
     <1>29, <1>30, <1>31, <1>32, <1>33, <1>34, <1>35, <1>36, <1>37, <1>38, <1>39
  DEF Next, HashThread, BtThread, EncoderCall, InCall, Consume, Produce

-----------------------------------------------------------------------------
\* What is done to a count leaves it a number.
LEMMA Counting ==
  ASSUME NEW f \in [Syncs -> Nat], NEW s \in Syncs
  PROVE  /\ Inc(f, s) \in [Syncs -> Nat]
         /\ f[s] > 0 => Dec(f, s) \in [Syncs -> Nat]
         /\ \A n \in Nat : Set(f, s, n) \in [Syncs -> Nat]
<1>1. f[s] + 1 \in Nat /\ (f[s] > 0 => f[s] - 1 \in Nat)
  OBVIOUS
<1> QED
  BY <1>1 DEF Inc, Dec, Set

\* So does filling a block, or giving it up.
LEMMA Filling ==
  ASSUME Numbers, NEW s \in Syncs, NEW k, NEW block \in Nat \X Nat
  PROVE  [buf EXCEPT ![s][k] = block] \in [Syncs -> [0..NumBlocks - 1 -> Nat \X Nat]]
BY DEF Numbers

\* Counts stay numbers, also those that are taken from.
LEMMA NumbersStep ==
  ASSUME IInv, [Next]_vars
  PROVE  Numbers'
<1>0. Numbers /\ MaxHeads \in Nat /\ MaxStreams \in Nat /\ MaxBlocks \in Nat /\ "hash" \in Syncs /\ "bt" \in Syncs
  BY SizesAssumption DEF IInv, Syncs
<1> USE DEF Numbers, Nothing
<1>1. CASE UNCHANGED vars
  BY <1>1, <1>0 DEF vars, fields, signals, semaphores, bt, encoder, data
<1>2. ASSUME NEW s \in Syncs, GetStart(s) PROVE Numbers'
  BY <1>2, <1>0, Counting, Filling DEF GetStart, semaphores, bt, encoder, data
<1>3. ASSUME NEW s \in Syncs, WaitStarted(s) PROVE Numbers'
  BY <1>3, <1>0 DEF WaitStarted, fields, semaphores, bt, encoder, data
<1>4. ASSUME NEW s \in Syncs, GetLeave(s) PROVE Numbers'
  BY <1>4, <1>0, Counting, Filling DEF GetLeave, signals, semaphores, bt, encoder, data
<1>5. ASSUME NEW s \in Syncs, GetFree(s) PROVE Numbers'
  BY <1>5, <1>0, Counting, Filling DEF GetFree, Release, fields, signals, bt, encoder, data
<1>6. ASSUME NEW s \in Syncs, WaitFilled(s) PROVE Numbers'
  BY <1>6, <1>0, Counting, Filling DEF WaitFilled, fields, signals, bt, encoder, data
<1>7. ASSUME NEW s \in Syncs, EnterSection(s) PROVE Numbers'
  BY <1>7, <1>0 DEF EnterSection, signals, semaphores, encoder
<1>8. ASSUME NEW s \in Syncs, StopNothing(s) PROVE Numbers'
  BY <1>8, <1>0 DEF StopNothing, Stopped, fields, signals, semaphores, bt, encoder,
     data
<1>9. ASSUME NEW s \in Syncs, StopWriting(s) PROVE Numbers'
  BY <1>9, <1>0, Counting, Filling DEF StopWriting, signals, semaphores, bt, encoder
<1>10. ASSUME NEW s \in Syncs, StopLeave(s) PROVE Numbers'
  BY <1>10, <1>0 DEF StopLeave, signals, semaphores, bt, encoder, data
<1>11. ASSUME NEW s \in Syncs, StopWake(s) PROVE Numbers'
  BY <1>11, <1>0, Counting, Filling DEF StopWake, Release, fields, signals, bt, encoder, data
<1>12. ASSUME NEW s \in Syncs, WaitStopped(s) PROVE Numbers'
  BY <1>12, <1>0 DEF WaitStopped, fields, semaphores, bt, encoder, data
<1>13. ASSUME NEW s \in Syncs, Drain(s) PROVE Numbers'
  BY <1>13, <1>0, Counting, Filling DEF Drain, Release, fields, signals, bt, encoder
<1>14. ASSUME NEW s \in Syncs, Drained(s) PROVE Numbers'
  BY <1>14, <1>0 DEF Drained, Stopped, signals, semaphores, bt, encoder, data
<1>15. ASSUME NEW s \in Syncs, WaitStart(s) PROVE Numbers'
  BY <1>15, <1>0, Counting, Filling DEF WaitStart, fields, semaphores, bt, encoder
<1>16. ASSUME NEW s \in Syncs, TellStarted(s) PROVE Numbers'
  BY <1>16, <1>0 DEF TellStarted, fields, semaphores, bt, encoder, data
<1>17. ASSUME NEW s \in Syncs, CheckExit(s) PROVE Numbers'
  BY <1>17, <1>0 DEF CheckExit, fields, signals, semaphores, bt, encoder, data
<1>18. ASSUME NEW s \in Syncs, CheckStop(s) PROVE Numbers'
  BY <1>18, <1>0, Counting, Filling DEF CheckStop, signals, semaphores, bt, encoder, data
<1>19. ASSUME NEW s \in Syncs, TellStopped(s) PROVE Numbers'
  BY <1>19, <1>0 DEF TellStopped, fields, semaphores, bt, encoder, data
<1>20. ASSUME NEW s \in Syncs, CheckGoOn(s) PROVE Numbers'
  BY <1>20, <1>0 DEF CheckGoOn, fields, signals, semaphores, bt, encoder, data
<1>21. ASSUME NEW s \in Syncs, WaitFree(s) PROVE Numbers'
  BY <1>21, <1>0, Counting, Filling DEF WaitFree, fields, signals, bt, encoder
<1>22. ASSUME NEW s \in Syncs, ReleaseFilled(s) PROVE Numbers'
  BY <1>22, <1>0, Counting, Filling DEF ReleaseFilled, Release, fields, signals, bt, encoder, data
<1>23. ASSUME NEW s \in Syncs, EnterToMove(s) PROVE Numbers'
  BY <1>23, <1>0 DEF EnterToMove, fields, signals, semaphores, bt, encoder, data
<1>24. ASSUME NEW s \in Syncs, LeaveMoved(s) PROVE Numbers'
  BY <1>24, <1>0 DEF LeaveMoved, fields, signals, semaphores, bt, encoder, data
<1>25. ASSUME NEW s \in Syncs, TellExit(s) PROVE Numbers'
  BY <1>25, <1>0 DEF TellExit, semaphores, bt, encoder, data
<1>26. ASSUME NEW s \in Syncs, WaitExit(s) PROVE Numbers'
  BY <1>26, <1>0 DEF WaitExit, fields, signals, semaphores, bt, encoder, data
<1>27. CASE NeedMove
  BY <1>27, <1>0 DEF NeedMove, fields, signals, semaphores, bt, encoder, data
<1>28. CASE MoveBlock
  BY <1>28, <1>0 DEF MoveBlock, fields, signals, semaphores, bt, encoder
<1>29. CASE FillHash
  <2>1. "hash" \in Syncs /\ <<stream, blockIndex["hash"]>> \in Nat \X Nat
    BY <1>0 DEF Syncs
  <2> QED
    BY <1>29, <1>0, <2>1, Counting, Filling
    DEF FillHash, Filled, fields, signals, semaphores, bt, encoder
<1>30. CASE BeginFill
  <2>1. /\ UNCHANGED <<numProcessedBlocks, semaphores, blockIndex, myNumBlocks, buf, encoder>>
        /\ heads' = 0
    BY <1>30 DEF BeginFill
  <2> QED
    BY <1>0, <2>1 DEF semaphores, encoder
<1>31. CASE GetNextBlock_Hash
  BY <1>31, <1>0 DEF GetNextBlock_Hash, fields, signals, semaphores, encoder
<1>32. CASE UseHeads
  BY <1>32, <1>0 DEF UseHeads, fields, signals, semaphores, encoder
<1>33. CASE FillBlock
  <2>1. "bt" \in Syncs /\ <<stream, blockIndex["bt"]>> \in Nat \X Nat
    BY <1>0 DEF Syncs
  <2> QED
    BY <1>33, <1>0, <2>1, Counting, Filling
    DEF FillBlock, Filled, fields, signals, semaphores, bt, encoder
<1>34. CASE EndFill
  BY <1>34, <1>0 DEF EndFill, signals, semaphores, bt, encoder, data
<1>35. CASE MatchFinderMt_Init
  BY <1>35, <1>0 DEF MatchFinderMt_Init, fields, signals, semaphores
<1>36. CASE GetNextBlock_Bt
  BY <1>36, <1>0 DEF GetNextBlock_Bt, fields, signals, semaphores, bt
<1>37. CASE ReleaseStream
  BY <1>37, <1>0 DEF ReleaseStream, fields, signals, semaphores, bt, encoder, data
<1>38. CASE Destruct
  BY <1>38, <1>0 DEF Destruct, fields, signals, semaphores, bt, encoder, data
<1>39. ASSUME NEW created \in {{"hash"}, Syncs}, Create(created) PROVE Numbers'
  <2>1. CASE created = {"hash"}
    BY <1>39, <2>1, <1>0 DEF Create, fields, signals, semaphores, bt, encoder, data
  <2>2. CASE created = Syncs
    BY <1>39, <2>2, <1>0 DEF Create, fields, signals, semaphores, bt, encoder, data
  <2> QED
    BY <1>39, <2>1, <2>2
<1> HIDE DEF Numbers, Nothing
<1> QED
  BY <1>0, <1>1, <1>2, <1>3, <1>4, <1>5, <1>6, <1>7, <1>8, <1>9, <1>10, <1>11, <1>12, <1>13, <1>14,
    <1>15,
     <1>16, <1>17, <1>18, <1>19, <1>20, <1>21, <1>22, <1>23, <1>24, <1>25, <1>26, <1>27, <1>28,
     <1>29, <1>30, <1>31, <1>32, <1>33, <1>34, <1>35, <1>36, <1>37, <1>38, <1>39
  DEF Next, HashThread, BtThread, EncoderCall, InCall, Consume, Produce

-----------------------------------------------------------------------------
\* A block changes hands, and is counted by both sides.
LEMMA CountsStep ==
  ASSUME IInv, [Next]_vars
  PROVE  Counts'
<1>0. Flags /\ Numbers /\ Links
  BY DEF IInv
<1>s. "hash" \in Syncs /\ "bt" \in Syncs
  BY DEF Syncs
<1>b. \A s \in Syncs : /\ freeSemaphore[s] \in Nat /\ filledSemaphore[s] \in Nat
                       /\ numProcessedBlocks[s] \in Nat /\ myNumBlocks[s] \in Nat /\ blockIndex[s] \in Nat
  BY <1>0 DEF Numbers
<1>c. /\ NumBlocks \in Nat \ {0}
      /\ \A s \in Syncs : FilledLink(s) /\ BlocksLink(s)
  BY SizesAssumption DEF IInv, Counts
<1>d. \A s : /\ ConsumerHas(s) <=> ~needStart[s] /\ Holds(s)
             /\ ConsumerHas(s)' <=> ~needStart[s]' /\ Holds(s)'
  BY DEF ConsumerHas, Holds
<1>a. \A s \in Syncs : Same(s) => FilledLink(s)' /\ BlocksLink(s)'
  BY <1>c, <1>d DEF Same, FilledLink, BlocksLink, One
<1> USE <1>0 DEF Same, ProducerHas, Holds, Halts, Uncounted, Works, Waits, Begins, Ahead, Consumer,
  Getting, Stopping, Moving, Syncs, Threads, Links, LinkOff, LinkOn, Quits, Stops, Consumes, Quitting,
  Flags
<1>1. CASE UNCHANGED vars
  <2>1. \A r \in Syncs : Same(r)
    BY <1>1 DEF vars, fields, semaphores, data
  <2> QED
    BY <1>a, <2>1 DEF Counts
<1>2. ASSUME NEW s \in Syncs, GetStart(s) PROVE Counts'
  <2>1. \A r \in Syncs \ {s} : Same(r)
    BY <1>2 DEF GetStart, Goto, Set, semaphores, bt, encoder, data
  <2>2. /\ needStart[s] /\ ~needStart[s]' /\ Begins(s)' /\ ~Halts(s)' /\ Ahead(s)' /\ ~Holds(s)'
        /\ Waits(s)' /\ ~ProducerHas(s) /\ ~ProducerHas(s)'
    BY <1>2 DEF GetStart, Goto, Set, semaphores, bt, encoder, data
  <2>3. /\ numProcessedBlocks'[s] = 1 /\ UNCHANGED <<freeSemaphore, filledSemaphore>>
    BY <1>2 DEF Numbers, GetStart, Goto, Set, semaphores, bt, encoder, data
  <2> HIDE DEF Halts, Holds, Works, Waits, Begins, Ahead, Uncounted, ProducerHas
  <2>4. FilledLink(s)'
    BY <1>b, <1>c, <2>2, <2>3 DEF FilledLink, One
  <2>5. BlocksLink(s)'
    BY <1>b, <1>c, <1>d, <2>2, <2>3 DEF BlocksLink, One
  <2> QED
    BY <1>a, <2>1, <2>4, <2>5 DEF Counts
<1>3. ASSUME NEW s \in Syncs, WaitStarted(s) PROVE Counts'
  <2>1. \A r \in Syncs \ {s} : Same(r)
    BY <1>3 DEF WaitStarted, Goto, Set, fields, semaphores, bt, encoder, data
  <2>2. /\ ~needStart[s] /\ ~needStart[s]' /\ ~Begins(s)' /\ ~Halts(s) /\ ~Halts(s)'
        /\ ~Waits(s) /\ ~Waits(s)' /\ Ahead(s) /\ Ahead(s)' /\ ~Holds(s) /\ ~Holds(s)'
        /\ (Uncounted(s)' <=> Uncounted(s)) /\ (ProducerHas(s)' <=> ProducerHas(s))
    BY <1>3 DEF WaitStarted, Goto, Set, fields, semaphores, bt, encoder, data
  <2>3. /\ UNCHANGED <<freeSemaphore, filledSemaphore, numProcessedBlocks, blockIndex>>
    BY <1>3 DEF Numbers, WaitStarted, Goto, Set, fields, semaphores, bt, encoder, data
  <2> HIDE DEF Halts, Holds, Works, Waits, Begins, Ahead, Uncounted, ProducerHas
  <2>4. FilledLink(s)'
    BY <1>b, <1>c, <2>2, <2>3 DEF FilledLink, One
  <2>5. BlocksLink(s)'
    BY <1>b, <1>c, <1>d, <2>2, <2>3 DEF BlocksLink, One
  <2> QED
    BY <1>a, <2>1, <2>4, <2>5 DEF Counts
<1>4. ASSUME NEW s \in Syncs, GetLeave(s) PROVE Counts'
  <2>1. \A r \in Syncs \ {s} : Same(r)
    BY <1>4 DEF GetLeave, Goto, Set, Inc, signals, semaphores, bt, encoder, data
  <2>2. /\ ~needStart[s] /\ ~needStart[s]' /\ ~Begins(s)' /\ ~Halts(s) /\ ~Halts(s)'
        /\ ~Waits(s) /\ ~Waits(s)' /\ ~Ahead(s) /\ Ahead(s)' /\ Holds(s) /\ Holds(s)'
        /\ (Uncounted(s)' <=> Uncounted(s)) /\ (ProducerHas(s)' <=> ProducerHas(s))
    BY <1>4 DEF GetLeave, Goto, Set, Inc, signals, semaphores, bt, encoder, data
  <2>3. /\ numProcessedBlocks'[s] = numProcessedBlocks[s] + 1
        /\ UNCHANGED <<freeSemaphore, filledSemaphore, blockIndex>>
    BY <1>4 DEF Numbers, GetLeave, Goto, Set, Inc, signals, semaphores, bt, encoder, data
  <2> HIDE DEF Halts, Holds, Works, Waits, Begins, Ahead, Uncounted, ProducerHas
  <2>4. FilledLink(s)'
    BY <1>b, <1>c, <2>2, <2>3 DEF FilledLink, One
  <2>5. BlocksLink(s)'
    BY <1>b, <1>c, <1>d, <2>2, <2>3 DEF BlocksLink, One
  <2> QED
    BY <1>a, <2>1, <2>4, <2>5 DEF Counts
<1>5. ASSUME NEW s \in Syncs, GetFree(s) PROVE Counts'
  <2>1. \A r \in Syncs \ {s} : Same(r)
    BY <1>5 DEF GetFree, Goto, Inc, Release, fields, signals, bt, encoder, data
  <2>2. /\ ~needStart[s] /\ ~needStart[s]' /\ ~Begins(s)' /\ ~Halts(s) /\ ~Halts(s)'
        /\ ~Waits(s) /\ ~Waits(s)' /\ Ahead(s) /\ Ahead(s)' /\ Holds(s) /\ ~Holds(s)'
        /\ (Uncounted(s)' <=> Uncounted(s)) /\ (ProducerHas(s)' <=> ProducerHas(s))
    BY <1>5 DEF GetFree, Goto, Inc, Release, fields, signals, bt, encoder, data
  <2>3. /\ freeSemaphore'[s] = IF freeSemaphore[s] = NumBlocks THEN freeSemaphore[s] ELSE freeSemaphore[s] + 1
        /\ UNCHANGED <<filledSemaphore, numProcessedBlocks, blockIndex>>
    BY <1>5 DEF Numbers, GetFree, Goto, Inc, Release, fields, signals, bt, encoder, data
  <2> HIDE DEF Halts, Holds, Works, Waits, Begins, Ahead, Uncounted, ProducerHas
  <2>4. FilledLink(s)'
    BY <1>b, <1>c, <2>2, <2>3 DEF FilledLink, One
  <2>5. BlocksLink(s)'
    BY <1>b, <1>c, <1>d, <2>2, <2>3 DEF BlocksLink, One
  <2> QED
    BY <1>a, <2>1, <2>4, <2>5 DEF Counts
<1>6. ASSUME NEW s \in Syncs, WaitFilled(s) PROVE Counts'
  <2>1. \A r \in Syncs \ {s} : Same(r)
    BY <1>6 DEF WaitFilled, Goto, Dec, fields, signals, bt, encoder, data
  <2>2. /\ ~needStart[s] /\ ~needStart[s]' /\ ~Begins(s)' /\ ~Halts(s) /\ ~Halts(s)'
        /\ ~Waits(s) /\ ~Waits(s)' /\ Ahead(s) /\ ~Ahead(s)' /\ ~Holds(s) /\ Holds(s)'
        /\ (Uncounted(s)' <=> Uncounted(s)) /\ (ProducerHas(s)' <=> ProducerHas(s))
    BY <1>6 DEF WaitFilled, Goto, Dec, fields, signals, bt, encoder, data
  <2>3. /\ filledSemaphore[s] > 0 /\ filledSemaphore'[s] = filledSemaphore[s] - 1
        /\ UNCHANGED <<freeSemaphore, numProcessedBlocks, blockIndex>>
    BY <1>6 DEF Numbers, WaitFilled, Goto, Dec, fields, signals, bt, encoder, data
  <2> HIDE DEF Halts, Holds, Works, Waits, Begins, Ahead, Uncounted, ProducerHas
  <2>4. FilledLink(s)'
    BY <1>b, <1>c, <2>2, <2>3 DEF FilledLink, One
  <2>5. BlocksLink(s)'
    BY <1>b, <1>c, <1>d, <2>2, <2>3 DEF BlocksLink, One
  <2> QED
    BY <1>a, <2>1, <2>4, <2>5 DEF Counts
<1>7. ASSUME NEW s \in Syncs, EnterSection(s) PROVE Counts'
  <2>1. \A r \in Syncs : Same(r)
    BY <1>7 DEF EnterSection, Goto, Set, signals, semaphores, encoder
  <2> QED
    BY <1>a, <2>1 DEF Counts
<1>8. ASSUME NEW s \in Syncs, StopNothing(s) PROVE Counts'
  <2>1. \A r \in Syncs : Same(r)
    BY <1>8 DEF StopNothing, Goto, Stopped, fields, signals, semaphores, bt, encoder, data
  <2> QED
    BY <1>a, <2>1 DEF Counts
<1>9. ASSUME NEW s \in Syncs, StopWriting(s) PROVE Counts'
  <2>1. \A r \in Syncs \ {s} : Same(r)
    BY <1>9 DEF StopWriting, Goto, Set, signals, semaphores, bt, encoder
  <2>2. /\ ~needStart[s] /\ ~needStart[s]' /\ ~Halts(s) /\ Halts(s)' /\ ~Waits(s) /\ Works(s)'
        /\ ~Ahead(s) /\ Holds(s) /\ Holds(s)' /\ (Uncounted(s)' <=> Uncounted(s))
        /\ (ProducerHas(s)' <=> ProducerHas(s))
    BY <1>9 DEF StopWriting, Goto, Set, signals, semaphores, bt, encoder
  <2>3. /\ myNumBlocks'[s] = numProcessedBlocks[s]
        /\ UNCHANGED <<freeSemaphore, filledSemaphore, numProcessedBlocks, blockIndex>>
    BY <1>9 DEF Numbers, StopWriting, Goto, Set, signals, semaphores, bt, encoder
  <2> HIDE DEF Halts, Holds, Works, Waits, Begins, Ahead, Uncounted, ProducerHas
  <2>4. FilledLink(s)'
    BY <1>b, <1>c, <2>2, <2>3 DEF FilledLink, One
  <2>5. BlocksLink(s)'
    BY <1>b, <1>c, <1>d, <2>2, <2>3 DEF BlocksLink, One
  <2> QED
    BY <1>a, <2>1, <2>4, <2>5 DEF Counts
<1>10. ASSUME NEW s \in Syncs, StopLeave(s) PROVE Counts'
  <2>1. \A r \in Syncs : Same(r)
    BY <1>10 DEF StopLeave, Goto, Set, signals, semaphores, bt, encoder, data
  <2> QED
    BY <1>a, <2>1 DEF Counts
<1>11. ASSUME NEW s \in Syncs, StopWake(s) PROVE Counts'
  <2>1. \A r \in Syncs \ {s} : Same(r)
    BY <1>11 DEF StopWake, Goto, Inc, Release, fields, signals, bt, encoder, data
  <2>2. /\ ~needStart[s] /\ ~needStart[s]' /\ Halts(s) /\ Halts(s)' /\ (Works(s)' <=> Works(s))
        /\ Holds(s) /\ ~Holds(s)' /\ (Uncounted(s)' <=> Uncounted(s))
        /\ (ProducerHas(s)' <=> ProducerHas(s))
    BY <1>11 DEF StopWake, Goto, Inc, Release, fields, signals, bt, encoder, data
  <2>3. /\ freeSemaphore'[s] = IF freeSemaphore[s] = NumBlocks THEN freeSemaphore[s] ELSE freeSemaphore[s] + 1
        /\ UNCHANGED <<filledSemaphore, myNumBlocks, numProcessedBlocks, blockIndex>>
    BY <1>11 DEF Numbers, StopWake, Goto, Inc, Release, fields, signals, bt, encoder, data
  <2> HIDE DEF Halts, Holds, Works, Waits, Begins, Ahead, Uncounted, ProducerHas
  <2>4. FilledLink(s)'
    BY <1>b, <1>c, <2>2, <2>3 DEF FilledLink, One
  <2>5. BlocksLink(s)'
    BY <1>b, <1>c, <1>d, <2>2, <2>3 DEF BlocksLink, One
  <2> QED
    BY <1>a, <2>1, <2>4, <2>5 DEF Counts
<1>12. ASSUME NEW s \in Syncs, WaitStopped(s) PROVE Counts'
  <2>1. \A r \in Syncs : Same(r)
    BY <1>12 DEF WaitStopped, Goto, Set, fields, semaphores, bt, encoder, data
  <2> QED
    BY <1>a, <2>1 DEF Counts
<1>13. ASSUME NEW s \in Syncs, Drain(s) PROVE Counts'
  <2>1. \A r \in Syncs \ {s} : Same(r)
    BY <1>13 DEF Drain, Inc, Dec, Release, fields, signals, bt, encoder
  <2>2. /\ ~needStart[s] /\ ~needStart[s]' /\ Halts(s) /\ Halts(s)' /\ (Works(s)' <=> Works(s))
        /\ ~Holds(s) /\ ~Holds(s)' /\ (Uncounted(s)' <=> Uncounted(s))
        /\ (ProducerHas(s)' <=> ProducerHas(s))
    BY <1>13 DEF Drain, Inc, Dec, Release, fields, signals, bt, encoder
  <2>3. /\ filledSemaphore[s] > 0 /\ filledSemaphore'[s] = filledSemaphore[s] - 1
        /\ myNumBlocks'[s] = myNumBlocks[s] + 1
        /\ freeSemaphore'[s] = IF freeSemaphore[s] = NumBlocks THEN freeSemaphore[s] ELSE freeSemaphore[s] + 1
        /\ UNCHANGED <<numProcessedBlocks, blockIndex>>
    BY <1>13 DEF Numbers, Drain, Inc, Dec, Release, fields, signals, bt, encoder
  <2> HIDE DEF Halts, Holds, Works, Waits, Begins, Ahead, Uncounted, ProducerHas
  <2>4. FilledLink(s)'
    BY <1>b, <1>c, <2>2, <2>3 DEF FilledLink, One
  <2>5. BlocksLink(s)'
    BY <1>b, <1>c, <1>d, <2>2, <2>3 DEF BlocksLink, One
  <2> QED
    BY <1>a, <2>1, <2>4, <2>5 DEF Counts
<1>14. ASSUME NEW s \in Syncs, Drained(s) PROVE Counts'
  <2>1. \A r \in Syncs \ {s} : Same(r)
    BY <1>14 DEF Drained, Goto, Set, Stopped, signals, semaphores, bt, encoder, data
  <2>2. /\ ~needStart[s] /\ needStart[s]' /\ Halts(s) /\ ~Works(s) /\ ~Uncounted(s) /\ ~Holds(s)
        /\ (ProducerHas(s)' <=> ProducerHas(s))
    BY <1>14 DEF Drained, Goto, Set, Stopped, signals, semaphores, bt, encoder, data
  <2>3. /\ myNumBlocks[s] = numProcessedBlocks[s]
        /\ UNCHANGED <<freeSemaphore, filledSemaphore>>
    BY <1>14 DEF Numbers, Drained, Goto, Set, Stopped, signals, semaphores, bt, encoder, data
  <2> HIDE DEF Halts, Holds, Works, Waits, Begins, Ahead, Uncounted, ProducerHas
  <2>4. FilledLink(s)'
    BY <1>b, <1>c, <2>2, <2>3 DEF FilledLink, One
  <2>5. BlocksLink(s)'
    BY <1>b, <1>c, <1>d, <2>2, <2>3 DEF BlocksLink, One
  <2> QED
    BY <1>a, <2>1, <2>4, <2>5 DEF Counts
<1>15. ASSUME NEW s \in Syncs, WaitStart(s) PROVE Counts'
  <2>1. \A r \in Syncs \ {s} : Same(r)
    BY <1>15 DEF WaitStart, Goto, Set, fields, semaphores, bt, encoder
  <2>2. /\ (needStart[s]' <=> needStart[s])
        /\ ~needStart[s] => /\ Begins(s) /\ Begins(s)' /\ Ahead(s) /\ Ahead(s)' /\ Waits(s) /\ ~Uncounted(s)'
                            /\ ~Halts(s) /\ ~Halts(s)' /\ ~Holds(s) /\ ~Holds(s)'
        /\ (ProducerHas(s)' <=> ProducerHas(s))
    BY <1>15 DEF WaitStart, Goto, Set, fields, semaphores, bt, encoder
  <2>3. /\ blockIndex'[s] = 0
        /\ UNCHANGED <<freeSemaphore, filledSemaphore, numProcessedBlocks>>
    BY <1>15 DEF Numbers, WaitStart, Goto, Set, fields, semaphores, bt, encoder
  <2> HIDE DEF Halts, Holds, Works, Waits, Begins, Ahead, Uncounted, ProducerHas
  <2>4. FilledLink(s)'
    BY <1>b, <1>c, <2>2, <2>3 DEF FilledLink, One
  <2>5. BlocksLink(s)'
    BY <1>b, <1>c, <1>d, <2>2, <2>3 DEF BlocksLink, One
  <2> QED
    BY <1>a, <2>1, <2>4, <2>5 DEF Counts
<1>16. ASSUME NEW s \in Syncs, TellStarted(s) PROVE Counts'
  <2>1. \A r \in Syncs : Same(r)
    BY <1>16 DEF TellStarted, Goto, Set, fields, semaphores, bt, encoder, data
  <2> QED
    BY <1>a, <2>1 DEF Counts
<1>17. ASSUME NEW s \in Syncs, CheckExit(s) PROVE Counts'
  <2>1. \A r \in Syncs : Same(r)
    BY <1>17 DEF CheckExit, Goto, fields, signals, semaphores, bt, encoder, data
  <2> QED
    BY <1>a, <2>1 DEF Counts
<1>18. ASSUME NEW s \in Syncs, CheckStop(s) PROVE Counts'
  <2>1. \A r \in Syncs \ {s} : Same(r)
    BY <1>18 DEF CheckStop, Goto, Set, signals, semaphores, bt, encoder, data
  <2>2. /\ ~needStart[s] /\ ~needStart[s]' /\ Halts(s) /\ Halts(s)' /\ (Holds(s)' <=> Holds(s))
        /\ ~Uncounted(s) /\ ~Uncounted(s)' /\ (ProducerHas(s)' <=> ProducerHas(s))
    BY <1>18 DEF CheckStop, Goto, Set, signals, semaphores, bt, encoder, data
  <2>3. /\ numProcessedBlocks'[s] = blockIndex[s]
        /\ UNCHANGED <<freeSemaphore, filledSemaphore, myNumBlocks, blockIndex>>
    BY <1>18 DEF Numbers, CheckStop, Goto, Set, signals, semaphores, bt, encoder, data
  <2> HIDE DEF Halts, Holds, Works, Waits, Begins, Ahead, Uncounted, ProducerHas
  <2>4. FilledLink(s)'
    BY <1>b, <1>c, <2>2, <2>3 DEF FilledLink, One
  <2>5. BlocksLink(s)'
    BY <1>b, <1>c, <1>d, <2>2, <2>3 DEF BlocksLink, One
  <2> QED
    BY <1>a, <2>1, <2>4, <2>5 DEF Counts
<1>19. ASSUME NEW s \in Syncs, TellStopped(s) PROVE Counts'
  <2>1. \A r \in Syncs : Same(r)
    BY <1>19 DEF TellStopped, Goto, Set, fields, semaphores, bt, encoder, data
  <2> QED
    BY <1>a, <2>1 DEF Counts
<1>20. ASSUME NEW s \in Syncs, CheckGoOn(s) PROVE Counts'
  <2>1. \A r \in Syncs : Same(r)
    BY <1>20 DEF CheckGoOn, Goto, fields, signals, semaphores, bt, encoder, data
  <2> QED
    BY <1>a, <2>1 DEF Counts
<1>21. ASSUME NEW s \in Syncs, WaitFree(s) PROVE Counts'
  <2>1. \A r \in Syncs \ {s} : Same(r)
    BY <1>21 DEF WaitFree, Goto, Dec, Slot, fields, signals, bt, encoder
  <2>2. /\ ~needStart[s] /\ ~needStart[s]' /\ (Halts(s)' <=> Halts(s))
        /\ (Holds(s)' <=> Holds(s)) /\ Works(s) /\ Works(s)' /\ ~Waits(s) /\ ~Waits(s)'
        /\ (Begins(s)' <=> Begins(s)) /\ (Ahead(s)' <=> Ahead(s)) /\ ~Uncounted(s)
        /\ ~Uncounted(s)' /\ ~ProducerHas(s) /\ ProducerHas(s)'
    BY <1>21 DEF WaitFree, Goto, Dec, Slot, fields, signals, bt, encoder
  <2>3. /\ freeSemaphore[s] > 0 /\ freeSemaphore'[s] = freeSemaphore[s] - 1
        /\ UNCHANGED <<filledSemaphore, myNumBlocks, numProcessedBlocks, blockIndex>>
    BY <1>21 DEF Numbers, WaitFree, Goto, Dec, Slot, fields, signals, bt, encoder
  <2> HIDE DEF Halts, Holds, Works, Waits, Begins, Ahead, Uncounted, ProducerHas
  <2>4. FilledLink(s)'
    BY <1>b, <1>c, <2>2, <2>3 DEF FilledLink, One
  <2>5. BlocksLink(s)'
    BY <1>b, <1>c, <1>d, <2>2, <2>3 DEF BlocksLink, One
  <2> QED
    BY <1>a, <2>1, <2>4, <2>5 DEF Counts
<1>22. ASSUME NEW s \in Syncs, ReleaseFilled(s) PROVE Counts'
  <2>1. \A r \in Syncs \ {s} : Same(r)
    BY <1>22 DEF ReleaseFilled, Goto, Inc, Release, fields, signals, bt, encoder, data
  <2>2. /\ ~needStart[s] /\ ~needStart[s]' /\ (Halts(s)' <=> Halts(s))
        /\ (Holds(s)' <=> Holds(s)) /\ Works(s) /\ Works(s)' /\ ~Waits(s) /\ ~Waits(s)'
        /\ (Begins(s)' <=> Begins(s)) /\ (Ahead(s)' <=> Ahead(s)) /\ Uncounted(s)
        /\ ~Uncounted(s)' /\ ProducerHas(s) /\ ~ProducerHas(s)'
    BY <1>22 DEF ReleaseFilled, Goto, Inc, Release, fields, signals, bt, encoder, data
  <2>3. /\ filledSemaphore'[s] = IF filledSemaphore[s] = NumBlocks THEN filledSemaphore[s] ELSE filledSemaphore[s] + 1
        /\ UNCHANGED <<freeSemaphore, myNumBlocks, numProcessedBlocks, blockIndex>>
    BY <1>22 DEF Numbers, ReleaseFilled, Goto, Inc, Release, fields, signals, bt, encoder, data
  <2> HIDE DEF Halts, Holds, Works, Waits, Begins, Ahead, Uncounted, ProducerHas
  <2>4. FilledLink(s)'
    BY <1>b, <1>c, <2>2, <2>3 DEF FilledLink, One, BlocksLink
  <2>5. BlocksLink(s)'
    BY <1>b, <1>c, <1>d, <2>2, <2>3 DEF BlocksLink, One
  <2> QED
    BY <1>a, <2>1, <2>4, <2>5 DEF Counts
<1>23. ASSUME NEW s \in Syncs, EnterToMove(s) PROVE Counts'
  <2>1. \A r \in Syncs : Same(r)
    BY <1>23 DEF EnterToMove, Goto, Set, fields, signals, semaphores, bt, encoder, data
  <2> QED
    BY <1>a, <2>1 DEF Counts
<1>24. ASSUME NEW s \in Syncs, LeaveMoved(s) PROVE Counts'
  <2>1. \A r \in Syncs : Same(r)
    BY <1>24 DEF LeaveMoved, Goto, Set, fields, signals, semaphores, bt, encoder, data
  <2> QED
    BY <1>a, <2>1 DEF Counts
<1>25. ASSUME NEW s \in Syncs, TellExit(s) PROVE Counts'
  <2>1. \A r \in Syncs : Same(r)
    BY <1>25 DEF TellExit, Goto, Set, semaphores, bt, encoder, data
  <2> QED
    BY <1>a, <2>1 DEF Counts
<1>26. ASSUME NEW s \in Syncs, WaitExit(s) PROVE Counts'
  <2>1. \A r \in Syncs : Same(r)
    BY <1>26 DEF WaitExit, Goto, fields, signals, semaphores, bt, encoder, data
  <2> QED
    BY <1>a, <2>1 DEF Counts
<1>27. CASE NeedMove
  <2>1. \A r \in Syncs : Same(r)
    BY <1>27 DEF NeedMove, Goto, fields, signals, semaphores, bt, encoder, data
  <2> QED
    BY <1>a, <2>1 DEF Counts
<1>28. CASE MoveBlock
  <2>1. \A r \in Syncs : Same(r)
    BY <1>28 DEF MoveBlock, Goto, fields, signals, semaphores, bt, encoder
  <2> QED
    BY <1>a, <2>1 DEF Counts
<1>29. CASE FillHash
  <2>1. Same("bt")
    BY <1>29 DEF FillHash, Goto, Inc, Filled, Slot, fields, signals, semaphores, bt, encoder
  <2>2. /\ ~needStart["hash"] /\ ~needStart["hash"]' /\ (Halts("hash")' <=> Halts("hash"))
        /\ (Holds("hash")' <=> Holds("hash")) /\ Works("hash") /\ Works("hash")'
        /\ ~Waits("hash") /\ ~Waits("hash")' /\ (Begins("hash")' <=> Begins("hash"))
        /\ (Ahead("hash")' <=> Ahead("hash")) /\ ~Uncounted("hash") /\ Uncounted("hash")'
        /\ ProducerHas("hash") /\ ProducerHas("hash")'
    BY <1>29 DEF FillHash, Goto, Inc, Filled, Slot, fields, signals, semaphores, bt, encoder
  <2>3. /\ blockIndex'["hash"] = blockIndex["hash"] + 1
        /\ UNCHANGED <<freeSemaphore, filledSemaphore, myNumBlocks, numProcessedBlocks>>
    BY <1>29 DEF Numbers, FillHash, Goto, Inc, Filled, Slot, fields, signals, semaphores, bt, encoder
  <2> HIDE DEF Halts, Holds, Works, Waits, Begins, Ahead, Uncounted, ProducerHas
  <2>4. FilledLink("hash")'
    BY <1>b, <1>c, <2>2, <2>3 DEF FilledLink, One
  <2>5. BlocksLink("hash")'
    BY <1>b, <1>c, <1>d, <2>2, <2>3 DEF BlocksLink, One
  <2> QED
    BY <1>a, <2>1, <2>4, <2>5 DEF Counts
<1>30. CASE BeginFill
  <2>1. \A r \in Syncs : Same(r)
    BY <1>30 DEF BeginFill, Goto, Set, signals, semaphores, encoder
  <2> QED
    BY <1>a, <2>1 DEF Counts
<1>31. CASE GetNextBlock_Hash
  <2>1. \A r \in Syncs : Same(r)
    BY <1>31 DEF GetNextBlock_Hash, Goto, fields, signals, semaphores, encoder
  <2> QED
    BY <1>a, <2>1 DEF Counts
<1>32. CASE UseHeads
  <2>1. \A r \in Syncs : Same(r)
    BY <1>32 DEF UseHeads, fields, signals, semaphores, encoder
  <2> QED
    BY <1>a, <2>1 DEF Counts
<1>33. CASE FillBlock
  <2>1. Same("hash")
    BY <1>33 DEF FillBlock, Goto, Inc, Filled, Slot, fields, signals, semaphores, bt, encoder
  <2>2. /\ ~needStart["bt"] /\ ~needStart["bt"]' /\ (Halts("bt")' <=> Halts("bt"))
        /\ (Holds("bt")' <=> Holds("bt")) /\ Works("bt") /\ Works("bt")' /\ ~Waits("bt")
        /\ ~Waits("bt")' /\ (Begins("bt")' <=> Begins("bt")) /\ (Ahead("bt")' <=> Ahead("bt"))
        /\ ~Uncounted("bt") /\ Uncounted("bt")' /\ ProducerHas("bt") /\ ProducerHas("bt")'
    BY <1>33 DEF FillBlock, Goto, Inc, Filled, Slot, fields, signals, semaphores, bt, encoder
  <2>3. /\ blockIndex'["bt"] = blockIndex["bt"] + 1
        /\ UNCHANGED <<freeSemaphore, filledSemaphore, myNumBlocks, numProcessedBlocks>>
    BY <1>33 DEF Numbers, FillBlock, Goto, Inc, Filled, Slot, fields, signals, semaphores, bt, encoder
  <2> HIDE DEF Halts, Holds, Works, Waits, Begins, Ahead, Uncounted, ProducerHas
  <2>4. FilledLink("bt")'
    BY <1>b, <1>c, <2>2, <2>3 DEF FilledLink, One
  <2>5. BlocksLink("bt")'
    BY <1>b, <1>c, <1>d, <2>2, <2>3 DEF BlocksLink, One
  <2> QED
    BY <1>a, <2>1, <2>4, <2>5 DEF Counts
<1>34. CASE EndFill
  <2>1. \A r \in Syncs : Same(r)
    BY <1>34 DEF EndFill, Goto, Set, signals, semaphores, bt, encoder, data
  <2> QED
    BY <1>a, <2>1 DEF Counts
<1>35. CASE MatchFinderMt_Init
  <2>1. \A r \in Syncs : Same(r)
    BY <1>35 DEF MatchFinderMt_Init, Goto, fields, signals, semaphores
  <2> QED
    BY <1>a, <2>1 DEF Counts
<1>36. CASE GetNextBlock_Bt
  <2>1. \A r \in Syncs : Same(r)
    BY <1>36 DEF GetNextBlock_Bt, Goto, fields, signals, semaphores, bt
  <2> QED
    BY <1>a, <2>1 DEF Counts
<1>37. CASE ReleaseStream
  <2>1. \A r \in Syncs : Same(r)
    BY <1>37 DEF ReleaseStream, Goto, fields, signals, semaphores, bt, encoder, data
  <2> QED
    BY <1>a, <2>1 DEF Counts
<1>38. CASE Destruct
  <2>1. \A r \in Syncs : Same(r)
    BY <1>38 DEF Destruct, Goto, fields, signals, semaphores, bt, encoder, data
  <2> QED
    BY <1>a, <2>1 DEF Counts
<1>39. ASSUME NEW created \in {{"hash"}, Syncs}, Create(created) PROVE Counts'
  <2>1. \A r \in Syncs : Same(r)
    BY <1>39 DEF Create, fields, semaphores, data
  <2> QED
    BY <1>a, <2>1 DEF Counts
<1> QED
  BY <1>s, <1>1, <1>2, <1>3, <1>4, <1>5, <1>6, <1>7, <1>8, <1>9, <1>10, <1>11, <1>12, <1>13, <1>14,
    <1>15,
     <1>16, <1>17, <1>18, <1>19, <1>20, <1>21, <1>22, <1>23, <1>24, <1>25, <1>26, <1>27, <1>28,
     <1>29, <1>30, <1>31, <1>32, <1>33, <1>34, <1>35, <1>36, <1>37, <1>38, <1>39
  DEF Next, HashThread, BtThread, EncoderCall, InCall, Consume, Produce

-----------------------------------------------------------------------------
\* A cell of the buffer.
LEMMA Slots == \A i \in Nat : Slot(i) \in 0..NumBlocks - 1
BY SizesAssumption DEF Slot

\* Less than a turn apart, two blocks are in two cells.
LEMMA Cells ==
  ASSUME NEW n \in Nat \ {0}, NEW i \in Nat, NEW j \in Nat, i < j, j < i + n
  PROVE  i % n # j % n
<1> DEFINE p == i \div n  q == j \div n
<1>1. p \in Int /\ q \in Int
  OBVIOUS
<1>2. i = n * p + (i % n) /\ j = n * q + (j % n)
  OBVIOUS
<1>3. SUFFICES ASSUME i % n = j % n PROVE FALSE
  OBVIOUS
<1>4. n * (q - p) = j - i
  BY <1>1, <1>2, <1>3
<1>5. CASE q > p
  <2>1. n * (q - p) >= n
    BY <1>1, <1>5
  <2> QED
    BY <1>1, <1>4, <2>1
<1>6. CASE q <= p
  <2>1. n * (q - p) <= 0
    BY <1>1, <1>6
  <2> QED
    BY <1>1, <1>4, <2>1
<1> QED
  BY <1>1, <1>5, <1>6

\* The block that the producer fills is not one that the consumer has yet to use.
LEMMA Apart ==
  ASSUME IInv, NEW s \in Syncs, InUse(s), freeSemaphore[s] > 0 \/ ProducerHas(s), ~Uncounted(s),
         NEW i \in Nat, Live(s, i)
  PROVE  Slot(i) # Slot(blockIndex[s])
<1>1. /\ freeSemaphore[s] \in Nat /\ filledSemaphore[s] \in Nat /\ numProcessedBlocks[s] \in Nat
      /\ blockIndex[s] \in Nat
      /\ NumBlocks \in Nat \ {0}
  BY SizesAssumption DEF IInv, Numbers
<1>2. FilledLink(s) /\ BlocksLink(s) /\ ~needStart[s] /\ ~Halts(s) /\ ~Waits(s)
  BY DEF IInv, Counts, InUse
<1>3. ConsumerHas(s) \/ Ahead(s)
  BY <1>2 DEF ConsumerHas, Ahead, Halts, Stopping
<1>4. blockIndex[s] < numProcessedBlocks[s] - 1 + NumBlocks
  BY <1>1, <1>2, <1>3 DEF FilledLink, BlocksLink, One
<1> QED
  BY <1>1, <1>4, Cells DEF Live, Slot

\* A block is overwritten only when it is free.
LEMMA IntactStep ==
  ASSUME IInv, [Next]_vars
  PROVE  Intact'
<1>0. Flags /\ Numbers /\ Links
  BY DEF IInv
<1>s. "hash" \in Syncs /\ "bt" \in Syncs
  BY DEF Syncs
<1>b. \A s \in Syncs : numProcessedBlocks[s] \in Nat /\ blockIndex[s] \in Nat
  BY <1>0 DEF Numbers
<1>c. IInv /\ \A s \in Syncs : IntactLink(s)
  BY DEF IInv, Intact
<1>a. ASSUME NEW s \in Syncs, Kept(s) PROVE IntactLink(s)'
  <2> SUFFICES ASSUME InUse(s)', NEW i \in Nat, Live(s, i)'
               PROVE  buf'[s][Slot(i)] = <<stream', i>>
    BY DEF IntactLink
  <2>1. numProcessedBlocks[s] \in Nat /\ numProcessedBlocks'[s] \in Nat
    BY <1>b, NumbersStep DEF Numbers
  <2>2. Live(s, i)
    BY <1>a, <2>1 DEF Kept, Live
  <2> QED
    BY <1>c, <1>a, <2>2 DEF Kept, IntactLink
<1> USE <1>0 DEF Numbers, Kept, InUse, Halts, Waits, Works, Consumer, Getting, Stopping, Moving, Syncs,
  Threads, Links, LinkOff, LinkOn, Quits, Stops, Consumes, Quitting, Flags
<1>1. CASE UNCHANGED vars
  <2>1. \A r \in Syncs : Kept(r)
    BY <1>1 DEF vars, fields, data, encoder
  <2> QED
    BY <1>a, <2>1 DEF Intact
<1>2. ASSUME NEW s \in Syncs, GetStart(s) PROVE Intact'
  <2>1. \A r \in Syncs : Kept(r)
    BY <1>2 DEF GetStart, Goto, Set, semaphores, bt, encoder, data
  <2> QED
    BY <1>a, <2>1 DEF Intact
<1>3. ASSUME NEW s \in Syncs, WaitStarted(s) PROVE Intact'
  <2>1. \A r \in Syncs : Kept(r)
    BY <1>3 DEF WaitStarted, Goto, Set, fields, semaphores, bt, encoder, data
  <2> QED
    BY <1>a, <2>1 DEF Intact
<1>4. ASSUME NEW s \in Syncs, GetLeave(s) PROVE Intact'
  <2>1. \A r \in Syncs : Kept(r)
    BY <1>4 DEF GetLeave, Goto, Set, Inc, signals, semaphores, bt, encoder, data
  <2> QED
    BY <1>a, <2>1 DEF Intact
<1>5. ASSUME NEW s \in Syncs, GetFree(s) PROVE Intact'
  <2>1. \A r \in Syncs : Kept(r)
    BY <1>5 DEF GetFree, Goto, Inc, Release, fields, signals, bt, encoder, data
  <2> QED
    BY <1>a, <2>1 DEF Intact
<1>6. ASSUME NEW s \in Syncs, WaitFilled(s) PROVE Intact'
  <2>1. \A r \in Syncs : Kept(r)
    BY <1>6 DEF WaitFilled, Goto, Dec, fields, signals, bt, encoder, data
  <2> QED
    BY <1>a, <2>1 DEF Intact
<1>7. ASSUME NEW s \in Syncs, EnterSection(s) PROVE Intact'
  <2>1. \A r \in Syncs : Kept(r)
    BY <1>7 DEF EnterSection, Goto, Set, signals, semaphores, encoder
  <2> QED
    BY <1>a, <2>1 DEF Intact
<1>8. ASSUME NEW s \in Syncs, StopNothing(s) PROVE Intact'
  <2>1. \A r \in Syncs : Kept(r)
    BY <1>8 DEF StopNothing, Goto, Stopped, fields, signals, semaphores, bt, encoder, data
  <2> QED
    BY <1>a, <2>1 DEF Intact
<1>9. ASSUME NEW s \in Syncs, StopWriting(s) PROVE Intact'
  <2>1. \A r \in Syncs : Kept(r)
    BY <1>9 DEF StopWriting, Goto, Set, signals, semaphores, bt, encoder
  <2> QED
    BY <1>a, <2>1 DEF Intact
<1>10. ASSUME NEW s \in Syncs, StopLeave(s) PROVE Intact'
  <2>1. \A r \in Syncs : Kept(r)
    BY <1>10 DEF StopLeave, Goto, Set, signals, semaphores, bt, encoder, data
  <2> QED
    BY <1>a, <2>1 DEF Intact
<1>11. ASSUME NEW s \in Syncs, StopWake(s) PROVE Intact'
  <2>1. \A r \in Syncs : Kept(r)
    BY <1>11 DEF StopWake, Goto, Inc, Release, fields, signals, bt, encoder, data
  <2> QED
    BY <1>a, <2>1 DEF Intact
<1>12. ASSUME NEW s \in Syncs, WaitStopped(s) PROVE Intact'
  <2>1. \A r \in Syncs : Kept(r)
    BY <1>12 DEF WaitStopped, Goto, Set, fields, semaphores, bt, encoder, data
  <2> QED
    BY <1>a, <2>1 DEF Intact
<1>13. ASSUME NEW s \in Syncs, Drain(s) PROVE Intact'
  <2>1. \A r \in Syncs : Kept(r)
    BY <1>13 DEF Drain, Inc, Dec, Release, fields, signals, bt, encoder
  <2> QED
    BY <1>a, <2>1 DEF Intact
<1>14. ASSUME NEW s \in Syncs, Drained(s) PROVE Intact'
  <2>1. \A r \in Syncs : Kept(r)
    BY <1>14 DEF Drained, Goto, Set, Stopped, signals, semaphores, bt, encoder, data
  <2> QED
    BY <1>a, <2>1 DEF Intact
<1>15. ASSUME NEW s \in Syncs, WaitStart(s) PROVE Intact'
  <2>1. \A r \in Syncs \ {s} : Kept(r)
    BY <1>15 DEF WaitStart, Goto, Set, fields, semaphores, bt, encoder
  <2>2. IntactLink(s)'
    BY <1>15 DEF IntactLink, Live, WaitStart, Goto, Set, fields, semaphores, bt, encoder
  <2> QED
    BY <1>a, <2>1, <2>2 DEF Intact
<1>16. ASSUME NEW s \in Syncs, TellStarted(s) PROVE Intact'
  <2>1. \A r \in Syncs : Kept(r)
    BY <1>16 DEF TellStarted, Goto, Set, fields, semaphores, bt, encoder, data
  <2> QED
    BY <1>a, <2>1 DEF Intact
<1>17. ASSUME NEW s \in Syncs, CheckExit(s) PROVE Intact'
  <2>1. \A r \in Syncs : Kept(r)
    BY <1>17 DEF CheckExit, Goto, fields, signals, semaphores, bt, encoder, data
  <2> QED
    BY <1>a, <2>1 DEF Intact
<1>18. ASSUME NEW s \in Syncs, CheckStop(s) PROVE Intact'
  <2>1. \A r \in Syncs : Kept(r)
    BY <1>18 DEF CheckStop, Goto, Set, signals, semaphores, bt, encoder, data
  <2> QED
    BY <1>a, <2>1 DEF Intact
<1>19. ASSUME NEW s \in Syncs, TellStopped(s) PROVE Intact'
  <2>1. \A r \in Syncs : Kept(r)
    BY <1>19 DEF TellStopped, Goto, Set, fields, semaphores, bt, encoder, data
  <2> QED
    BY <1>a, <2>1 DEF Intact
<1>20. ASSUME NEW s \in Syncs, CheckGoOn(s) PROVE Intact'
  <2>1. \A r \in Syncs : Kept(r)
    BY <1>20 DEF CheckGoOn, Goto, fields, signals, semaphores, bt, encoder, data
  <2> QED
    BY <1>a, <2>1 DEF Intact
<1>21. ASSUME NEW s \in Syncs, WaitFree(s) PROVE Intact'
  <2>1. \A r \in Syncs \ {s} : Kept(r)
    BY <1>21 DEF WaitFree, Goto, Dec, Slot, fields, signals, bt, encoder
  <2>2. /\ InUse(s)' => InUse(s)
        /\ ~Uncounted(s) /\ freeSemaphore[s] > 0
    BY <1>21 DEF Uncounted, WaitFree, Goto, Dec, Slot, fields, signals, bt, encoder
  <2>3. /\ UNCHANGED <<stream, numProcessedBlocks, blockIndex>>
        /\ \A j \in 0..NumBlocks - 1 : j # Slot(blockIndex[s]) => buf'[s][j] = buf[s][j]
    BY <1>21 DEF WaitFree, fields, encoder
  <2>4. IntactLink(s)'
    <3> HIDE DEF InUse, Uncounted
    <3> QED
      BY <1>b, <1>c, <2>2, <2>3, Apart, Slots DEF IntactLink, Live
  <2> QED
    BY <1>a, <2>1, <2>4 DEF Intact
<1>22. ASSUME NEW s \in Syncs, ReleaseFilled(s) PROVE Intact'
  <2>1. \A r \in Syncs : Kept(r)
    BY <1>22 DEF ReleaseFilled, Goto, Inc, Release, fields, signals, bt, encoder, data
  <2> QED
    BY <1>a, <2>1 DEF Intact
<1>23. ASSUME NEW s \in Syncs, EnterToMove(s) PROVE Intact'
  <2>1. \A r \in Syncs : Kept(r)
    BY <1>23 DEF EnterToMove, Goto, Set, fields, signals, semaphores, bt, encoder, data
  <2> QED
    BY <1>a, <2>1 DEF Intact
<1>24. ASSUME NEW s \in Syncs, LeaveMoved(s) PROVE Intact'
  <2>1. \A r \in Syncs : Kept(r)
    BY <1>24 DEF LeaveMoved, Goto, Set, fields, signals, semaphores, bt, encoder, data
  <2> QED
    BY <1>a, <2>1 DEF Intact
<1>25. ASSUME NEW s \in Syncs, TellExit(s) PROVE Intact'
  <2>1. \A r \in Syncs : Kept(r)
    BY <1>25 DEF TellExit, Goto, Set, semaphores, bt, encoder, data
  <2> QED
    BY <1>a, <2>1 DEF Intact
<1>26. ASSUME NEW s \in Syncs, WaitExit(s) PROVE Intact'
  <2>1. \A r \in Syncs : Kept(r)
    BY <1>26 DEF WaitExit, Goto, fields, signals, semaphores, bt, encoder, data
  <2> QED
    BY <1>a, <2>1 DEF Intact
<1>27. CASE NeedMove
  <2>1. \A r \in Syncs : Kept(r)
    BY <1>27 DEF NeedMove, Goto, fields, signals, semaphores, bt, encoder, data
  <2> QED
    BY <1>a, <2>1 DEF Intact
<1>28. CASE MoveBlock
  <2>1. \A r \in Syncs : Kept(r)
    BY <1>28 DEF MoveBlock, Goto, fields, signals, semaphores, bt, encoder
  <2> QED
    BY <1>a, <2>1 DEF Intact
<1>29. CASE FillHash
  <2>1. Kept("bt")
    BY <1>29 DEF FillHash, Goto, Inc, Filled, Slot, fields, signals, semaphores, bt, encoder
  <2>2. /\ InUse("hash")' => InUse("hash")
        /\ ~Uncounted("hash") /\ ProducerHas("hash")
    BY <1>29 DEF Uncounted, ProducerHas, FillHash, Goto, Inc, Filled, Slot, fields, signals, semaphores,
      bt, encoder
  <2>3. /\ UNCHANGED <<stream, numProcessedBlocks>>
        /\ blockIndex'["hash"] = blockIndex["hash"] + 1
        /\ \A j \in 0..NumBlocks - 1 :
             buf'["hash"][j] = IF j = Slot(blockIndex["hash"]) THEN <<stream, blockIndex["hash"]>> ELSE buf["hash"][j]
    BY <1>29 DEF FillHash, Filled, Inc, fields, encoder
  <2>4. IntactLink("hash")'
    <3> SUFFICES ASSUME InUse("hash")', NEW i \in Nat, Live("hash", i)'
                 PROVE  buf'["hash"][Slot(i)] = <<stream', i>>
      BY DEF IntactLink
    <3>1. CASE i = blockIndex["hash"]
      BY <1>b, <2>3, <3>1, Slots
    <3>2. CASE i # blockIndex["hash"]
      <4>1. Live("hash", i)
        BY <1>b, <2>3, <3>2 DEF Live
      <4> HIDE DEF InUse
      <4> QED
        BY <1>s, <1>b, <1>c, <2>2, <2>3, <4>1, Apart, Slots DEF IntactLink
    <3> QED
      BY <3>1, <3>2
  <2> QED
    BY <1>a, <2>1, <2>4 DEF Intact
<1>30. CASE BeginFill
  <2>1. \A r \in Syncs : Kept(r)
    BY <1>30 DEF BeginFill, Goto, Set, signals, semaphores, encoder
  <2> QED
    BY <1>a, <2>1 DEF Intact
<1>31. CASE GetNextBlock_Hash
  <2>1. \A r \in Syncs : Kept(r)
    BY <1>31 DEF GetNextBlock_Hash, Goto, fields, signals, semaphores, encoder
  <2> QED
    BY <1>a, <2>1 DEF Intact
<1>32. CASE UseHeads
  <2>1. \A r \in Syncs : Kept(r)
    BY <1>32 DEF UseHeads, fields, signals, semaphores, encoder
  <2> QED
    BY <1>a, <2>1 DEF Intact
<1>33. CASE FillBlock
  <2>1. Kept("hash")
    BY <1>33 DEF FillBlock, Goto, Inc, Filled, Slot, fields, signals, semaphores, bt, encoder
  <2>2. /\ InUse("bt")' => InUse("bt")
        /\ ~Uncounted("bt") /\ ProducerHas("bt")
    BY <1>33 DEF Uncounted, ProducerHas, FillBlock, Goto, Inc, Filled, Slot, fields, signals, semaphores,
      bt, encoder
  <2>3. /\ UNCHANGED <<stream, numProcessedBlocks>>
        /\ blockIndex'["bt"] = blockIndex["bt"] + 1
        /\ \A j \in 0..NumBlocks - 1 :
             buf'["bt"][j] = IF j = Slot(blockIndex["bt"]) THEN <<stream, blockIndex["bt"]>> ELSE buf["bt"][j]
    BY <1>33 DEF FillBlock, Filled, Inc, fields, encoder
  <2>4. IntactLink("bt")'
    <3> SUFFICES ASSUME InUse("bt")', NEW i \in Nat, Live("bt", i)'
                 PROVE  buf'["bt"][Slot(i)] = <<stream', i>>
      BY DEF IntactLink
    <3>1. CASE i = blockIndex["bt"]
      BY <1>b, <2>3, <3>1, Slots
    <3>2. CASE i # blockIndex["bt"]
      <4>1. Live("bt", i)
        BY <1>b, <2>3, <3>2 DEF Live
      <4> HIDE DEF InUse
      <4> QED
        BY <1>s, <1>b, <1>c, <2>2, <2>3, <4>1, Apart, Slots DEF IntactLink
    <3> QED
      BY <3>1, <3>2
  <2> QED
    BY <1>a, <2>1, <2>4 DEF Intact
<1>34. CASE EndFill
  <2>1. \A r \in Syncs : Kept(r)
    BY <1>34 DEF EndFill, Goto, Set, signals, semaphores, bt, encoder, data
  <2> QED
    BY <1>a, <2>1 DEF Intact
<1>35. CASE MatchFinderMt_Init
  <2>1. \A r \in Syncs : Kept(r)
    BY <1>35 DEF MatchFinderMt_Init, Goto, fields, signals, semaphores
  <2> QED
    BY <1>a, <2>1 DEF Intact
<1>36. CASE GetNextBlock_Bt
  <2>1. \A r \in Syncs : Kept(r)
    BY <1>36 DEF GetNextBlock_Bt, Goto, fields, signals, semaphores, bt
  <2> QED
    BY <1>a, <2>1 DEF Intact
<1>37. CASE ReleaseStream
  <2>1. \A r \in Syncs : Kept(r)
    BY <1>37 DEF ReleaseStream, Goto, fields, signals, semaphores, bt, encoder, data
  <2> QED
    BY <1>a, <2>1 DEF Intact
<1>38. CASE Destruct
  <2>1. \A r \in Syncs : Kept(r)
    BY <1>38 DEF Destruct, Goto, fields, signals, semaphores, bt, encoder, data
  <2> QED
    BY <1>a, <2>1 DEF Intact
<1>39. ASSUME NEW created \in {{"hash"}, Syncs}, Create(created) PROVE Intact'
  <2>1. \A r \in Syncs : Kept(r)
    BY <1>39 DEF Create, fields, data, encoder
  <2> QED
    BY <1>a, <2>1 DEF Intact
<1> QED
  BY <1>s, <1>1, <1>2, <1>3, <1>4, <1>5, <1>6, <1>7, <1>8, <1>9, <1>10, <1>11, <1>12, <1>13, <1>14,
    <1>15,
     <1>16, <1>17, <1>18, <1>19, <1>20, <1>21, <1>22, <1>23, <1>24, <1>25, <1>26, <1>27, <1>28,
     <1>29, <1>30, <1>31, <1>32, <1>33, <1>34, <1>35, <1>36, <1>37, <1>38, <1>39
  DEF Next, HashThread, BtThread, EncoderCall, InCall, Consume, Produce

-----------------------------------------------------------------------------
\* At the beginning both links are off.
LEMMA InitInvariant == Init => IInv
<1> SUFFICES ASSUME Init PROVE IInv
  OBVIOUS
<1> USE SizesAssumption DEF Init, All, Syncs, Threads, Consumer, Nobody, Nothing
<1>1. Flags
  BY DEF Flags, States
<1>2. Numbers
  BY DEF Numbers
<1>3. Links
  BY DEF Links, LinkOff, Getting, Stopping
<1>4. Sections
  BY DEF Sections
<1>5. NothingLeft
  BY DEF NothingLeft
<1>6. Counts
  BY DEF Counts, FilledLink, BlocksLink, ProducerHas, ConsumerHas, One
<1>7. Intact
  BY DEF Intact, IntactLink, InUse
<1> QED
  BY <1>1, <1>2, <1>3, <1>4, <1>5, <1>6, <1>7 DEF IInv

(***************************************************************************)
(* The invariant: where the threads of a link can be together, what they   *)
(* have counted, and what is in the blocks between them.                   *)
(***************************************************************************)
THEOREM Invariant == Spec => []IInv
<1>1. IInv /\ [Next]_vars => IInv'
  BY FlagsStep, NumbersStep, LinksStep, SectionsStep, NothingLeftStep, CountsStep, IntactStep DEF IInv
<1> QED
  BY <1>1, InitInvariant, PTL DEF Spec

(***************************************************************************)
(* Type correctness: no semaphore exceeds the number of blocks, and        *)
(* csWasEntered tells who is in the section.                               *)
(***************************************************************************)
THEOREM TypeCorrect == Spec => []TypeOK
<1>1. IInv => TypeOK
  <2> SUFFICES ASSUME IInv PROVE TypeOK
    OBVIOUS
  <2>1. Flags /\ Numbers /\ Sections
    BY DEF IInv
  <2>2. ASSUME NEW s \in Syncs PROVE freeSemaphore[s] \in 0..NumBlocks /\ filledSemaphore[s] \in 0..NumBlocks
    <3>1. freeSemaphore[s] \in Nat /\ filledSemaphore[s] \in Nat /\ NumBlocks \in Nat
      BY <2>1, SizesAssumption DEF Numbers
    <3>2. BlocksLink(s)
      BY DEF IInv, Counts
    <3> QED
      BY <3>1, <3>2 DEF BlocksLink, One
  <2>3. freeSemaphore \in [Syncs -> 0..NumBlocks] /\ filledSemaphore \in [Syncs -> 0..NumBlocks]
    BY <2>1, <2>2 DEF Numbers
  <2> QED
    BY <2>1, <2>3 DEF TypeOK, Flags, Numbers, Sections
<1> QED
  BY <1>1, Invariant, PTL

\* A consumer that uses a block is in the section, of a link that was started.
LEMMA UsesInside ==
  ASSUME IInv, NEW s \in Syncs, Using(s)
  PROVE  cs[s] = Consumer(s) /\ InUse(s) /\ ~Ahead(s)
<1>1. Flags /\ Links /\ Sections /\ NothingLeft
  BY DEF IInv
<1>2. CASE s = "hash"
  <2>1. ~needStart["hash"]
    BY <1>1, <1>2 DEF NothingLeft, Anew, Using, Flags, Syncs
  <2> QED
    BY <1>1, <1>2, <2>1
    DEF Sections, Using, InUse, Ahead, Halts, Waits, Stopping, Consumer, Links, LinkOn, Works, Moving,
      Syncs
<1>3. CASE s = "bt"
  <2>1. ~needStart["bt"]
    BY <1>1, <1>3 DEF Links, LinkOff, Using, Consumer, Syncs
  <2> QED
    BY <1>1, <1>3, <2>1
    DEF Sections, Using, InUse, Ahead, Halts, Waits, Stopping, Consumer, Links, LinkOn, Works, Getting,
      Syncs
<1> QED
  BY <1>2, <1>3 DEF Syncs

(***************************************************************************)
(* The hash thread moves the window while neither the encoder nor the bt   *)
(* thread uses a block: it is in both sections then.                       *)
(***************************************************************************)
THEOREM Alone == Spec => []MovesAlone
<1>1. IInv => MovesAlone
  <2> SUFFICES ASSUME IInv, pc["hash"] = "moving", NEW s \in Syncs, Using(s) PROVE FALSE
    BY DEF MovesAlone
  <2>1. cs[s] = "hash"
    BY DEF IInv, Sections, Syncs
  <2> QED
    BY <2>1, UsesInside DEF Consumer, Syncs
<1> QED
  BY <1>1, Invariant, PTL

(***************************************************************************)
(* No block is lost or counted twice, and no release is refused, whenever  *)
(* the encoder stops a stream.                                             *)
(***************************************************************************)
THEOREM Count == Spec => []BlocksCount
<1>1. IInv => BlocksCount
  BY DEF IInv, Counts, BlocksLink, BlocksCount
<1> QED
  BY <1>1, Invariant, PTL

(***************************************************************************)
(* Between two streams the producers wait for a start, all blocks are free *)
(* and no event is left signaled.                                          *)
(***************************************************************************)
THEOREM AtRest == Spec => []Quiescent
<1>1. IInv => Quiescent
  <2> SUFFICES ASSUME IInv, pc["main"] \in {"idle", "ready"}, NEW s \in Syncs
               PROVE  /\ pc[s] = "waitStart" /\ needStart[s] /\ cs[s] = Nobody
                      /\ ~canStart[s] /\ ~wasStarted[s] /\ ~wasStopped[s]
                      /\ freeSemaphore[s] = NumBlocks /\ filledSemaphore[s] = 0
    BY DEF Quiescent
  <2>1. Flags /\ Links /\ Sections /\ FilledLink(s) /\ BlocksLink(s) /\ freeSemaphore[s] \in Nat
    BY DEF IInv, Counts, Numbers
  <2>2. needStart["bt"] /\ needStart["hash"]
    BY <2>1 DEF Links, LinkOn, Consumes, Consumer, Getting, Stopping, Flags, Syncs
  <2>3. needStart[s] /\ LinkOff(s)
    BY <2>1, <2>2 DEF Links, Syncs
  <2>4. \A r \in Syncs : pc[r] = "waitStart" /\ ~canStart[r] /\ ~wasStarted[r] /\ ~wasStopped[r]
    BY <2>1, <2>2 DEF Links, LinkOff, Quits, Quitting, Flags, Syncs
  <2>5. cs[s] = Nobody
    BY <2>1, <2>2, <2>4 DEF Sections, Consumer, Syncs
  <2>6. filledSemaphore[s] = 0 /\ ~ProducerHas(s) /\ ~ConsumerHas(s)
    BY <2>1, <2>3, <2>4 DEF FilledLink, ProducerHas, ConsumerHas
  <2>7. freeSemaphore[s] = NumBlocks
    BY <2>1, <2>6 DEF BlocksLink, One
  <2> QED
    BY <2>3, <2>4, <2>5, <2>6, <2>7
<1> QED
  BY <1>1, Invariant, PTL

(***************************************************************************)
(* A consumer's block is the next of its stream and complete: the producer *)
(* is never a whole turn ahead of it, not after a restart either.          *)
(***************************************************************************)
THEOREM Whole == Spec => []BlocksIntact
<1>1. IInv => BlocksIntact
  <2> SUFFICES ASSUME IInv, NEW s \in Syncs, Using(s)
               PROVE  buf[s][Slot(numProcessedBlocks[s] - 1)] = <<stream, numProcessedBlocks[s] - 1>>
    BY DEF BlocksIntact
  <2>1. /\ filledSemaphore[s] \in Nat /\ numProcessedBlocks[s] \in Nat /\ blockIndex[s] \in Nat
        /\ FilledLink(s) /\ IntactLink(s)
    BY DEF IInv, Numbers, Counts, Intact
  <2>2. InUse(s) /\ ~Ahead(s)
    BY UsesInside
  <2>3. numProcessedBlocks[s] > 0 /\ numProcessedBlocks[s] <= blockIndex[s]
    BY <2>1, <2>2 DEF FilledLink, InUse, One
  <2>4. numProcessedBlocks[s] - 1 \in Nat /\ Live(s, numProcessedBlocks[s] - 1)
    BY <2>1, <2>3 DEF Live
  <2> QED
    BY <2>1, <2>2, <2>4 DEF IntactLink
<1> QED
  BY <1>1, Invariant, PTL
=============================================================================
