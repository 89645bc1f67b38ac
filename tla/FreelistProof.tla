---------------------------- MODULE FreelistProof ----------------------------
(***************************************************************************)
(* Theorems about Freelist, for any number of threads and elements: first  *)
(* what the elements point to, without following the list from its top,    *)
(* then the list as a sequence, and with it the refinement of AtomicStack. *)
(***************************************************************************)
EXTENDS Freelist, SequenceTheorems, FiniteSetTheorems, WellFoundedInduction, TLAPS

-----------------------------------------------------------------------------
(***************************************************************************)
(* The inductive invariant.  It does not follow the list from its top: an  *)
(* element is in the list when no thread has it, and Linked says that what *)
(* points to it is either top or the next field of one other element of    *)
(* the list.                                                               *)
(***************************************************************************)
Outside(t) == held[t] \union Pushing(t)
Listed(e) == e \in 1..element_count /\ \A t \in Threads : e \notin Outside(t)
Links(p) == top = p \/ \E e \in Elements : Listed(e) /\ next[e] = p
InPush(t) == pc[t] \in {"pushPointer", "pushCounter", "push"}

Owned ==
  \A t \in Threads :
    /\ Outside(t) \subseteq 1..element_count
    /\ InPush(t) => exchange[t].ptr \in Elements /\ exchange[t].ptr \notin held[t]
    /\ \A u \in Threads : t # u => Outside(t) \cap Outside(u) = {}

Linked ==
  /\ top.ptr # Null => Listed(top.ptr)
  /\ \A e \in Elements : Listed(e) /\ next[e].ptr # Null =>
       /\ Listed(next[e].ptr) /\ next[e].ptr # top.ptr
       /\ \A d \in Elements : Listed(d) /\ next[d].ptr = next[e].ptr => d = e

\* A push that has not swapped yet has a counter that nobody else has seen.
Stamped ==
  /\ top.ctr <= aba_counter
  /\ \A e \in Elements : Listed(e) => next[e].ctr <= aba_counter
  /\ \A t \in Threads : InPush(t) =>
       /\ 0 < exchange[t].ctr /\ exchange[t].ctr <= aba_counter
       /\ top.ctr # exchange[t].ctr
       /\ \A e \in Elements : Listed(e) => next[e].ctr # exchange[t].ctr
       /\ \A u \in Threads : InPush(u) /\ exchange[u].ctr = exchange[t].ctr => t = u

Unseen ==
  \A t \in Threads :
    /\ compare[t].ctr <= aba_counter
    /\ \A u \in Threads : InPush(u) => compare[t].ctr # exchange[u].ctr

\* A pop whose pair is still a link of the list has read the next field as it is.
ReadsFresh ==
  \A t \in Threads : pc[t] = "pop" /\ Links(compare[t]) =>
    \A w \in Words \ todo[t] : exchange[t][w] = next[compare[t].ptr][w]

\* A push has written what it compares top with.
Wrote ==
  \A t \in Threads : pc[t] = "push" =>
    \A w \in Words \ todo[t] : next[exchange[t].ptr][w] = compare[t][w]

IInv == TypeOK /\ Owned /\ Linked /\ Stamped /\ Unseen /\ ReadsFresh /\ Wrote

\* The steps that neither take an element out of the list nor put one in.
Quiet ==
  /\ UNCHANGED <<top, aba_counter, element_count, held>>
  /\ \A t \in Threads :
       /\ InPush(t)' <=> InPush(t)
       /\ InPush(t) => exchange'[t] = exchange[t]
  /\ \A e \in Elements : Listed(e) => next'[e] = next[e]

Reading(t) ==
  \/ PopReadCounter(t) \/ PopReadPointer(t) \/ PopReadNext(t) \/ PopRetry(t)
  \/ PushReadPointer(t) \/ PushReadCounter(t) \/ PushWriteNext(t) \/ PushRetry(t)

\* Pairs have two words.
LEMMA PairEqual ==
  \A p, q \in Pairs : p = q <=> \A w \in Words : p[w] = q[w]
BY DEF Pairs, Words

\* What pop and push do up to their swap: they read shared memory, or write what is theirs.
LEMMA ReadingIsQuiet ==
  ASSUME IInv, NEW t \in Threads, Reading(t)
  PROVE  Quiet
<1> USE DEF IInv
<1>1. CASE PopReadCounter(t)
  BY <1>1 DEF PopReadCounter, Quiet, InPush, Goto, TypeOK
<1>2. CASE PopReadPointer(t)
  BY <1>2 DEF PopReadPointer, Return, Quiet, InPush, Goto, TypeOK
<1>3. CASE PopReadNext(t)
  BY <1>3 DEF PopReadNext, Quiet, InPush, TypeOK
<1>4. CASE PopRetry(t)
  BY <1>4 DEF PopRetry, DcasFails, Return, Quiet, InPush, Goto, TypeOK
<1>5. CASE PushReadPointer(t)
  BY <1>5 DEF PushReadPointer, Quiet, InPush, Goto, TypeOK
<1>6. CASE PushReadCounter(t)
  BY <1>6 DEF PushReadCounter, Quiet, InPush, Goto, TypeOK
<1>7. CASE PushWriteNext(t)
  BY <1>7 DEF PushWriteNext, Quiet, InPush, Listed, Outside, Pushing, TypeOK
<1>8. CASE PushRetry(t)
  BY <1>8 DEF PushRetry, DcasFails, Quiet, InPush, TypeOK
<1> QED
  BY <1>1, <1>2, <1>3, <1>4, <1>5, <1>6, <1>7, <1>8 DEF Reading

\* Then everybody keeps the elements he has,
LEMMA QuietKeeps ==
  ASSUME IInv, Quiet
  PROVE  /\ \A t \in Threads : Outside(t)' = Outside(t)
         /\ \A e \in Elements : Listed(e)' <=> Listed(e)
<1>1. \A t \in Threads : Outside(t)' = Outside(t)
  BY DEF Quiet, Outside, Pushing, InPush
<1> QED
  BY <1>1 DEF Quiet, Listed

\* and the list stays as it is.
LEMMA QuietStep ==
  ASSUME IInv, Quiet
  PROVE  Owned' /\ Linked' /\ Stamped'
<1> USE QuietKeeps DEF IInv
<1>1. Owned'
  BY DEF Quiet, Owned
<1>2. Linked'
  <2>1. \A e \in Elements : next[e].ptr # Null => next[e].ptr \in Elements
    BY DEF TypeOK, Pairs
  <2>2. top.ptr # Null => top.ptr \in Elements
    BY DEF TypeOK, Pairs
  <2> QED
    BY <2>1, <2>2 DEF Quiet, Linked
<1>3. Stamped'
  BY DEF Quiet, Stamped
<1> QED
  BY <1>1, <1>2, <1>3

-----------------------------------------------------------------------------
\* A pop that succeeds takes out the element top points to, and top becomes its next field.
LEMMA PopTakesTop ==
  ASSUME IInv, NEW t \in Threads, PopSwap(t)
  PROVE  /\ top = compare[t] /\ top.ptr # Null /\ Listed(top.ptr) /\ top.ptr \in Elements
         /\ top' = next[top.ptr]
<1>1. pc[t] = "pop" /\ todo[t] = {} /\ top = compare[t] /\ top' = exchange[t]
  BY DEF PopSwap, Dcas
<1>2. top.ptr # Null /\ top.ptr \in Elements
  BY <1>1 DEF IInv, TypeOK, Pairs
<1>3. \A w \in Words : exchange[t][w] = next[top.ptr][w]
  BY <1>1 DEF IInv, ReadsFresh, Links
<1>4. exchange[t] \in Pairs /\ next[top.ptr] \in Pairs
  BY <1>2 DEF IInv, TypeOK
<1>5. exchange[t] = next[top.ptr]
  BY <1>3, <1>4, PairEqual
<1> QED
  BY <1>1, <1>2, <1>5 DEF IInv, Linked

\* A push that succeeds puts its element before the one top pointed to.
LEMMA PushLinksTop ==
  ASSUME IInv, NEW t \in Threads, PushSwap(t)
  PROVE  /\ InPush(t) /\ exchange[t].ptr \in Elements
         /\ next[exchange[t].ptr] = top /\ top' = exchange[t]
<1>1. pc[t] = "push" /\ todo[t] = {} /\ top = compare[t] /\ top' = exchange[t]
  BY DEF PushSwap, Dcas
<1>2. InPush(t) /\ exchange[t].ptr \in Elements
  BY <1>1 DEF InPush, IInv, Owned
<1>3. \A w \in Words : next[exchange[t].ptr][w] = top[w]
  BY <1>1 DEF IInv, Wrote
<1>4. top \in Pairs /\ next[exchange[t].ptr] \in Pairs
  BY <1>2 DEF IInv, TypeOK
<1> QED
  BY <1>1, <1>2, <1>3, <1>4, PairEqual

\* A pop that succeeds gives the element to its caller.
LEMMA PopMoves ==
  ASSUME IInv, NEW t \in Threads, PopSwap(t)
  PROVE  /\ \A u \in Threads : Outside(u)' = IF u = t THEN Outside(u) \union {top.ptr} ELSE Outside(u)
         /\ \A u \in Threads : (InPush(u)' <=> InPush(u)) /\ (InPush(u) => exchange'[u] = exchange[u])
         /\ \A e \in Elements : Listed(e)' <=> Listed(e) /\ e # top.ptr
<1>1. \A u \in Threads : Pushing(u)' = Pushing(u)
  BY DEF PopSwap, Goto, Return, Pushing, IInv, TypeOK
<1>2. \A u \in Threads : held'[u] = IF u = t THEN held[u] \union {top.ptr} ELSE held[u]
  BY PopTakesTop DEF PopSwap, IInv, TypeOK
<1>3. \A u \in Threads : Outside(u)' = IF u = t THEN Outside(u) \union {top.ptr} ELSE Outside(u)
  BY <1>1, <1>2 DEF Outside
<1>4. \A e \in Elements : Listed(e)' <=> Listed(e) /\ e # top.ptr
  BY <1>3 DEF Listed, PopSwap
<1>5. \A u \in Threads : (InPush(u)' <=> InPush(u)) /\ (InPush(u) => exchange'[u] = exchange[u])
  BY DEF PopSwap, Goto, Return, InPush, IInv, TypeOK
<1> QED
  BY <1>3, <1>4, <1>5

\* guaranteed_pop gives its caller an element that nobody had.
LEMMA NewMoves ==
  ASSUME IInv, NEW t \in Threads, GuaranteedPop(t)
  PROVE  /\ \A u \in Threads :
              Outside(u)' = IF u = t THEN Outside(u) \union {element_count + 1} ELSE Outside(u)
         /\ \A e \in Elements : Listed(e)' <=> Listed(e)
<1>1. \A u \in Threads : Pushing(u)' = Pushing(u)
  BY DEF GuaranteedPop, Pushing
<1>2. \A u \in Threads : held'[u] = IF u = t THEN held[u] \union {element_count + 1} ELSE held[u]
  BY DEF GuaranteedPop, IInv, TypeOK
<1>3. \A u \in Threads :
        Outside(u)' = IF u = t THEN Outside(u) \union {element_count + 1} ELSE Outside(u)
  BY <1>1, <1>2 DEF Outside
<1>4. element_count \in Nat /\ element_count' = element_count + 1
  BY SizesAssumption DEF GuaranteedPop, IInv, TypeOK
<1>5. \A e \in Elements : Listed(e)' <=> Listed(e)
  BY <1>3, <1>4 DEF Listed
<1> QED
  BY <1>3, <1>5

\* push takes an element from its caller; the list stays as it is.
LEMMA StampMoves ==
  ASSUME IInv, NEW t \in Threads, PushStamp(t)
  PROVE  /\ \A u \in Threads : Outside(u)' = Outside(u)
         /\ \A u \in Threads \ {t} : (InPush(u)' <=> InPush(u)) /\ exchange'[u] = exchange[u]
         /\ InPush(t)' /\ ~InPush(t)
         /\ exchange'[t].ctr = aba_counter + 1
         /\ exchange'[t].ptr \in Elements /\ exchange'[t].ptr \notin held'[t]
         /\ \A e \in Elements : Listed(e)' <=> Listed(e)
<1>1. PICK e \in held[t] : /\ exchange' = [exchange EXCEPT ![t] = [ptr |-> e, ctr |-> aba_counter + 1]]
                           /\ held' = [held EXCEPT ![t] = @ \ {e}]
  BY DEF PushStamp
<1>2. e \in Elements /\ pc' = [pc EXCEPT ![t] = "pushPointer"] /\ pc[t] = "idle"
  BY DEF PushStamp, Goto, IInv, TypeOK
<1>3. \A u \in Threads : Outside(u)' = Outside(u)
  BY <1>1, <1>2 DEF Outside, Pushing, IInv, TypeOK
<1>4. \A u \in Threads \ {t} : (InPush(u)' <=> InPush(u)) /\ exchange'[u] = exchange[u]
  BY <1>1, <1>2 DEF InPush, IInv, TypeOK
<1>5. InPush(t)' /\ ~InPush(t)
  BY <1>2 DEF InPush, IInv, TypeOK
<1>6. exchange'[t] = [ptr |-> e, ctr |-> aba_counter + 1] /\ held'[t] = held[t] \ {e}
  BY <1>1 DEF IInv, TypeOK
<1>7. \A d \in Elements : Listed(d)' <=> Listed(d)
  BY <1>3 DEF Listed, PushStamp
<1> QED
  BY <1>2, <1>3, <1>4, <1>5, <1>6, <1>7

\* A push that succeeds puts its element into the list.
LEMMA PushMoves ==
  ASSUME IInv, NEW t \in Threads, PushSwap(t)
  PROVE  /\ \A u \in Threads : Outside(u)' = IF u = t THEN Outside(u) \ {exchange[t].ptr} ELSE Outside(u)
         /\ \A u \in Threads \ {t} : (InPush(u)' <=> InPush(u)) /\ exchange'[u] = exchange[u]
         /\ ~InPush(t)'
         /\ \A e \in Elements : Listed(e)' <=> Listed(e) \/ e = exchange[t].ptr
         /\ ~Listed(exchange[t].ptr)
<1>1. pc' = [pc EXCEPT ![t] = "idle"] /\ pc[t] = "push" /\ UNCHANGED <<held, element_count>>
      /\ exchange' = [exchange EXCEPT ![t] = Nothing]
  BY DEF PushSwap, Goto, Return
<1>2. \A u \in Threads \ {t} : (InPush(u)' <=> InPush(u)) /\ exchange'[u] = exchange[u]
  BY <1>1 DEF InPush, IInv, TypeOK
<1>3. ~InPush(t)'
  BY <1>1 DEF InPush, IInv, TypeOK
<1>4. \A u \in Threads \ {t} : Pushing(u)' = Pushing(u)
  BY <1>1 DEF Pushing, IInv, TypeOK
<1>5. Pushing(t) = {exchange[t].ptr} /\ Pushing(t)' = {} /\ exchange[t].ptr \notin held[t]
  BY <1>1, PushLinksTop DEF Pushing, IInv, TypeOK, Owned
<1>6. \A u \in Threads : Outside(u)' = IF u = t THEN Outside(u) \ {exchange[t].ptr} ELSE Outside(u)
  BY <1>1, <1>4, <1>5 DEF Outside
<1>7. exchange[t].ptr \in Outside(t)
  BY <1>5 DEF Outside
<1>8. \A u \in Threads \ {t} : exchange[t].ptr \notin Outside(u)
  BY <1>7 DEF IInv, Owned
<1>9. exchange[t].ptr \in 1..element_count
  BY <1>7 DEF IInv, Owned
<1>10. \A e \in Elements : Listed(e)' <=> Listed(e) \/ e = exchange[t].ptr
  BY <1>1, <1>6, <1>7, <1>8, <1>9 DEF Listed
<1> QED
  BY <1>2, <1>3, <1>6, <1>7, <1>10 DEF Listed

-----------------------------------------------------------------------------
\* pop, guaranteed_pop and push keep the types.
LEMMA TypesStep ==
  ASSUME IInv, [Next]_vars
  PROVE  TypeOK'
<1> USE SizesAssumption DEF IInv, TypeOK, Pairs, Elements
<1>1. ASSUME NEW t \in Threads, PopReadCounter(t) PROVE TypeOK'
  BY <1>1 DEF PopReadCounter, Goto
<1>2. ASSUME NEW t \in Threads, PopReadPointer(t) PROVE TypeOK'
  <2>1. ASSUME Return(t) PROVE TypeOK'
    <3>1. UNCHANGED <<top, next, aba_counter, element_count, held>>
      BY <1>2 DEF PopReadPointer
    <3> QED
      BY <2>1, <3>1 DEF Goto, Return, Nothing, Null
  <2>2. ASSUME top.ptr # Null PROVE TypeOK'
    <3>1. /\ compare' = [compare EXCEPT ![t].ptr = top.ptr]
          /\ todo' = [todo EXCEPT ![t] = Words]
          /\ pc' = [pc EXCEPT ![t] = "pop"]
          /\ UNCHANGED <<top, next, aba_counter, element_count, exchange, held>>
      BY <1>2, <2>2 DEF PopReadPointer, Goto
    <3> QED
      BY <2>2, <3>1 DEF Words
  <2> QED
    BY <1>2, <2>1, <2>2 DEF PopReadPointer
<1>3. ASSUME NEW t \in Threads, PopReadNext(t) PROVE TypeOK'
  <2>1. PICK w \in todo[t] : /\ exchange' = [exchange EXCEPT ![t][w] = next[compare[t].ptr][w]]
                             /\ todo' = [todo EXCEPT ![t] = @ \ {w}]
    BY <1>3 DEF PopReadNext
  <2>2. w \in {"ptr", "ctr"} /\ next[compare[t].ptr] \in Pairs
    BY <1>3 DEF PopReadNext, Words, Null
  <2>3. exchange' \in [Threads -> Pairs]
    BY <2>1, <2>2
  <2> QED
    BY <1>3, <2>1, <2>3 DEF PopReadNext
<1>4. ASSUME NEW t \in Threads, PopSwap(t) PROVE TypeOK'
  <2>1. UNCHANGED <<next, aba_counter, element_count>>
    BY <1>4 DEF PopSwap
  <2>2. top' \in Pairs /\ held' \in [Threads -> SUBSET Elements]
    BY <1>4 DEF PopSwap, Dcas, Null, Pairs
  <2>3. /\ compare' \in [Threads -> Pairs] /\ exchange' \in [Threads -> Pairs] /\ todo' \in [Threads -> SUBSET Words]
        /\ pc' \in [Threads -> {"idle", "popPointer", "pop", "pushPointer", "pushCounter", "push"}]
        /\ \A u \in Threads : pc'[u] = "pop" => compare'[u].ptr # Null
    <3>1. /\ pc' = [pc EXCEPT ![t] = "idle"] /\ todo' = [todo EXCEPT ![t] = {}]
          /\ compare' = [compare EXCEPT ![t] = Nothing] /\ exchange' = [exchange EXCEPT ![t] = Nothing]
      BY <1>4 DEF PopSwap, Return, Goto
    <3>2. Nothing \in Pairs /\ {} \in SUBSET Words
      BY DEF Nothing, Null, Pairs
    <3>3. \A u \in Threads : u # t => pc'[u] = pc[u] /\ compare'[u] = compare[u]
      BY <3>1
    <3>4. pc'[t] = "idle"
      BY <3>1
    <3> HIDE DEF Pairs
    <3> QED
      BY <3>1, <3>2, <3>3, <3>4
  <2> HIDE DEF Pairs, Words
  <2> QED
    BY <2>1, <2>2, <2>3
<1>5. ASSUME NEW t \in Threads, PopRetry(t) PROVE TypeOK'
  <2>1. ASSUME Return(t), UNCHANGED top PROVE TypeOK'
    <3>1. UNCHANGED <<next, aba_counter, element_count, held>>
      BY <1>5 DEF PopRetry
    <3> QED
      BY <2>1, <3>1 DEF Goto, Return, Nothing, Null
  <2>2. ASSUME DcasFails(t), top.ptr # Null, todo' = [todo EXCEPT ![t] = Words], UNCHANGED <<pc, exchange>>
        PROVE  TypeOK'
    <3>1. UNCHANGED <<next, aba_counter, element_count, held>>
      BY <1>5 DEF PopRetry
    <3> QED
      BY <2>2, <3>1 DEF DcasFails, Words
  <2> QED
    BY <1>5, <2>1, <2>2 DEF PopRetry, DcasFails
<1>6. ASSUME NEW t \in Threads, GuaranteedPop(t) PROVE TypeOK'
  BY <1>6 DEF GuaranteedPop
<1>7. ASSUME NEW t \in Threads, PushStamp(t) PROVE TypeOK'
  BY <1>7 DEF PushStamp, Goto
<1>8. ASSUME NEW t \in Threads, PushReadPointer(t) PROVE TypeOK'
  BY <1>8 DEF PushReadPointer, Goto
<1>9. ASSUME NEW t \in Threads, PushReadCounter(t) PROVE TypeOK'
  BY <1>9 DEF PushReadCounter, Goto, Words
<1>10. ASSUME NEW t \in Threads, PushWriteNext(t) PROVE TypeOK'
  <2>1. PICK w \in todo[t] : /\ next' = [next EXCEPT ![exchange[t].ptr][w] = compare[t][w]]
                             /\ todo' = [todo EXCEPT ![t] = @ \ {w}]
    BY <1>10 DEF PushWriteNext
  <2>2. w \in {"ptr", "ctr"} /\ exchange[t].ptr \in Elements
    BY <1>10 DEF PushWriteNext, Words, Owned, InPush
  <2>3. next' \in [Elements -> Pairs]
    BY <2>1, <2>2
  <2> QED
    BY <1>10, <2>1, <2>3 DEF PushWriteNext
<1>11. ASSUME NEW t \in Threads, PushSwap(t) PROVE TypeOK'
  BY <1>11 DEF PushSwap, Dcas, Goto, Return, Nothing, Null
<1>12. ASSUME NEW t \in Threads, PushRetry(t) PROVE TypeOK'
  BY <1>12 DEF PushRetry, DcasFails, Words
<1>13. CASE UNCHANGED vars
  BY <1>13 DEF vars
<1> QED
  BY <1>1, <1>2, <1>3, <1>4, <1>5, <1>6, <1>7, <1>8, <1>9, <1>10, <1>11, <1>12, <1>13 DEF Next, Go

\* The steps: those that only read or write in vain, and the four that move an element.
LEMMA Steps ==
  ASSUME IInv, [Next]_vars
  PROVE  Quiet \/ \E t \in Threads : PopSwap(t) \/ GuaranteedPop(t) \/ PushStamp(t) \/ PushSwap(t)
<1>1. CASE UNCHANGED vars
  BY <1>1 DEF vars, Quiet, InPush
<1> QED
  BY <1>1, ReadingIsQuiet DEF Next, Go, Reading

\* No element has two owners.
LEMMA OwnedStep ==
  ASSUME IInv, [Next]_vars
  PROVE  Owned'
<1> USE DEF IInv
<1>1. ASSUME Quiet PROVE Owned'
  BY <1>1, QuietStep
<1>2. ASSUME NEW t \in Threads, PopSwap(t) PROVE Owned'
  <2>1. top.ptr \in 1..element_count /\ \A u \in Threads : top.ptr \notin Outside(u)
    BY <1>2, PopTakesTop DEF Listed
  <2>2. \A u \in Threads : InPush(u) => exchange[u].ptr # top.ptr
    BY <2>1 DEF Outside, Pushing, InPush
  <2>3. UNCHANGED element_count /\ held' = [held EXCEPT ![t] = @ \union {top.ptr}]
    BY <1>2, PopTakesTop DEF PopSwap
  <2>4. \A u \in Threads : held'[u] \subseteq held[u] \union {top.ptr}
    BY <2>3 DEF TypeOK
  <2> QED
    BY <1>2, <2>1, <2>2, <2>3, <2>4, PopMoves DEF Owned
<1>3. ASSUME NEW t \in Threads, GuaranteedPop(t) PROVE Owned'
  <2>1. element_count \in Nat /\ element_count' = element_count + 1
    BY <1>3, SizesAssumption DEF GuaranteedPop, TypeOK
  <2>2. \A u \in Threads : element_count + 1 \notin Outside(u)
    BY <2>1 DEF Owned
  <2>3. \A u \in Threads : held'[u] \subseteq held[u] \union {element_count + 1}
    BY <1>3 DEF GuaranteedPop, TypeOK
  <2>4. \A u \in Threads : (InPush(u)' <=> InPush(u)) /\ exchange'[u] = exchange[u]
    BY <1>3 DEF GuaranteedPop, InPush
  <2>5. \A u \in Threads : InPush(u) => exchange[u].ptr # element_count + 1
    BY <2>2 DEF Outside, Pushing, InPush
  <2>6. \A u \in Threads : Outside(u)' \subseteq 1..element_count'
    BY <1>3, <2>1, NewMoves DEF Owned
  <2> QED
    BY <1>3, <2>2, <2>3, <2>4, <2>5, <2>6, NewMoves DEF Owned
<1>4. ASSUME NEW t \in Threads, PushStamp(t) PROVE Owned'
  <2>1. UNCHANGED element_count /\ \A u \in Threads \ {t} : held'[u] = held[u]
    BY <1>4 DEF PushStamp, TypeOK
  <2> QED
    BY <1>4, <2>1, StampMoves DEF Owned
<1>5. ASSUME NEW t \in Threads, PushSwap(t) PROVE Owned'
  <2>1. UNCHANGED <<element_count, held>>
    BY <1>5 DEF PushSwap
  <2> QED
    BY <1>5, <2>1, PushMoves DEF Owned
<1> QED
  BY <1>1, <1>2, <1>3, <1>4, <1>5, Steps

\* Each element of the list has one pointer to it.
LEMMA LinkedStep ==
  ASSUME IInv, [Next]_vars
  PROVE  Linked'
<1> USE DEF IInv
<1>0. /\ \A e \in Elements : next[e].ptr # Null => next[e].ptr \in Elements
      /\ top.ptr # Null => top.ptr \in Elements
  BY DEF TypeOK, Pairs
<1>1. ASSUME Quiet PROVE Linked'
  BY <1>1, QuietStep
<1>2. ASSUME NEW t \in Threads, PopSwap(t) PROVE Linked'
  <2>1. UNCHANGED next
    BY <1>2 DEF PopSwap
  <2> QED
    BY <1>0, <1>2, <2>1, PopTakesTop, PopMoves DEF Linked
<1>3. ASSUME NEW t \in Threads, GuaranteedPop(t) PROVE Linked'
  <2>1. UNCHANGED <<next, top>>
    BY <1>3 DEF GuaranteedPop
  <2> QED
    BY <1>0, <1>3, <2>1, NewMoves DEF Linked
<1>4. ASSUME NEW t \in Threads, PushStamp(t) PROVE Linked'
  <2>1. UNCHANGED <<next, top>>
    BY <1>4 DEF PushStamp
  <2> QED
    BY <1>0, <1>4, <2>1, StampMoves DEF Linked
<1>5. ASSUME NEW t \in Threads, PushSwap(t) PROVE Linked'
  <2>1. UNCHANGED next
    BY <1>5 DEF PushSwap
  <2> QED
    BY <1>0, <1>5, <2>1, PushLinksTop, PushMoves DEF Linked
<1> QED
  BY <1>1, <1>2, <1>3, <1>4, <1>5, Steps

\* The counters of pushes that have not swapped yet are new.
LEMMA StampedStep ==
  ASSUME IInv, [Next]_vars
  PROVE  Stamped'
<1> USE DEF IInv
<1>0. /\ aba_counter \in Nat /\ top.ctr \in Nat
      /\ \A e \in Elements : next[e].ctr \in Nat
      /\ \A t \in Threads : exchange[t].ctr \in Nat
  BY SizesAssumption DEF TypeOK, Pairs
<1>1. ASSUME Quiet PROVE Stamped'
  BY <1>1, QuietStep
<1>2. ASSUME NEW t \in Threads, PopSwap(t) PROVE Stamped'
  <2>1. UNCHANGED <<next, aba_counter>>
    BY <1>2 DEF PopSwap
  <2> QED
    BY <1>2, <2>1, PopTakesTop, PopMoves DEF Stamped
<1>3. ASSUME NEW t \in Threads, GuaranteedPop(t) PROVE Stamped'
  <2>1. UNCHANGED <<next, top, aba_counter, exchange, pc>>
    BY <1>3 DEF GuaranteedPop
  <2> QED
    BY <1>3, <2>1, NewMoves DEF Stamped, InPush
<1>4. ASSUME NEW t \in Threads, PushStamp(t) PROVE Stamped'
  <2>1. UNCHANGED <<next, top>> /\ aba_counter' = aba_counter + 1
    BY <1>4 DEF PushStamp
  <2> QED
    BY <1>0, <1>4, <2>1, StampMoves DEF Stamped
<1>5. ASSUME NEW t \in Threads, PushSwap(t) PROVE Stamped'
  <2>1. UNCHANGED <<next, aba_counter>>
    BY <1>5 DEF PushSwap
  <2>2. \A u \in Threads : InPush(u)' => u # t /\ InPush(u) /\ exchange'[u] = exchange[u]
    BY <1>5, PushMoves
  <2>3. \A e \in Elements : Listed(e)' => Listed(e) \/ next[e] = top
    BY <1>5, PushMoves, PushLinksTop
  <2>4. top' = exchange[t] /\ InPush(t)
    BY <1>5, PushLinksTop
  <2> QED
    BY <2>1, <2>2, <2>3, <2>4 DEF Stamped
<1> QED
  BY <1>1, <1>2, <1>3, <1>4, <1>5, Steps

\* Whatever a thread compares with comes from top, before a push that has not swapped yet.
LEMMA UnseenStep ==
  ASSUME IInv, [Next]_vars
  PROVE  Unseen'
<1> USE DEF IInv
<1>0. /\ aba_counter \in Nat /\ top.ctr \in Nat
      /\ \A t \in Threads : exchange[t].ctr \in Nat /\ compare[t].ctr \in Nat
  BY SizesAssumption DEF TypeOK, Pairs
<1>1. \A u \in Threads : compare'[u].ctr \in {compare[u].ctr, top.ctr, 0}
  <2>1. ASSUME NEW t \in Threads, Reading(t) PROVE \A u \in Threads : compare'[u].ctr \in {compare[u].ctr, top.ctr, 0}
    <3>1. compare \in [Threads -> Pairs] /\ top \in Pairs
      BY DEF TypeOK
    <3>2. \/ UNCHANGED compare
          \/ \E p \in {top.ptr} : compare' = [compare EXCEPT ![t].ptr = p]
          \/ compare' = [compare EXCEPT ![t].ctr = top.ctr]
          \/ compare' = [compare EXCEPT ![t] = top]
          \/ compare' = [compare EXCEPT ![t] = Nothing]
      BY <2>1 DEF Reading, PopReadCounter, PopReadPointer, PopReadNext, PopRetry, PushReadPointer,
                  PushReadCounter, PushWriteNext, PushRetry, DcasFails, Return
    <3> QED
      BY <3>1, <3>2 DEF Pairs, Nothing
  <2>2. ASSUME NEW t \in Threads, PopSwap(t) \/ PushSwap(t)
        PROVE  \A u \in Threads : compare'[u].ctr \in {compare[u].ctr, 0}
    BY <2>2 DEF PopSwap, PushSwap, Return, TypeOK, Nothing
  <2>3. ASSUME NEW t \in Threads, GuaranteedPop(t) \/ PushStamp(t) PROVE UNCHANGED compare
    BY <2>3 DEF GuaranteedPop, PushStamp
  <2>4. ASSUME UNCHANGED vars PROVE UNCHANGED compare
    BY <2>4 DEF vars
  <2> QED
    BY <2>1, <2>2, <2>3, <2>4 DEF Next, Go, Reading
<1>2. ASSUME Quiet PROVE Unseen'
  BY <1>0, <1>1, <1>2 DEF Quiet, Unseen, Stamped
<1>3. ASSUME NEW t \in Threads, PopSwap(t) PROVE Unseen'
  <2>1. UNCHANGED aba_counter
    BY <1>3 DEF PopSwap
  <2> QED
    BY <1>0, <1>1, <1>3, <2>1, PopMoves DEF Unseen, Stamped
<1>4. ASSUME NEW t \in Threads, GuaranteedPop(t) PROVE Unseen'
  BY <1>4 DEF GuaranteedPop, Unseen, InPush
<1>5. ASSUME NEW t \in Threads, PushStamp(t) PROVE Unseen'
  <2>1. aba_counter' = aba_counter + 1 /\ UNCHANGED compare
    BY <1>5 DEF PushStamp
  <2> QED
    BY <1>0, <1>5, <2>1, StampMoves DEF Unseen
<1>6. ASSUME NEW t \in Threads, PushSwap(t) PROVE Unseen'
  <2>1. UNCHANGED aba_counter
    BY <1>6 DEF PushSwap
  <2>2. \A u \in Threads : InPush(u)' => InPush(u) /\ exchange'[u] = exchange[u]
    BY <1>6, PushMoves
  <2> QED
    BY <1>0, <1>1, <2>1, <2>2 DEF Unseen, Stamped
<1> QED
  BY <1>2, <1>3, <1>4, <1>5, <1>6, Steps

\* No step makes a pair a link that a pop holds already, and the next field of a link stays.
LEMMA LinksStep ==
  ASSUME IInv, [Next]_vars
  PROVE  \A p \in Pairs : Links(p)' /\ p.ptr # Null =>
           \/ Links(p) /\ next'[p.ptr] = next[p.ptr]
           \/ \E u \in Threads : InPush(u) /\ p = exchange[u]
<1> SUFFICES ASSUME NEW p \in Pairs, Links(p)', p.ptr # Null
             PROVE  \/ Links(p) /\ next'[p.ptr] = next[p.ptr]
                    \/ \E u \in Threads : InPush(u) /\ p = exchange[u]
  OBVIOUS
<1> USE DEF IInv
<1>0. p.ptr \in Elements /\ (Links(p) => Listed(p.ptr))
  BY DEF Links, Linked, Pairs
<1>1. CASE Quiet
  <2>1. Links(p)
    BY <1>1, QuietKeeps DEF Quiet, Links
  <2> QED
    BY <1>0, <1>1, <2>1 DEF Quiet
<1>2. ASSUME NEW t \in Threads, PopSwap(t) PROVE Links(p) /\ next'[p.ptr] = next[p.ptr]
  <2>1. UNCHANGED next
    BY <1>2 DEF PopSwap
  <2> QED
    BY <1>2, <2>1, PopTakesTop, PopMoves DEF Links
<1>3. ASSUME NEW t \in Threads, GuaranteedPop(t) PROVE Links(p) /\ next'[p.ptr] = next[p.ptr]
  <2>1. UNCHANGED <<next, top>>
    BY <1>3 DEF GuaranteedPop
  <2> QED
    BY <1>3, <2>1, NewMoves DEF Links
<1>4. ASSUME NEW t \in Threads, PushStamp(t) PROVE Links(p) /\ next'[p.ptr] = next[p.ptr]
  <2>1. UNCHANGED <<next, top>>
    BY <1>4 DEF PushStamp
  <2> QED
    BY <1>4, <2>1, StampMoves DEF Links
<1>5. ASSUME NEW t \in Threads, PushSwap(t)
      PROVE  \/ Links(p) /\ next'[p.ptr] = next[p.ptr]
             \/ InPush(t) /\ p = exchange[t]
  <2>1. UNCHANGED next
    BY <1>5 DEF PushSwap
  <2> QED
    BY <1>5, <2>1, PushLinksTop, PushMoves DEF Links
<1> QED
  BY <1>1, <1>2, <1>3, <1>4, <1>5, Steps

\* What a pop has read of the next field of an element that is still in the list.
LEMMA ReadsStep ==
  ASSUME IInv, [Next]_vars, TypeOK'
  PROVE  ReadsFresh'
<1> SUFFICES ASSUME NEW u \in Threads, pc'[u] = "pop", Links(compare[u])',
                    NEW w \in Words, w \notin todo'[u]
             PROVE  exchange'[u][w] = next'[compare'[u].ptr][w]
  BY DEF ReadsFresh
<1> USE DEF IInv
<1>1. compare'[u] \in Pairs /\ compare'[u].ptr # Null
  BY DEF TypeOK
<1>2. /\ pc[u] = "pop" /\ compare'[u] = compare[u]
      /\ \/ w \notin todo[u] /\ exchange'[u][w] = exchange[u][w]
         \/ exchange'[u][w] = next[compare[u].ptr][w]
  <2>1. ASSUME NEW t \in Threads, PopReadNext(t)
        PROVE  /\ pc[u] = "pop" /\ compare'[u] = compare[u]
               /\ \/ w \notin todo[u] /\ exchange'[u][w] = exchange[u][w]
                  \/ exchange'[u][w] = next[compare[u].ptr][w]
    <3>1. PICK v \in todo[t] : /\ exchange' = [exchange EXCEPT ![t][v] = next[compare[t].ptr][v]]
                               /\ todo' = [todo EXCEPT ![t] = @ \ {v}]
      BY <2>1 DEF PopReadNext
    <3>2. pc[u] = "pop" /\ compare'[u] = compare[u]
      BY <2>1 DEF PopReadNext
    <3>3. CASE u = t
      <4>1. exchange'[t] = [exchange[t] EXCEPT ![v] = next[compare[t].ptr][v]]
        BY <3>1 DEF TypeOK
      <4>2. todo'[t] = todo[t] \ {v} /\ v \in {"ptr", "ctr"} /\ w \in {"ptr", "ctr"}
        BY <3>1 DEF TypeOK, Words
      <4>3. exchange[t] \in [ptr : Elements \union {Null}, ctr : 0..MaxCounter]
        BY DEF TypeOK, Pairs
      <4>4. CASE v = w
        BY <3>2, <3>3, <4>1, <4>2, <4>3, <4>4
      <4>5. CASE v # w
        BY <3>2, <3>3, <4>1, <4>2, <4>3, <4>5
      <4> QED
        BY <4>4, <4>5
    <3>4. CASE u # t
      BY <3>1, <3>2, <3>4 DEF TypeOK
    <3> QED
      BY <3>3, <3>4
  <2>2. ASSUME NEW t \in Threads, ~PopReadNext(t), Reading(t)
        PROVE  pc[u] = "pop" /\ compare'[u] = compare[u] /\ w \notin todo[u] /\ exchange'[u] = exchange[u]
    <3>1. CASE PopReadCounter(t) \/ PopReadPointer(t) \/ PopRetry(t)
      BY <2>2, <3>1 DEF PopReadCounter, PopReadPointer, PopRetry, DcasFails, Return, Goto, TypeOK
    <3>2. CASE PushReadPointer(t) \/ PushReadCounter(t) \/ PushWriteNext(t) \/ PushRetry(t)
      BY <2>2, <3>2 DEF PushReadPointer, PushReadCounter, PushWriteNext, PushRetry, DcasFails, Return, Goto, TypeOK
    <3> QED
      BY <2>2, <3>1, <3>2 DEF Reading
  <2>3. ASSUME NEW t \in Threads, PopSwap(t) \/ PushSwap(t)
        PROVE  pc[u] = "pop" /\ compare'[u] = compare[u] /\ w \notin todo[u] /\ exchange'[u] = exchange[u]
    BY <2>3 DEF PopSwap, PushSwap, Return, Goto, TypeOK
  <2>4. ASSUME NEW t \in Threads, GuaranteedPop(t) \/ PushStamp(t)
        PROVE  pc[u] = "pop" /\ compare'[u] = compare[u] /\ w \notin todo[u] /\ exchange'[u] = exchange[u]
    BY <2>4 DEF GuaranteedPop, PushStamp, Goto, TypeOK
  <2>5. ASSUME UNCHANGED vars
        PROVE  pc[u] = "pop" /\ compare'[u] = compare[u] /\ w \notin todo[u] /\ exchange'[u] = exchange[u]
    BY <2>5 DEF vars
  <2> QED
    BY <2>1, <2>2, <2>3, <2>4, <2>5 DEF Next, Go, Reading
<1>3. \A v \in Threads : InPush(v) => compare[u] # exchange[v]
  BY DEF Unseen
<1>4. Links(compare[u]) /\ next'[compare[u].ptr] = next[compare[u].ptr]
  <2>1. PICK p \in Pairs : p = compare'[u]
    BY <1>1
  <2>2. Links(p)'
    BY <2>1 DEF Links
  <2> QED
    BY <1>1, <1>2, <1>3, <2>1, <2>2, LinksStep
<1>5. w \notin todo[u] => exchange[u][w] = next[compare[u].ptr][w]
  BY <1>2, <1>4 DEF ReadsFresh
<1> QED
  BY <1>2, <1>4, <1>5

\* A push that compares with another pair writes the next field anew.
LEMMA WroteStep ==
  ASSUME IInv, [Next]_vars
  PROVE  Wrote'
<1> SUFFICES ASSUME NEW u \in Threads, pc'[u] = "push", NEW w \in Words, w \notin todo'[u]
             PROVE  next'[exchange'[u].ptr][w] = compare'[u][w]
  BY DEF Wrote
<1> USE DEF IInv
<1>1. ASSUME NEW t \in Threads, PushWriteNext(t)
      PROVE  next'[exchange'[u].ptr][w] = compare'[u][w]
  <2>1. PICK v \in todo[t] : /\ next' = [next EXCEPT ![exchange[t].ptr][v] = compare[t][v]]
                             /\ todo' = [todo EXCEPT ![t] = @ \ {v}]
    BY <1>1 DEF PushWriteNext
  <2>2. pc[u] = "push" /\ pc[t] = "push" /\ UNCHANGED <<exchange, compare>>
    BY <1>1 DEF PushWriteNext
  <2>3. exchange[u].ptr \in Elements /\ exchange[t].ptr \in Elements
    BY <2>2 DEF Owned, InPush
  <2>4. CASE u = t
    <3>1. next'[exchange[t].ptr] = [next[exchange[t].ptr] EXCEPT ![v] = compare[t][v]]
      BY <2>1, <2>3 DEF TypeOK
    <3>2. todo'[t] = todo[t] \ {v} /\ v \in {"ptr", "ctr"} /\ w \in {"ptr", "ctr"}
      BY <2>1 DEF TypeOK, Words
    <3>3. next[exchange[t].ptr] \in [ptr : Elements \union {Null}, ctr : 0..MaxCounter]
      BY <2>3 DEF TypeOK, Pairs
    <3>4. CASE v = w
      BY <2>2, <2>4, <3>1, <3>2, <3>3, <3>4
    <3>5. CASE v # w
      <4>1. w \notin todo[t]
        BY <2>4, <3>2, <3>5
      <4>2. next[exchange[t].ptr][w] = compare[t][w]
        BY <2>2, <2>4, <4>1 DEF Wrote
      <4> QED
        BY <2>2, <2>4, <3>1, <3>2, <3>3, <3>5, <4>2
    <3> QED
      BY <3>4, <3>5
  <2>5. CASE u # t
    <3>1. exchange[u].ptr \in Outside(u) /\ exchange[t].ptr \in Outside(t)
      BY <2>2 DEF Outside, Pushing
    <3>2. exchange[u].ptr # exchange[t].ptr
      BY <2>5, <3>1 DEF Owned
    <3>3. w \notin todo[u] /\ next'[exchange[u].ptr] = next[exchange[u].ptr]
      BY <2>1, <2>3, <2>5, <3>2 DEF TypeOK
    <3> QED
      BY <2>2, <3>3 DEF Wrote
  <2> QED
    BY <2>4, <2>5
<1>2. ASSUME NEW t \in Threads, ~PushWriteNext(t), Reading(t)
      PROVE  /\ pc[u] = "push" /\ compare'[u] = compare[u] /\ w \notin todo[u]
             /\ exchange'[u] = exchange[u] /\ UNCHANGED next
  BY <1>2 DEF Reading, PopReadCounter, PopReadPointer, PopReadNext, PopRetry, PushReadPointer,
              PushReadCounter, PushRetry, DcasFails, Return, Goto, TypeOK
<1>3. ASSUME NEW t \in Threads, PopSwap(t) \/ PushSwap(t)
      PROVE  /\ pc[u] = "push" /\ compare'[u] = compare[u] /\ w \notin todo[u]
             /\ exchange'[u] = exchange[u] /\ UNCHANGED next
  BY <1>3 DEF PopSwap, PushSwap, Return, Goto, TypeOK
<1>4. ASSUME NEW t \in Threads, GuaranteedPop(t) \/ PushStamp(t)
      PROVE  /\ pc[u] = "push" /\ compare'[u] = compare[u] /\ w \notin todo[u]
             /\ exchange'[u] = exchange[u] /\ UNCHANGED next
  BY <1>4 DEF GuaranteedPop, PushStamp, Goto, TypeOK
<1>5. ASSUME UNCHANGED vars
      PROVE  /\ pc[u] = "push" /\ compare'[u] = compare[u] /\ w \notin todo[u]
             /\ exchange'[u] = exchange[u] /\ UNCHANGED next
  BY <1>5 DEF vars
<1> QED
  BY <1>1, <1>2, <1>3, <1>4, <1>5 DEF Next, Go, Reading, Wrote

-----------------------------------------------------------------------------
\* lfds611_freelist_new() establishes the invariant.
LEMMA InitInvariant == Init => IInv
<1> SUFFICES ASSUME Init PROVE IInv
  OBVIOUS
<1>1. TypeOK
  <2>1. \A e \in 1..NumberElements : [ptr |-> e - 1, ctr |-> e - 1] \in Pairs
    BY SizesAssumption DEF Pairs, Elements, Null
  <2>2. Nothing \in Pairs /\ top \in Pairs
    BY SizesAssumption DEF Init, Pairs, Elements, Null, Nothing
  <2>3. next \in [Elements -> Pairs]
    BY SizesAssumption, <2>1, <2>2 DEF Init, Elements
  <2> QED
    BY SizesAssumption, <2>2, <2>3 DEF Init, TypeOK
<1>2. \A t \in Threads : Outside(t) = {} /\ ~InPush(t)
  BY DEF Init, Outside, Pushing, InPush
<1>3. Owned
  BY <1>2 DEF Owned
<1>4. \A e \in Elements : Listed(e) <=> e \in 1..NumberElements
  BY <1>2 DEF Init, Listed
<1>5. \A e \in 1..NumberElements : e \in Elements /\ next[e].ptr = e - 1 /\ next[e].ctr = e - 1
  BY SizesAssumption DEF Init, Elements
<1>6. top.ptr = NumberElements /\ top.ctr = NumberElements /\ aba_counter = NumberElements
  BY DEF Init
<1>7. Linked
  BY SizesAssumption, <1>4, <1>5, <1>6 DEF Linked, Null, Elements
<1>8. Stamped /\ Unseen
  BY SizesAssumption, <1>2, <1>4, <1>5, <1>6 DEF Stamped, Unseen, Init, Nothing
<1>9. ReadsFresh /\ Wrote
  BY DEF Init, ReadsFresh, Wrote
<1> QED
  BY <1>1, <1>3, <1>7, <1>8, <1>9 DEF IInv

\* Every step of pop, guaranteed_pop and push preserves it.
LEMMA StepInvariant == IInv /\ [Next]_vars => IInv'
<1> SUFFICES ASSUME IInv, [Next]_vars PROVE IInv'
  OBVIOUS
<1> QED
  BY TypesStep, OwnedStep, LinkedStep, StampedStep, UnseenStep, ReadsStep, WroteStep DEF IInv

\* IInv is an invariant of the freelist with any number of threads and elements.
THEOREM Invariant == Spec => []IInv
<1> QED
  BY InitInvariant, StepInvariant, PTL DEF Spec

\* Types, and a pop never follows a null pointer.
THEOREM TypeCorrect == Spec => []TypeOK
<1>1. IInv => TypeOK
  BY DEF IInv
<1> QED
  BY <1>1, Invariant, PTL

\* lfds611_freelist_pop() never puts a next field on top that is not the top element's any more.
THEOREM NoneStale == Spec => []NoStaleNext
<1>1. IInv => NoStaleNext
  <2> SUFFICES ASSUME IInv, NEW t \in Threads, pc[t] = "pop", todo[t] = {}, compare[t] = top
               PROVE  exchange[t] = next[top.ptr]
    BY DEF NoStaleNext
  <2>1. top.ptr \in Elements
    BY DEF IInv, TypeOK, Pairs
  <2>2. \A w \in Words : exchange[t][w] = next[top.ptr][w]
    BY DEF IInv, ReadsFresh, Links
  <2>3. exchange[t] \in Pairs /\ next[top.ptr] \in Pairs
    BY <2>1 DEF IInv, TypeOK
  <2> QED
    BY <2>2, <2>3, PairEqual
<1> QED
  BY <1>1, Invariant, PTL

(***************************************************************************)
(* lfds611_freelist_pop() never gives an element to two threads, nor one   *)
(* that a thread is pushing.                                               *)
(***************************************************************************)
OneOwner == \A t, u \in Threads : t # u => Outside(t) \cap Outside(u) = {}

THEOREM OneOwnerOnly == Spec => []OneOwner
<1>1. IInv => OneOwner
  BY DEF IInv, Owned, OneOwner
<1> QED
  BY <1>1, Invariant, PTL

-----------------------------------------------------------------------------
\* Induction over the numbers, for a set of them: the least number outside of it would follow one inside.
LEMMA NatSetInduction ==
  ASSUME NEW S \in SUBSET Nat, 0 \in S, \A n \in S : n + 1 \in S
  PROVE  S = Nat
<1> DEFINE R == {ss \in Nat \X Nat : ss[1] < ss[2]}
<1> DEFINE T == Nat \ S
<1>1. IsWellFoundedOn(R, Nat)
  BY NatLessThanWellFounded DEF OpToRel
<1>2. \A m, n \in Nat : m < n => <<m, n>> \in R
  OBVIOUS
<1>3. T \subseteq Nat /\ (T = {} => S = Nat)
  OBVIOUS
<1>4. \A n \in T : n \in Nat /\ n # 0 /\ n - 1 \in Nat /\ n - 1 < n /\ (n - 1) + 1 = n
  OBVIOUS
<1>5. \A n \in T : n - 1 \in T
  BY <1>4
<1> HIDE DEF R, T
<1>6. ASSUME T # {} PROVE FALSE
  <2>1. PICK m \in T : \A y \in T : ~(<<y, m>> \in R)
    BY <1>1, <1>3, <1>6, WFMin
  <2> QED
    BY <1>2, <1>4, <1>5, <2>1
<1> QED
  BY <1>3, <1>6

-----------------------------------------------------------------------------
(***************************************************************************)
(* The list as a sequence of elements, each once, where top and the next   *)
(* fields lead from one to the next and the last one to null.              *)
(***************************************************************************)
At(s, i) == IF i \in 1..Len(s) THEN s[i] ELSE Null
InOrder(s) ==
  /\ s \in Seq(Elements)
  /\ top.ptr = At(s, 1)
  /\ \A i \in 1..Len(s) : next[s[i]].ptr = At(s, i + 1)
  /\ \A i, j \in 1..Len(s) : s[i] = s[j] => i = j
  /\ \A e \in Elements : Listed(e) <=> \E i \in 1..Len(s) : s[i] = e

\* It has no more elements than there can be,
LEMMA NotLonger ==
  ASSUME NEW s, InOrder(s)
  PROVE  Len(s) \in 0..MaxElements
<1>1. s \in Seq(Elements) /\ Len(s) \in Nat /\ s \in [1..Len(s) -> Elements]
  BY LenProperties DEF InOrder
<1>2. s \in Injection(1..Len(s), Elements)
  <2>1. \A i, j \in 1..Len(s) : s[i] = s[j] => i = j
    BY DEF InOrder
  <2> QED
    BY <1>1, <2>1 DEF Injection, IsInjective
<1>3. MaxElements \in Nat
  BY SizesAssumption
<1>4. IsFiniteSet(Elements) /\ Cardinality(Elements) = MaxElements
  BY <1>3, FS_Interval DEF Elements
<1>5. IsFiniteSet(1..Len(s)) /\ Cardinality(1..Len(s)) = Len(s)
  BY <1>1, FS_Interval
<1>6. Cardinality(1..Len(s)) <= Cardinality(Elements)
  BY <1>2, <1>4, FS_Injection
<1> QED
  BY <1>1, <1>3, <1>4, <1>5, <1>6

\* The body of the recursion in Chain.
Body(f) ==
  [n \in 0..MaxElements + 1 |->
     [p \in 0..MaxElements |->
        IF n = 0 \/ p = Null THEN <<>> ELSE <<p>> \o f[n - 1][next[p].ptr]]]

\* The recursion has a solution: one up to n extends to one up to n + 1.
LEMMA BodyHasSolution == \E f : f = Body(f)
<1> DEFINE Table(f, n) == [p \in 0..MaxElements |->
                             IF n = 0 \/ p = Null THEN <<>> ELSE <<p>> \o f[n - 1][next[p].ptr]]
<1> DEFINE Upto(n) == \E f : \A m \in 0..n : f[m] = Table(f, m)
<1> DEFINE S == {n \in Nat : Upto(n)}
<1>1. 0 \in S
  <2> DEFINE f == [m \in {0} |-> Table(<<>>, 0)]
  <2>1. \A m \in 0..0 : f[m] = Table(f, m)
    OBVIOUS
  <2>2. Upto(0)
    BY <2>1
  <2> QED
    BY <2>2
<1>2. ASSUME NEW n \in S PROVE n + 1 \in S
  <2>1. PICK f : \A m \in 0..n : f[m] = Table(f, m)
    BY <1>2
  <2> DEFINE g == [m \in 0..n + 1 |-> IF m <= n THEN f[m] ELSE Table(f, m)]
  <2>2. ASSUME NEW m \in 0..n + 1 PROVE g[m] = Table(g, m)
    <3>1. g[m] = Table(f, m)
      <4>1. m <= n => m \in 0..n
        BY <1>2
      <4> QED
        BY <2>1, <4>1
    <3>2. m # 0 => g[m - 1] = f[m - 1]
      BY <1>2
    <3>3. Table(g, m) = Table(f, m)
      BY <3>2
    <3> QED
      BY <3>1, <3>3
  <2>3. Upto(n + 1)
    <3>1. \A m \in 0..n + 1 : g[m] = Table(g, m)
      BY <2>2
    <3> HIDE DEF g, Table
    <3> QED
      BY <3>1
  <2> HIDE DEF Upto
  <2> QED
    BY <1>2, <2>3
<1>3. MaxElements + 1 \in S
  <2> HIDE DEF S
  <2>1. S \in SUBSET Nat
    BY DEF S
  <2>2. S = Nat
    BY <1>1, <1>2, <2>1, NatSetInduction
  <2> QED
    BY <2>2, SizesAssumption
<1>4. PICK f : \A m \in 0..MaxElements + 1 : f[m] = Table(f, m)
  BY <1>3
<1> DEFINE g == [m \in 0..MaxElements + 1 |-> f[m]]
<1>5. ASSUME NEW m \in 0..MaxElements + 1 PROVE g[m] = Table(g, m)
  <2>1. m # 0 => g[m - 1] = f[m - 1]
    BY SizesAssumption
  <2>2. Table(g, m) = Table(f, m)
    <3> HIDE DEF g
    <3> QED
      BY <2>1
  <2> QED
    BY <1>4, <2>2
<1>6. g = [m \in 0..MaxElements + 1 |-> Table(g, m)]
  BY <1>5
<1> QED
  BY <1>6 DEF Body

\* and Chain follows the solution from top.
LEMMA ChainSolves == \E f : f = Body(f) /\ Chain = f[MaxElements + 1][top.ptr]
<1> DEFINE h == CHOOSE g : g = Body(g)
<1>1. Chain = h[MaxElements + 1][top.ptr]
  BY DEF Chain, Body
<1>2. h = Body(h)
  <2> HIDE DEF Body
  <2> QED
    BY BodyHasSolution
<1> QED
  BY <1>1, <1>2

\* so that Chain is the list.
LEMMA ChainIsList ==
  ASSUME TypeOK, NEW s, InOrder(s)
  PROVE  Chain = s
<1>1. PICK f : f = Body(f) /\ Chain = f[MaxElements + 1][top.ptr]
  BY ChainSolves
<1> DEFINE L == Len(s)
<1> DEFINE Suffix(k) == SubSeq(s, (L + 1) - k, L)
<1>2. s \in Seq(Elements) /\ L \in 0..MaxElements /\ MaxElements \in Nat
  BY NotLonger, SizesAssumption DEF InOrder
<1> DEFINE Found(k) == k <= L => \A n \in k..MaxElements + 1 : f[n][At(s, (L + 1) - k)] = Suffix(k)
<1> DEFINE S == {k \in Nat : Found(k)}
<1>3. 0 \in S
  <2>1. At(s, L + 1) = Null
    BY <1>2 DEF At
  <2>2. \A n \in 0..MaxElements + 1 : f[n][Null] = <<>>
    <3>1. Null \in 0..MaxElements
      BY <1>2 DEF Null
    <3>2. \A n \in 0..MaxElements + 1 : Body(f)[n][Null] = <<>>
      BY <3>1 DEF Body
    <3> QED
      BY <1>1, <3>2
  <2>3. Suffix(0) = <<>>
    BY <1>2, SubSeqEmpty
  <2>4. \A n \in 0..MaxElements + 1 : f[n][At(s, (L + 1) - 0)] = Suffix(0)
    <3>1. (L + 1) - 0 = L + 1
      BY <1>2
    <3> QED
      BY <2>1, <2>2, <2>3, <3>1
  <2> QED
    BY <2>4
<1>4. ASSUME NEW k \in S PROVE k + 1 \in S
  <2> SUFFICES ASSUME k + 1 <= L, NEW n \in k + 1..MaxElements + 1
               PROVE  f[n][At(s, (L + 1) - (k + 1))] = Suffix(k + 1)
    BY <1>4
  <2> DEFINE i == L - k
  <2>1. k \in Nat /\ Found(k)
    BY <1>4
  <2>2. /\ i \in 1..L /\ i = (L + 1) - (k + 1) /\ i + 1 = (L + 1) - k
        /\ n # 0 /\ n - 1 \in k..MaxElements + 1 /\ n \in 0..MaxElements + 1 /\ k <= L
    BY <1>2, <2>1
  <2>3. f[n - 1][At(s, i + 1)] = SubSeq(s, i + 1, L)
    BY <2>1, <2>2
  <2>4. At(s, i) = s[i] /\ s[i] \in Elements /\ next[s[i]].ptr = At(s, i + 1)
    BY <1>2, <2>2, ElementOfSeq DEF At, InOrder
  <2>5. s[i] \in 0..MaxElements /\ s[i] # Null
    BY <1>2, <2>4 DEF Elements, Null
  <2>6. f[n][s[i]] = <<s[i]>> \o f[n - 1][next[s[i]].ptr]
    <3>1. \A m \in 0..MaxElements + 1, p \in 0..MaxElements :
            m # 0 /\ p # Null => Body(f)[m][p] = <<p>> \o f[m - 1][next[p].ptr]
      BY DEF Body
    <3> QED
      BY <1>1, <2>2, <2>5, <3>1
  <2>7. SubSeq(s, i, L) = <<s[i]>> \o SubSeq(s, i + 1, L)
    <3>1. L \in i..L
      BY <1>2, <2>2
    <3> HIDE DEF i
    <3> QED
      BY <1>2, <2>2, <3>1, SubSeqRecursiveFirst
  <2> QED
    BY <2>2, <2>3, <2>4, <2>6, <2>7
<1>5. L \in S
  <2> HIDE DEF S
  <2>1. S \in SUBSET Nat
    BY DEF S
  <2>2. S = Nat
    BY <1>3, <1>4, <2>1, NatSetInduction
  <2> QED
    BY <1>2, <2>2
<1>6. f[MaxElements + 1][At(s, 1)] = SubSeq(s, 1, L)
  <2>1. (L + 1) - L = 1 /\ MaxElements + 1 \in L..MaxElements + 1
    BY <1>2
  <2> QED
    BY <1>2, <1>5, <2>1
<1> QED
  BY <1>1, <1>2, <1>6, SubSeqFull DEF InOrder
-----------------------------------------------------------------------------
\* The list of lfds611_freelist_new(): the elements, the last pushed first.
LEMMA InitInOrder == Init => \E s \in Seq(Elements) : InOrder(s)
<1> SUFFICES ASSUME Init PROVE \E s \in Seq(Elements) : InOrder(s)
  OBVIOUS
<1> DEFINE N == NumberElements
<1> DEFINE s == [i \in 1..N |-> (N + 1) - i]
<1>1. N \in Nat /\ 1..N \subseteq Elements
  BY SizesAssumption DEF Elements
<1>2. \A e \in Elements : Listed(e) <=> e \in 1..N
  BY DEF Init, Listed, Outside, Pushing
<1>3. top.ptr = N /\ \A e \in 1..N : next[e].ptr = e - 1
  BY <1>1 DEF Init
<1> HIDE DEF N
<1>4. \A i \in 1..N : s[i] = (N + 1) - i /\ s[i] \in 1..N
  BY <1>1
<1>5. s \in Seq(Elements) /\ Len(s) = N
  <2>1. s \in [1..N -> Elements]
    BY <1>1, <1>4
  <2>2. s \in Seq(Elements)
    BY <1>1, <2>1, SeqDef
  <2>3. DOMAIN s = 1..N /\ DOMAIN s = 1..Len(s) /\ Len(s) \in Nat
    BY <2>2, LenProperties
  <2> HIDE DEF s
  <2> QED
    BY <1>1, <2>2, <2>3
<1> HIDE DEF s
<1>6. \A i \in 1..N + 1 : At(s, i) = (N + 1) - i
  BY <1>1, <1>4, <1>5 DEF At, Null
<1>7. top.ptr = At(s, 1)
  BY <1>1, <1>3, <1>6
<1>8. \A i \in 1..Len(s) : next[s[i]].ptr = At(s, i + 1)
  BY <1>1, <1>3, <1>4, <1>5, <1>6
<1>9. \A i, j \in 1..Len(s) : s[i] = s[j] => i = j
  BY <1>1, <1>4, <1>5
<1>10. \A e \in Elements : Listed(e) <=> \E i \in 1..Len(s) : s[i] = e
  <2>1. \A e \in 1..N : (N + 1) - e \in 1..N /\ (N + 1) - ((N + 1) - e) = e
    BY <1>1
  <2>2. \A e \in 1..N : s[(N + 1) - e] = e
    BY <1>4, <2>1
  <2> QED
    BY <1>2, <1>4, <1>5, <2>1, <2>2
<1> QED
  BY <1>5, <1>7, <1>8, <1>9, <1>10 DEF InOrder

\* The list stays as it is when its elements, their pointers and top stay,
LEMMA SameInOrder ==
  ASSUME NEW s, InOrder(s), UNCHANGED top,
         \A e \in Elements : Listed(e)' <=> Listed(e),
         \A e \in Elements : Listed(e) => next'[e] = next[e]
  PROVE  InOrder(s)'
<1>1. \A i \in 1..Len(s) : s[i] \in Elements /\ Listed(s[i])
  BY ElementOfSeq DEF InOrder
<1> QED
  BY <1>1 DEF InOrder

\* loses its first element to a pop,
LEMMA PopInOrder ==
  ASSUME IInv, NEW t \in Threads, PopSwap(t), NEW s, InOrder(s)
  PROVE  s # <<>> /\ Head(s) = top.ptr /\ InOrder(Tail(s))'
<1> DEFINE q == Tail(s)
<1>1. /\ s \in Seq(Elements) /\ Len(s) \in Nat
      /\ \A i, j \in 1..Len(s) : s[i] = s[j] => i = j
  BY LenProperties DEF InOrder
<1>2. top.ptr # Null /\ top' = next[top.ptr] /\ UNCHANGED next
  BY PopTakesTop DEF PopSwap
<1>3. Len(s) \in Nat \ {0} /\ s[1] = top.ptr
  BY <1>1, <1>2 DEF InOrder, At
<1>4. s # <<>> /\ Head(s) = s[1]
  BY <1>1, <1>3, EmptySeq
<1>5. q \in Seq(Elements) /\ Len(q) = Len(s) - 1 /\ \A i \in 1..Len(s) - 1 : q[i] = s[i + 1]
  BY <1>1, <1>4, HeadTailProperties
<1> HIDE DEF q
<1>6. \A i \in 1..Len(s) : At(q, i) = At(s, i + 1)
  BY <1>3, <1>5 DEF At
<1>7. \A i \in 1..Len(s) : next[s[i]].ptr = At(s, i + 1)
  BY DEF InOrder
<1>8. top'.ptr = At(q, 1)
  BY <1>2, <1>3, <1>6, <1>7
<1>9. \A i \in 1..Len(q) : next'[q[i]].ptr = At(q, i + 1)
  <2>1. \A i \in 1..Len(q) : i + 1 \in 1..Len(s) /\ i \in 1..Len(s) - 1
    BY <1>3, <1>5
  <2> QED
    BY <1>2, <1>5, <1>6, <1>7, <2>1
<1>10. \A i, j \in 1..Len(q) : q[i] = q[j] => i = j
  <2>1. \A i \in 1..Len(q) : i + 1 \in 1..Len(s) /\ q[i] = s[i + 1]
    BY <1>3, <1>5
  <2>2. \A i, j \in 1..Len(q) : i + 1 = j + 1 => i = j
    BY <1>5
  <2> QED
    BY <1>1, <2>1, <2>2
<1>11. \A e \in Elements : Listed(e)' <=> \E i \in 1..Len(q) : q[i] = e
  <2> SUFFICES ASSUME NEW e \in Elements
               PROVE  Listed(e)' <=> \E i \in 1..Len(q) : q[i] = e
    OBVIOUS
  <2>1. Listed(e)' <=> e # s[1] /\ \E j \in 1..Len(s) : s[j] = e
    BY <1>3, PopMoves DEF InOrder
  <2>2. ASSUME NEW j \in 1..Len(s), s[j] = e, e # s[1]
        PROVE  \E i \in 1..Len(q) : q[i] = e
    <3>1. j # 1 /\ j - 1 \in 1..Len(s) - 1 /\ (j - 1) + 1 = j
      BY <1>3, <2>2
    <3> QED
      BY <1>5, <2>2, <3>1
  <2>3. ASSUME NEW i \in 1..Len(q), q[i] = e
        PROVE  e # s[1] /\ \E j \in 1..Len(s) : s[j] = e
    <3>1. i + 1 \in 1..Len(s) /\ i + 1 # 1 /\ 1 \in 1..Len(s) /\ i \in 1..Len(s) - 1
      BY <1>3, <1>5
    <3> QED
      BY <1>1, <1>5, <2>3, <3>1
  <2> QED
    BY <2>1, <2>2, <2>3
<1>12. InOrder(q)'
  BY <1>5, <1>8, <1>9, <1>10, <1>11 DEF InOrder
<1> QED
  BY <1>3, <1>4, <1>12 DEF q

\* and gets one in front by a push.
LEMMA PushInOrder ==
  ASSUME IInv, NEW t \in Threads, PushSwap(t), NEW p, p = exchange[t].ptr, NEW s, InOrder(s)
  PROVE  InOrder(<<p>> \o s)'
<1> DEFINE q == <<p>> \o s
<1>1. /\ s \in Seq(Elements) /\ Len(s) \in Nat
      /\ \A i, j \in 1..Len(s) : s[i] = s[j] => i = j
  BY LenProperties DEF InOrder
<1>2. /\ p \in Elements /\ next[p] = top /\ top'.ptr = p
      /\ ~Listed(p) /\ UNCHANGED next
      /\ \A e \in Elements : Listed(e)' <=> Listed(e) \/ e = p
  BY PushLinksTop, PushMoves DEF PushSwap
<1>3. /\ q \in Seq(Elements) /\ Len(q) = Len(s) + 1 /\ q[1] = p
      /\ \A i \in 1..Len(s) : q[i + 1] = s[i]
  <2> DEFINE v == <<p>>
  <2>1. v \in Seq(Elements) /\ Len(v) = 1 /\ v[1] = p
    BY <1>2
  <2> HIDE DEF v
  <2>2. /\ v \o s \in Seq(Elements) /\ Len(v \o s) = Len(v) + Len(s)
        /\ \A i \in 1..Len(v) + Len(s) : (v \o s)[i] = IF i <= Len(v) THEN v[i] ELSE s[i - Len(v)]
    <3>1. s \in Seq(Elements) /\ v \in Seq(Elements)
      BY <1>1, <2>1
    <3> QED
      BY <3>1, ConcatProperties
  <2>3. \A i \in 1..Len(s) : i + 1 \in 1..1 + Len(s) /\ ~(i + 1 <= 1) /\ (i + 1) - 1 = i
    BY <1>1
  <2>4. 1 \in 1..1 + Len(s) /\ 1 + Len(s) = Len(s) + 1
    BY <1>1
  <2>5. /\ v \o s \in Seq(Elements) /\ Len(v \o s) = Len(s) + 1 /\ (v \o s)[1] = p
        /\ \A i \in 1..Len(s) : (v \o s)[i + 1] = s[i]
    BY <2>1, <2>2, <2>3, <2>4
  <2> QED
    BY <2>5 DEF v
<1> HIDE DEF q
<1>4. \A i \in 1..Len(q) : i = 1 \/ (i - 1 \in 1..Len(s) /\ (i - 1) + 1 = i)
  BY <1>1, <1>3
<1>5. At(q, 1) = p /\ \A i \in 1..Len(s) + 1 : At(q, i + 1) = At(s, i)
  BY <1>1, <1>3 DEF At
<1>6. top.ptr = At(s, 1) /\ \A i \in 1..Len(s) : next[s[i]].ptr = At(s, i + 1)
  BY DEF InOrder
<1>7. \A i \in 1..Len(s) : s[i] # p
  BY <1>2 DEF InOrder
<1>8. top'.ptr = At(q, 1)
  BY <1>2, <1>5
<1>9. ASSUME NEW i \in 1..Len(q) PROVE next'[q[i]].ptr = At(q, i + 1)
  <2>1. CASE i = 1
    <3>1. 1 \in 1..Len(s) + 1
      BY <1>1
    <3> QED
      BY <1>2, <1>3, <1>5, <1>6, <2>1, <3>1
  <2>2. CASE i - 1 \in 1..Len(s) /\ (i - 1) + 1 = i
    <3> DEFINE j == i - 1
    <3>1. j \in 1..Len(s) /\ j + 1 = i /\ j + 1 \in 1..Len(s) + 1
      BY <1>1, <2>2
    <3> HIDE DEF j
    <3>2. q[i] = s[j] /\ next[s[j]].ptr = At(s, j + 1) /\ At(q, i + 1) = At(s, i)
      BY <1>3, <1>5, <1>6, <3>1
    <3> QED
      BY <1>2, <3>1, <3>2
  <2> QED
    BY <1>4, <2>1, <2>2
<1>10. ASSUME NEW i \in 1..Len(q), NEW j \in 1..Len(q), q[i] = q[j] PROVE i = j
  <2>1. CASE i = 1 \/ j = 1
    <3>1. \A k \in 1..Len(q) : k = 1 \/ q[k] # p
      <4> TAKE k \in 1..Len(q)
      <4>1. CASE k - 1 \in 1..Len(s) /\ (k - 1) + 1 = k
        <5>1. q[(k - 1) + 1] = s[k - 1]
          BY <1>3, <4>1
        <5> QED
          BY <1>7, <4>1, <5>1
      <4> QED
        BY <1>4, <4>1
    <3> QED
      BY <1>3, <1>10, <2>1, <3>1
  <2>2. CASE i # 1 /\ j # 1
    <3>1. s[i - 1] = s[j - 1] /\ i - 1 \in 1..Len(s) /\ j - 1 \in 1..Len(s)
      BY <1>3, <1>4, <1>10, <2>2
    <3>2. i - 1 = j - 1
      BY <1>1, <3>1
    <3> QED
      BY <1>4, <2>2, <3>2
  <2> QED
    BY <2>1, <2>2
<1>11. ASSUME NEW e \in Elements PROVE Listed(e)' <=> \E i \in 1..Len(q) : q[i] = e
  <2>1. Listed(e)' <=> e = p \/ \E j \in 1..Len(s) : s[j] = e
    BY <1>2 DEF InOrder
  <2>2. 1 \in 1..Len(q) /\ \A j \in 1..Len(s) : j + 1 \in 1..Len(q)
    BY <1>1, <1>3
  <2>3. (e = p \/ \E j \in 1..Len(s) : s[j] = e) => \E i \in 1..Len(q) : q[i] = e
    BY <1>3, <2>2
  <2>4. ASSUME NEW i \in 1..Len(q), q[i] = e
        PROVE  e = p \/ \E j \in 1..Len(s) : s[j] = e
    <3>1. CASE i = 1
      BY <1>3, <2>4, <3>1
    <3>2. CASE i - 1 \in 1..Len(s) /\ (i - 1) + 1 = i
      <4>1. q[(i - 1) + 1] = s[i - 1]
        BY <1>3, <3>2
      <4> QED
        BY <2>4, <3>2, <4>1
    <3> QED
      BY <1>4, <3>1, <3>2
  <2> QED
    BY <2>1, <2>3, <2>4
<1>12. \A i, j \in 1..Len(q) : q[i] = q[j] => i = j
  BY <1>10
<1>13. InOrder(q)'
  BY <1>3, <1>8, <1>9, <1>11, <1>12 DEF InOrder
<1> QED
  BY <1>13 DEF q

\* Every step keeps the list a list.
HasList == \E s \in Seq(Elements) : InOrder(s)

LEMMA ListStep ==
  ASSUME IInv, HasList, [Next]_vars
  PROVE  HasList'
<1>1. PICK s \in Seq(Elements) : InOrder(s)
  BY DEF HasList
<1>2. ASSUME Quiet PROVE InOrder(s)'
  BY <1>1, <1>2, QuietKeeps, SameInOrder DEF Quiet
<1>3. ASSUME NEW t \in Threads, GuaranteedPop(t) \/ PushStamp(t) PROVE InOrder(s)'
  <2>1. UNCHANGED <<top, next>>
    BY <1>3 DEF GuaranteedPop, PushStamp
  <2> QED
    BY <1>1, <1>3, <2>1, NewMoves, StampMoves, SameInOrder
<1>4. ASSUME NEW q, InOrder(q)' PROVE HasList'
  BY <1>4 DEF InOrder, HasList
<1>5. ASSUME NEW t \in Threads, PushSwap(t) PROVE HasList'
  <2>1. \E p : p = exchange[t].ptr
    OBVIOUS
  <2> QED
    BY <1>1, <1>4, <1>5, <2>1, PushInOrder
<1> QED
  BY <1>1, <1>2, <1>3, <1>4, <1>5, PopInOrder, Steps

\* so that the elements follow one another from top in every state.
LEMMA AlwaysList == Spec => [](IInv /\ HasList)
<1>1. Init => IInv /\ HasList
  BY InitInvariant, InitInOrder DEF HasList
<1>2. IInv /\ HasList /\ [Next]_vars => (IInv /\ HasList)'
  BY StepInvariant, ListStep
<1> QED
  BY <1>1, <1>2, PTL DEF Spec

(***************************************************************************)
(* The freelist loses no element and gives none twice: each one that was   *)
(* created is in the list once, or with one thread.                        *)
(***************************************************************************)
THEOREM ElementsOnce == Spec => []EveryElementOnce
<1>1. ASSUME IInv, HasList PROVE EveryElementOnce
  <2>1. PICK s \in Seq(Elements) : InOrder(s)
    BY <1>1 DEF HasList
  <2>2. Chain = s
    BY <1>1, <2>1, ChainIsList DEF IInv
  <2>3. DOMAIN s = 1..Len(s)
    BY LenProperties
  <2> SUFFICES ASSUME NEW e \in Elements
               PROVE  LET inList == {i \in DOMAIN s : s[i] = e}
                          outside == {t \in Threads : e \in held[t] \union Pushing(t)}
                      IN IF e <= element_count
                         THEN \/ outside = {} /\ \E i \in inList : inList = {i}
                              \/ inList = {} /\ \E t \in outside : outside = {t}
                         ELSE inList = {} /\ outside = {}
    BY <2>2 DEF EveryElementOnce
  <2> DEFINE inList == {i \in DOMAIN s : s[i] = e}
  <2> DEFINE outside == {t \in Threads : e \in Outside(t)}
  <2>4. Listed(e) <=> inList # {}
    BY <2>1, <2>3 DEF InOrder
  <2>5. \A i, j \in inList : i = j
    BY <2>1, <2>3 DEF InOrder
  <2>6. \A t, u \in outside : t = u
    BY <1>1 DEF IInv, Owned
  <2>7. Listed(e) <=> e <= element_count /\ outside = {}
    <3>1. e \in 1..element_count <=> e <= element_count
      BY <1>1, SizesAssumption DEF IInv, TypeOK, Elements
    <3> QED
      BY <3>1 DEF Listed
  <2>8. outside # {} => e <= element_count
    BY <1>1, SizesAssumption DEF IInv, Owned, TypeOK, Elements
  <2>9. outside = {t \in Threads : e \in held[t] \union Pushing(t)}
    BY DEF Outside
  <2> HIDE DEF inList, outside
  <2>10. /\ inList = {} \/ \E i \in inList : inList = {i}
         /\ outside = {} \/ \E t \in outside : outside = {t}
    BY <2>5, <2>6
  <2>11. IF e <= element_count
         THEN \/ outside = {} /\ \E i \in inList : inList = {i}
              \/ inList = {} /\ \E t \in outside : outside = {t}
         ELSE inList = {} /\ outside = {}
    BY <2>4, <2>7, <2>8, <2>10
  <2> QED
    BY <2>9, <2>11 DEF inList
<1>2. IInv /\ HasList => EveryElementOnce
  BY <1>1
<1> QED
  BY <1>2, AlwaysList, PTL
-----------------------------------------------------------------------------
(***************************************************************************)
(* The refinement of AtomicStack.                                          *)
(***************************************************************************)
InPop(t) == pc[t] \in {"popPointer", "pop"}
Pending == [t \in Threads |-> AsPending(t)]

\* What an operation is pending as.
LEMMA PendingOf ==
  \A t \in Threads :
    /\ pc[t] = "idle" => Pending[t] = Atomic!Idle
    /\ InPop(t) => Pending[t] = Atomic!Pop
    /\ InPush(t) => Pending[t] = Atomic!Push(exchange[t].ptr)
BY DEF Pending, AsPending, InPop, InPush, Atomic!Idle, Atomic!Pop, Atomic!Push

\* A step that leaves the others alone changes what one thread is pending as.
LEMMA PendingMoves ==
  ASSUME NEW t \in Threads, NEW x,
         \A u \in Threads \ {t} : pc'[u] = pc[u] /\ exchange'[u] = exchange[u],
         Pending'[t] = x
  PROVE  Pending' = [Pending EXCEPT ![t] = x]
BY DEF Pending, AsPending

\* The same in the next state.
LEMMA PendingOfNext ==
  (\A t \in Threads :
    /\ pc[t] = "idle" => Pending[t] = Atomic!Idle
    /\ InPop(t) => Pending[t] = Atomic!Pop
    /\ InPush(t) => Pending[t] = Atomic!Push(exchange[t].ptr))'
BY PendingOf, PTL

LEMMA ChainOf == \A s \in Seq(Elements) : TypeOK /\ InOrder(s) => Chain = s
BY ChainIsList

LEMMA ChainOfNext == (\A s \in Seq(Elements) : TypeOK /\ InOrder(s) => Chain = s)'
BY ChainOf, PTL

\* A step that only reads begins a pop, ends one that found nothing, or goes on.
LEMMA ReadingMoves ==
  ASSUME IInv, NEW t \in Threads, Reading(t)
  PROVE  /\ \A u \in Threads \ {t} : pc'[u] = pc[u] /\ exchange'[u] = exchange[u]
         /\ \/ pc[t] = "idle" /\ InPop(t)'
            \/ InPop(t) /\ top.ptr = Null /\ pc'[t] = "idle"
            \/ InPop(t) /\ InPop(t)'
            \/ InPush(t) /\ InPush(t)' /\ exchange'[t] = exchange[t]
<1> USE DEF IInv, TypeOK, InPop, InPush, Goto, Return
<1>1. CASE PopReadCounter(t)
  BY <1>1 DEF PopReadCounter
<1>2. CASE PopReadPointer(t)
  BY <1>2 DEF PopReadPointer
<1>3. CASE PopReadNext(t)
  BY <1>3 DEF PopReadNext
<1>4. CASE PopRetry(t)
  BY <1>4 DEF PopRetry
<1>5. CASE PushReadPointer(t)
  BY <1>5 DEF PushReadPointer
<1>6. CASE PushReadCounter(t)
  BY <1>6 DEF PushReadCounter
<1>7. CASE PushWriteNext(t)
  BY <1>7 DEF PushWriteNext
<1>8. CASE PushRetry(t)
  BY <1>8 DEF PushRetry
<1> QED
  BY <1>1, <1>2, <1>3, <1>4, <1>5, <1>6, <1>7, <1>8 DEF Reading

\* Which step of the stack it is: the list stays, and so do the elements held.
LEMMA ReadingImplements ==
  ASSUME IInv, NEW t \in Threads, Reading(t), Chain' = Chain,
         top.ptr = Null => Chain = <<>>
  PROVE  Atomic!Next \/ UNCHANGED <<Chain, held, Pending>>
<1>1. UNCHANGED held
  BY ReadingIsQuiet DEF Quiet
<1>2. \A x : Pending'[t] = x => Pending' = [Pending EXCEPT ![t] = x]
  BY ReadingMoves, PendingMoves
<1>3. CASE pc[t] = "idle" /\ InPop(t)'
  <2>1. Pending[t] = Atomic!Idle /\ Pending' = [Pending EXCEPT ![t] = Atomic!Pop]
    BY <1>2, <1>3, PendingOf, PendingOfNext
  <2>2. Atomic!CallPop(t)
    BY <1>1, <2>1 DEF Atomic!CallPop, Pending
  <2> QED
    BY <2>2 DEF Atomic!Next
<1>4. CASE InPop(t) /\ top.ptr = Null /\ pc'[t] = "idle"
  <2>1. Pending[t] = Atomic!Pop /\ Pending' = [Pending EXCEPT ![t] = Atomic!Idle]
    BY <1>2, <1>4, PendingOf, PendingOfNext
  <2>2. Atomic!PopNothing(t)
    BY <1>1, <1>4, <2>1 DEF Atomic!PopNothing, Pending
  <2> QED
    BY <2>2 DEF Atomic!Next
<1>5. ASSUME Pending'[t] = Pending[t] PROVE UNCHANGED <<Chain, held, Pending>>
  <2>1. Pending' = [Pending EXCEPT ![t] = Pending[t]]
    BY <1>2, <1>5
  <2>2. Pending' = Pending
    BY <2>1 DEF Pending
  <2> QED
    BY <1>1, <2>2
<1>6. CASE InPop(t) /\ InPop(t)'
  BY <1>5, <1>6, PendingOf, PendingOfNext
<1>7. CASE InPush(t) /\ InPush(t)' /\ exchange'[t] = exchange[t]
  BY <1>5, <1>7, PendingOf, PendingOfNext
<1> QED
  BY <1>3, <1>4, <1>6, <1>7, ReadingMoves

\* guaranteed_pop creates an element.
LEMMA NewImplements ==
  ASSUME IInv, NEW t \in Threads, GuaranteedPop(t), Chain' = Chain,
         NEW s, InOrder(s), Chain = s
  PROVE  Atomic!Create(t)
<1> DEFINE e == element_count + 1
<1>1. /\ element_count \in Nat /\ e \in Elements
      /\ held' = [held EXCEPT ![t] = @ \union {e}]
      /\ UNCHANGED <<pc, exchange>>
  BY SizesAssumption DEF GuaranteedPop, IInv, TypeOK, Elements
<1>2. e \notin 1..element_count
  BY <1>1
<1>3. \A u \in Threads : e \notin Outside(u)
  BY <1>2 DEF IInv, Owned
<1>4. ~Listed(e)
  BY <1>2 DEF Listed
<1>5. \A i \in DOMAIN s : s[i] # e
  <2>1. DOMAIN s = 1..Len(s)
    BY LenProperties DEF InOrder
  <2> QED
    BY <1>1, <1>4, <2>1 DEF InOrder
<1>6. UNCHANGED Pending
  BY <1>1 DEF Pending, AsPending
<1>7. \A u \in Threads : e \notin held[u] /\ Pending[u] # Atomic!Push(e)
  <2> TAKE u \in Threads
  <2>1. e \notin held[u]
    BY <1>3 DEF Outside
  <2>2. ASSUME Pending[u] = Atomic!Push(e) PROVE FALSE
    <3>1. pc[u] \in {"idle", "popPointer", "pop", "pushPointer", "pushCounter", "push"}
      BY DEF IInv, TypeOK
    <3>2. InPush(u)
      <4>1. Atomic!Push(e).op = "push" /\ Atomic!Idle.op = "idle" /\ Atomic!Pop.op = "pop"
        BY DEF Atomic!Push, Atomic!Idle, Atomic!Pop
      <4>2. ~InPush(u) => Pending[u] = Atomic!Idle \/ Pending[u] = Atomic!Pop
        BY <3>1, PendingOf DEF InPop, InPush
      <4> QED
        BY <2>2, <4>1, <4>2
    <3>3. Atomic!Push(exchange[u].ptr) = Atomic!Push(e)
      BY <2>2, <3>2, PendingOf
    <3>4. exchange[u].ptr = e
      BY <3>3 DEF Atomic!Push
    <3> QED
      BY <1>3, <3>2, <3>4 DEF Outside, Pushing, InPush
  <2> QED
    BY <2>1, <2>2
<1> HIDE DEF e
<1> QED
  BY <1>1, <1>5, <1>6, <1>7 DEF Atomic!Create, Pending

\* The call of push.
LEMMA StampImplements ==
  ASSUME IInv, NEW t \in Threads, PushStamp(t), Chain' = Chain
  PROVE  Atomic!CallPush(t)
<1>1. PICK e \in held[t] : /\ exchange' = [exchange EXCEPT ![t] = [ptr |-> e, ctr |-> aba_counter + 1]]
                           /\ held' = [held EXCEPT ![t] = @ \ {e}]
  BY DEF PushStamp
<1>2. pc[t] = "idle" /\ pc' = [pc EXCEPT ![t] = "pushPointer"]
  BY DEF PushStamp, Goto
<1>3. InPush(t)' /\ exchange'[t].ptr = e
  BY <1>1, <1>2 DEF IInv, TypeOK, InPush
<1>4. Pending[t] = Atomic!Idle /\ Pending'[t] = Atomic!Push(e)
  BY <1>2, <1>3, PendingOf, PendingOfNext
<1>5. \A u \in Threads \ {t} : pc'[u] = pc[u] /\ exchange'[u] = exchange[u]
  BY <1>1, <1>2 DEF IInv, TypeOK
<1>6. Pending' = [Pending EXCEPT ![t] = Atomic!Push(e)]
  BY <1>4, <1>5, PendingMoves
<1> QED
  BY <1>1, <1>4, <1>6 DEF Atomic!CallPush, Pending

\* The swap of a pop is the moment at which the stack loses its first element,
LEMMA PopImplements ==
  ASSUME IInv, NEW t \in Threads, PopSwap(t),
         Chain # <<>>, Head(Chain) = top.ptr, Chain' = Tail(Chain)
  PROVE  Atomic!DoPop(t)
<1>1. /\ held' = [held EXCEPT ![t] = @ \union {Head(Chain)}]
      /\ pc[t] = "pop" /\ pc' = [pc EXCEPT ![t] = "idle"]
      /\ exchange' = [exchange EXCEPT ![t] = Nothing]
  BY PopTakesTop DEF PopSwap, Return, Goto
<1>2. Pending[t] = Atomic!Pop /\ Pending'[t] = Atomic!Idle
  BY <1>1, PendingOf, PendingOfNext DEF InPop, IInv, TypeOK
<1>3. \A u \in Threads \ {t} : pc'[u] = pc[u] /\ exchange'[u] = exchange[u]
  BY <1>1 DEF IInv, TypeOK
<1>4. Pending' = [Pending EXCEPT ![t] = Atomic!Idle]
  BY <1>2, <1>3, PendingMoves
<1> QED
  BY <1>1, <1>2, <1>4 DEF Atomic!DoPop, Pending

\* and that of a push the one at which it gets one.
LEMMA PushImplements ==
  ASSUME IInv, NEW t \in Threads, PushSwap(t), Chain' = <<exchange[t].ptr>> \o Chain
  PROVE  Atomic!DoPush(t)
<1>1. /\ UNCHANGED held /\ pc[t] = "push" /\ pc' = [pc EXCEPT ![t] = "idle"]
      /\ exchange' = [exchange EXCEPT ![t] = Nothing]
  BY DEF PushSwap, Return, Goto
<1>2. Pending[t] = Atomic!Push(exchange[t].ptr) /\ Pending'[t] = Atomic!Idle
  BY <1>1, PendingOf, PendingOfNext DEF InPush, IInv, TypeOK
<1>3. \A u \in Threads \ {t} : pc'[u] = pc[u] /\ exchange'[u] = exchange[u]
  BY <1>1 DEF IInv, TypeOK
<1>4. Pending' = [Pending EXCEPT ![t] = Atomic!Idle]
  BY <1>2, <1>3, PendingMoves
<1>5. Pending[t].op = "push" /\ Pending[t].el = exchange[t].ptr
  BY <1>2 DEF Atomic!Push
<1> QED
  BY <1>1, <1>4, <1>5 DEF Atomic!DoPush, Pending

\* Every step of the freelist is one of the stack, or none.
LEMMA StepImplements ==
  ASSUME IInv, HasList, TypeOK', [Next]_vars
  PROVE  Atomic!Next \/ UNCHANGED <<Chain, held, Pending>>
<1>1. PICK s \in Seq(Elements) : InOrder(s)
  BY DEF HasList
<1>2. Chain = s
  BY <1>1, ChainIsList DEF IInv
<1>3. ASSUME NEW q, InOrder(q)' PROVE Chain' = q
  <2>1. q \in Seq(Elements)
    BY <1>3 DEF InOrder
  <2> QED
    BY <1>3, <2>1, ChainOfNext
<1>4. top.ptr = Null => s = <<>>
  <2>1. ASSUME Len(s) # 0 PROVE top.ptr \in Elements
    <3>1. 1 \in 1..Len(s)
      BY <2>1, LenProperties
    <3> QED
      BY <1>1, <3>1, ElementOfSeq DEF InOrder, At
  <2>2. Null \notin Elements
    BY SizesAssumption DEF Null, Elements
  <2> QED
    BY <2>1, <2>2, EmptySeq
<1>5. ASSUME NEW t \in Threads, Reading(t) PROVE Atomic!Next \/ UNCHANGED <<Chain, held, Pending>>
  <2>1. InOrder(s)'
    BY <1>1, <1>5, ReadingIsQuiet, QuietKeeps, SameInOrder DEF Quiet
  <2>2. Chain' = Chain
    BY <1>2, <1>3, <2>1
  <2> QED
    BY <1>2, <1>4, <1>5, <2>2, ReadingImplements
<1>6. ASSUME NEW t \in Threads, GuaranteedPop(t) PROVE Atomic!Next
  <2>1. UNCHANGED <<top, next>>
    BY <1>6 DEF GuaranteedPop
  <2>2. InOrder(s)'
    BY <1>1, <1>6, <2>1, NewMoves, SameInOrder
  <2>3. Chain' = Chain
    BY <1>2, <1>3, <2>2
  <2> QED
    BY <1>1, <1>2, <1>6, <2>3, NewImplements DEF Atomic!Next
<1>7. ASSUME NEW t \in Threads, PushStamp(t) PROVE Atomic!Next
  <2>1. UNCHANGED <<top, next>>
    BY <1>7 DEF PushStamp
  <2>2. InOrder(s)'
    BY <1>1, <1>7, <2>1, StampMoves, SameInOrder
  <2>3. Chain' = Chain
    BY <1>2, <1>3, <2>2
  <2> QED
    BY <1>7, <2>3, StampImplements DEF Atomic!Next
<1>8. ASSUME NEW t \in Threads, PopSwap(t) PROVE Atomic!Next
  <2>1. s # <<>> /\ Head(s) = top.ptr /\ InOrder(Tail(s))'
    BY <1>1, <1>8, PopInOrder
  <2>2. Chain' = Tail(Chain)
    BY <1>2, <1>3, <2>1
  <2> QED
    BY <1>2, <1>8, <2>1, <2>2, PopImplements DEF Atomic!Next
<1>9. ASSUME NEW t \in Threads, PushSwap(t) PROVE Atomic!Next
  <2>1. \A p : p = exchange[t].ptr => InOrder(<<p>> \o s)'
    BY <1>1, <1>9, PushInOrder
  <2>2. \A p : p = exchange[t].ptr => Chain' = <<p>> \o s
    BY <1>3, <2>1
  <2>3. Chain' = <<exchange[t].ptr>> \o Chain
    BY <1>2, <2>2
  <2> QED
    BY <1>9, <2>3, PushImplements DEF Atomic!Next
<1>10. CASE UNCHANGED vars
  <2>1. UNCHANGED <<Chain, held, Pending>>
    BY <1>10 DEF vars, Chain, Pending, AsPending
  <2> QED
    BY <2>1
<1> QED
  BY <1>5, <1>6, <1>7, <1>8, <1>9, <1>10 DEF Next, Go, Reading

(***************************************************************************)
(* lfds611_freelist_pop(), _guaranteed_pop() and _push() are linearizable: *)
(* each takes effect at one moment between its call and its return, as an  *)
(* operation on a stack.                                                   *)
(***************************************************************************)
THEOREM FreelistIsStack == Spec => ImplementsStack
<1>1. IInv /\ HasList /\ Init => Atomic!Init
  <2> SUFFICES ASSUME IInv, HasList, Init PROVE Atomic!Init
    OBVIOUS
  <2>1. Chain \in Seq(Elements)
    BY ChainIsList DEF IInv, HasList
  <2>2. Pending = [t \in Threads |-> Atomic!Idle]
    BY DEF Init, Pending, AsPending, Atomic!Idle
  <2> QED
    BY <2>1, <2>2 DEF Atomic!Init, Init, Pending
<1>2. (IInv /\ HasList) /\ (IInv /\ HasList)' /\ [Next]_vars => [Atomic!Next]_(Atomic!vars)
  BY StepImplements DEF IInv, Atomic!vars, Pending
<1> QED
  BY <1>1, <1>2, AlwaysList, PTL DEF Spec, ImplementsStack, Atomic!Spec
=============================================================================
