-------------------------- MODULE LfRingbufferProof --------------------------
(***************************************************************************)
(* Theorems about LfRingbuffer, for any number of threads and elements.    *)
(***************************************************************************)
EXTENDS LfRingbuffer, FiniteSetTheorems, SequenceTheorems, TLAPS

-----------------------------------------------------------------------------
(***************************************************************************)
(* The inductive invariant.  Once is EveryElementOnce, place by place.     *)
(***************************************************************************)
Members(s) == {s[i] : i \in DOMAIN s}
Distinct(s) == \A i, j \in DOMAIN s : s[i] = s[j] => i = j

Holding == {"writeNode", "writing", "readNode", "reading"}

Once ==
  /\ Distinct(fs) /\ Distinct(qs) /\ \A t \in Threads : Distinct(row[t])
  /\ Members(fs) \cap Members(qs) = {}
  /\ \A t \in Threads : Members(row[t]) \cap (Members(fs) \union Members(qs)) = {}
  /\ \A t, u \in Threads : t # u => Members(row[t]) \cap Members(row[u]) = {}
  /\ \A t \in Threads : fe[t] \notin Members(fs) \union Members(qs)
  /\ \A t, u \in Threads : fe[t] \notin Members(row[u])
  /\ \A t, u \in Threads : fe[t] = fe[u] /\ fe[t] # Null => t = u
  /\ \A e \in Elements :
       e \in Members(fs) \union Members(qs) \/ \E t \in Threads : fe[t] = e \/ e \in Members(row[t])

\* A thread has an element from get to put, enqueues one until it is linked, and is in get_write_element
\* until it has one.
Phases ==
  \A t \in Threads :
    /\ fe[t] # Null <=> pc[t] \in Holding
    /\ row[t] # <<>> <=> pc[t] = "enqueue"
    /\ pc[t] \in {"pop", "steal"} => t \in sawFull
    /\ pc[t] \in {"pop", "steal", "writeNode", "writing"} => puts[t] < MaxPuts

\* A thread in one of these places has a node for its element that is not back yet.
Nodal(t) == pc[t] \in {"readNode", "writeNode"}

\* The elements that need a node of the queue, and the nodes that are left.
NeedNode ==
  {e \in Elements :
     \/ e \in Members(qs)
     \/ \E t \in Threads : e \in Members(row[t])
     \/ \E t \in Threads : Nodal(t) /\ fe[t] = e}
NodesCount == nodes + Cardinality(NeedNode) = NumberElements

IInv == TypeOK /\ Once /\ Phases /\ NodesCount

-----------------------------------------------------------------------------
\* What the freelist's and the queue's operations do to the members of a sequence.
LEMMA TailMembers ==
  ASSUME NEW S, NEW s \in Seq(S), s # <<>>, Distinct(s)
  PROVE  /\ Tail(s) \in Seq(S) /\ Distinct(Tail(s))
         /\ Head(s) \in S /\ Head(s) \in Members(s)
         /\ Members(Tail(s)) = Members(s) \ {Head(s)}
<1>1. /\ Tail(s) \in Seq(S) /\ Len(s) \in Nat \ {0} /\ DOMAIN s = 1..Len(s)
      /\ DOMAIN Tail(s) = 1..(Len(s) - 1) /\ Head(s) = s[1] /\ Head(s) \in S
      /\ \A i \in 1..(Len(s) - 1) : Tail(s)[i] = s[i + 1]
  OBVIOUS
<1>2. Distinct(Tail(s))
  BY <1>1 DEF Distinct
<1>3. Members(Tail(s)) = {s[i] : i \in 2..Len(s)}
  <2>1. \A x : x \in Members(Tail(s)) <=> \E i \in 1..(Len(s) - 1) : x = s[i + 1]
    BY <1>1 DEF Members
  <2>2. \A x : (\E i \in 1..(Len(s) - 1) : x = s[i + 1]) <=> \E j \in 2..Len(s) : x = s[j]
    <3>1. \A j \in 2..Len(s) : j - 1 \in 1..(Len(s) - 1) /\ (j - 1) + 1 = j
      BY <1>1
    <3>2. \A i \in 1..(Len(s) - 1) : i + 1 \in 2..Len(s)
      BY <1>1
    <3> QED
      BY <3>1, <3>2
  <2> QED
    BY <2>1, <2>2
<1>4. Members(s) = {s[i] : i \in 1..Len(s)} /\ 1 \in 1..Len(s)
  BY <1>1 DEF Members
<1>5. {s[i] : i \in 2..Len(s)} = {s[i] : i \in 1..Len(s)} \ {s[1]}
  <2>1. \A i \in 1..Len(s) : s[i] = s[1] <=> i = 1
    BY <1>1 DEF Distinct
  <2>2. \A i \in 1..Len(s) : i \in 2..Len(s) <=> i # 1
    BY <1>1
  <2> QED
    BY <1>1, <2>1, <2>2
<1> QED
  BY <1>1, <1>2, <1>3, <1>4, <1>5

\* Two sequences without a common member, one behind the other.
LEMMA ConcatMembers ==
  ASSUME NEW S, NEW s \in Seq(S), NEW r \in Seq(S), Distinct(s), Distinct(r), Members(s) \cap Members(r) = {}
  PROVE  /\ s \o r \in Seq(S) /\ Distinct(s \o r)
         /\ Members(s \o r) = Members(s) \union Members(r)
<1>1. PICK p : p = s \o r
  OBVIOUS
<1>2. PICK m \in Nat, n \in Nat : m = Len(s) /\ n = Len(r)
  OBVIOUS
<1>3. /\ p \in Seq(S) /\ DOMAIN s = 1..m /\ DOMAIN r = 1..n /\ DOMAIN p = 1..(m + n)
      /\ \A i \in 1..m : p[i] = s[i]
      /\ \A i \in 1..n : p[m + i] = r[i]
  BY <1>1, <1>2
<1>4. \A k \in 1..(m + n) : (k \in 1..m /\ p[k] = s[k]) \/ (k - m \in 1..n /\ p[k] = r[k - m])
  BY <1>1, <1>2
<1>5. \A i \in 1..m : i \in 1..(m + n)
  BY <1>2
<1>6. \A i \in 1..n : m + i \in 1..(m + n)
  BY <1>2
<1>7. \A i \in 1..m : \A j \in 1..n : s[i] # r[j]
  BY <1>3 DEF Members
<1>8. Distinct(p)
  <2>1. \A i, j \in 1..m : s[i] = s[j] => i = j
    BY <1>3 DEF Distinct
  <2>2. \A i, j \in 1..n : r[i] = r[j] => i = j
    BY <1>3 DEF Distinct
  <2>3. ASSUME NEW i \in 1..(m + n), NEW j \in 1..(m + n), p[i] = p[j] PROVE i = j
    <3>1. CASE i \in 1..m /\ p[i] = s[i] /\ j \in 1..m /\ p[j] = s[j]
      BY <2>1, <2>3, <3>1
    <3>2. CASE i - m \in 1..n /\ p[i] = r[i - m] /\ j - m \in 1..n /\ p[j] = r[j - m]
      <4>1. i - m = j - m
        BY <2>2, <2>3, <3>2
      <4> QED
        BY <1>2, <4>1
    <3>3. CASE i \in 1..m /\ p[i] = s[i] /\ j - m \in 1..n /\ p[j] = r[j - m]
      BY <1>7, <2>3, <3>3
    <3>4. CASE i - m \in 1..n /\ p[i] = r[i - m] /\ j \in 1..m /\ p[j] = s[j]
      BY <1>7, <2>3, <3>4
    <3> QED
      BY <1>4, <3>1, <3>2, <3>3, <3>4
  <2> QED
    BY <1>3, <2>3 DEF Distinct
<1>9. Members(p) = Members(s) \union Members(r)
  <2>1. ASSUME NEW x \in Members(p) PROVE x \in Members(s) \union Members(r)
    <3>1. PICK k \in 1..(m + n) : x = p[k]
      BY <1>3 DEF Members
    <3> QED
      BY <1>3, <1>4, <3>1 DEF Members
  <2>2. ASSUME NEW x \in Members(s) PROVE x \in Members(p)
    <3>1. PICK i \in 1..m : x = s[i]
      BY <1>3 DEF Members
    <3> QED
      BY <1>3, <1>5, <3>1 DEF Members
  <2>3. ASSUME NEW x \in Members(r) PROVE x \in Members(p)
    <3>1. PICK i \in 1..n : x = r[i]
      BY <1>3 DEF Members
    <3>2. m + i \in DOMAIN p /\ x = p[m + i]
      BY <1>3, <1>6, <3>1
    <3> QED
      BY <3>2 DEF Members
  <2> QED
    BY <2>1, <2>2, <2>3
<1> QED
  BY <1>1, <1>3, <1>8, <1>9

\* A sequence of one element, and the empty one.
LEMMA OneMember ==
  /\ Distinct(<<>>) /\ Members(<<>>) = {}
  /\ \A e : Distinct(<<e>>) /\ Members(<<e>>) = {e}
BY DEF Distinct, Members

\* An element put in front.
LEMMA PushMembers ==
  ASSUME NEW S, NEW s \in Seq(S), Distinct(s), NEW e \in S, e \notin Members(s)
  PROVE  /\ <<e>> \o s \in Seq(S) /\ Distinct(<<e>> \o s)
         /\ Members(<<e>> \o s) = Members(s) \union {e}
<1>1. PICK one : one = <<e>>
  OBVIOUS
<1>2. Distinct(one) /\ Members(one) = {e} /\ one \in Seq(S)
  BY <1>1, OneMember
<1>3. /\ one \o s \in Seq(S) /\ Distinct(one \o s)
      /\ Members(one \o s) = Members(one) \union Members(s)
  BY <1>2, ConcatMembers
<1> QED
  BY <1>1, <1>2, <1>3

-----------------------------------------------------------------------------
\* Every step leaves each element where it is, or moves one of them.
FromQueue(t) ==
  /\ fe[t] = Null /\ qs # <<>>
  /\ qs' = Tail(qs) /\ fe' = [fe EXCEPT ![t] = Head(qs)] /\ UNCHANGED <<fs, row>>
FromFreelist(t) ==
  /\ fe[t] = Null /\ fs # <<>>
  /\ fs' = Tail(fs) /\ fe' = [fe EXCEPT ![t] = Head(fs)] /\ UNCHANGED <<qs, row>>
ToFreelist(t) ==
  /\ fe[t] # Null
  /\ fs' = <<fe[t]>> \o fs /\ fe' = [fe EXCEPT ![t] = Null] /\ UNCHANGED <<qs, row>>
ToRow(t) ==
  /\ fe[t] # Null /\ row[t] = <<>>
  /\ row' = [row EXCEPT ![t] = <<fe[t]>>] /\ fe' = [fe EXCEPT ![t] = Null] /\ UNCHANGED <<fs, qs>>
ToQueue(t) ==
  /\ qs' = qs \o row[t] /\ row' = [row EXCEPT ![t] = <<>>] /\ UNCHANGED <<fs, fe>>
ToOther(t, u) ==
  /\ u # t
  /\ row' = [row EXCEPT ![u] = @ \o row[t], ![t] = <<>>] /\ UNCHANGED <<fs, qs, fe>>

\* The elements that need a node are elements, and so finitely many.
LEMMA NeedNodeFinite ==
  ASSUME TypeOK, Phases
  PROVE  NeedNode \subseteq Elements /\ IsFiniteSet(NeedNode) /\ Cardinality(NeedNode) \in Nat
<1>2. NeedNode \subseteq Elements
  BY DEF NeedNode
<1>3. IsFiniteSet(Elements)
  BY SizesAssumption, FS_Interval DEF Elements
<1>4. IsFiniteSet(NeedNode)
  BY <1>2, <1>3, FS_Subset
<1> QED
  BY <1>2, <1>4, FS_CardinalityType

\* put_write_element() finds a node: the element it puts is one that does not have one.
LEMMA NodeIsLeft ==
  ASSUME IInv, NEW t \in Threads, pc[t] = "writing"
  PROVE  nodes # 0 /\ fe[t] \in Elements /\ fe[t] \notin NeedNode
<1>1. fe[t] # Null /\ fe[t] \in Elements
  BY DEF IInv, TypeOK, Phases, Holding
<1>2. fe[t] \notin NeedNode
  BY <1>1 DEF IInv, Once, NeedNode, Nodal
<1>3. Cardinality(Elements) = NumberElements /\ IsFiniteSet(Elements)
  BY SizesAssumption, FS_Interval DEF Elements
<1>4. NeedNode \subseteq Elements /\ Cardinality(NeedNode) \in Nat
  BY NeedNodeFinite DEF IInv
<1>5. Cardinality(NeedNode) # NumberElements
  BY <1>1, <1>2, <1>3, <1>4, FS_Subset
<1>6. nodes + Cardinality(NeedNode) = NumberElements /\ nodes \in Nat
  BY SizesAssumption DEF IInv, NodesCount, TypeOK, FreeNodes
<1>7. nodes # 0
  BY <1>4, <1>5, <1>6
<1> QED
  BY <1>1, <1>2, <1>7

\* No step does anything else to the places of an element.
LEMMA Moves ==
  ASSUME IInv, [Next]_vars
  PROVE  \/ UNCHANGED <<fs, qs, fe, row>>
         \/ \E t \in Threads : FromQueue(t) \/ FromFreelist(t) \/ ToFreelist(t) \/ ToRow(t) \/ ToQueue(t)
         \/ \E t, u \in Threads : ToOther(t, u)
<1> USE DEF IInv, Phases, Holding
<1>1. CASE UNCHANGED vars
  BY <1>1 DEF vars
<1>2. ASSUME NEW t \in Threads, ReturnNode(t) PROVE UNCHANGED <<fs, qs, fe, row>>
  BY <1>2 DEF ReturnNode
<1>3. ASSUME NEW t \in Threads, PutReadElement(t) PROVE ToFreelist(t)
  BY <1>3 DEF PutReadElement, ToFreelist, Hold
<1>4. ASSUME NEW t \in Threads, Steal(t) PROVE FromQueue(t) \/ UNCHANGED <<fs, qs, fe, row>>
  BY <1>4 DEF Steal, Dequeue, FromQueue, Hold
<1>5. ASSUME NEW t \in Threads, PutWriteElement(t) PROVE ToRow(t)
  BY <1>5, NodeIsLeft DEF PutWriteElement, ToRow, Hold
<1>6. ASSUME NEW t \in Threads, Enqueue(t) PROVE ToQueue(t)
  BY <1>6 DEF Enqueue, ToQueue
<1>7. ASSUME NEW t \in Threads, NEW u \in Threads, EnqueueBehind(t, u) PROVE ToOther(t, u)
  BY <1>7 DEF EnqueueBehind, ToOther
<1>8. ASSUME NEW t \in Threads, GetReadElement(t) PROVE FromQueue(t)
  BY <1>8 DEF GetReadElement, Dequeue, FromQueue, Hold
<1>9. ASSUME NEW t \in Threads, GetWriteElement(t) PROVE FromFreelist(t) \/ UNCHANGED <<fs, qs, fe, row>>
  BY <1>9 DEF GetWriteElement, FromFreelist, Hold
<1> QED
  BY <1>1, <1>2, <1>3, <1>4, <1>5, <1>6, <1>7, <1>8, <1>9 DEF Next, Go

\* The members of a sequence of elements.
LEMMA MemberType ==
  ASSUME NEW s \in Seq(Elements)
  PROVE  Members(s) \subseteq Elements /\ Null \notin Members(s)
<1>1. Members(s) \subseteq Elements
  BY ElementOfSeq, LenProperties DEF Members
<1> QED
  BY <1>1 DEF Elements, Null

\* What OnceStep says of the state after a step.
OnceNext ==
  /\ Once' /\ fs' \in Seq(Elements) /\ qs' \in Seq(Elements)
  /\ fe' \in [Threads -> Elements \union {Null}] /\ row' \in [Threads -> Seq(Elements)]

\* Once, by the sets of members.
Apart(F, Q, R, f) ==
  /\ F \cap Q = {}
  /\ \A t \in Threads : R[t] \cap (F \union Q) = {}
  /\ \A t, u \in Threads : t # u => R[t] \cap R[u] = {}
  /\ \A t \in Threads : f[t] \notin F \union Q
  /\ \A t, u \in Threads : f[t] \notin R[u]
  /\ \A t, u \in Threads : f[t] = f[u] /\ f[t] # Null => t = u
  /\ \A e \in Elements : e \in F \union Q \/ \E t \in Threads : f[t] = e \/ e \in R[t]
Rows == [t \in Threads |-> Members(row[t])]

LEMMA OnceApart ==
  /\ Once <=> /\ Distinct(fs) /\ Distinct(qs) /\ \A t \in Threads : Distinct(row[t])
              /\ Apart(Members(fs), Members(qs), Rows, fe)
  /\ Once' <=> /\ Distinct(fs') /\ Distinct(qs') /\ \A t \in Threads : Distinct(row'[t])
               /\ Apart(Members(fs'), Members(qs'), [t \in Threads |-> Members(row'[t])], fe')
<1>1. Once <=> /\ Distinct(fs) /\ Distinct(qs) /\ \A t \in Threads : Distinct(row[t])
              /\ Apart(Members(fs), Members(qs), Rows, fe)
  BY DEF Once, Apart, Rows
<1>2. Once' <=> /\ Distinct(fs') /\ Distinct(qs') /\ \A t \in Threads : Distinct(row'[t])
               /\ Apart(Members(fs'), Members(qs'), [t \in Threads |-> Members(row'[t])], fe')
  BY DEF Once, Apart, Distinct, Members
<1> QED
  BY <1>1, <1>2

\* An element is in one place, before and after a step.
LEMMA OnceStep ==
  ASSUME IInv, [Next]_vars
  PROVE  OnceNext
<1>1. /\ fs \in Seq(Elements) /\ qs \in Seq(Elements) /\ fe \in [Threads -> Elements \union {Null}]
      /\ row \in [Threads -> Seq(Elements)] /\ Null \notin Elements /\ Once
  BY DEF IInv, TypeOK, Elements, Null
<1>2. PICK F, Q, R : F = Members(fs) /\ Q = Members(qs) /\ R = Rows
  OBVIOUS
<1>3. /\ Distinct(fs) /\ Distinct(qs) /\ \A t \in Threads : Distinct(row[t])
      /\ Apart(F, Q, R, fe)
  BY <1>1, <1>2, OnceApart
<1>4. DOMAIN R = Threads /\ \A t \in Threads : R[t] = Members(row[t])
  BY <1>2 DEF Rows
<1>5. Null \notin F /\ Null \notin Q /\ \A t \in Threads : Null \notin R[t]
  BY <1>1, <1>2, <1>4, MemberType
<1>6. ASSUME NEW RR, \A t \in Threads : RR[t] = Members(row'[t]), NEW FF, NEW QQ,
             FF = Members(fs'), QQ = Members(qs'), Apart(FF, QQ, RR, fe'),
             Distinct(fs'), Distinct(qs'), \A t \in Threads : Distinct(row'[t]),
             fs' \in Seq(Elements), qs' \in Seq(Elements),
             fe' \in [Threads -> Elements \union {Null}], row' \in [Threads -> Seq(Elements)]
      PROVE  OnceNext
  <2>1. Apart(FF, QQ, [t \in Threads |-> Members(row'[t])], fe')
    BY <1>6 DEF Apart
  <2> QED
    BY <1>6, <2>1, OnceApart DEF OnceNext
<1>7. CASE UNCHANGED <<fs, qs, fe, row>>
  BY <1>1, <1>2, <1>3, <1>4, <1>6, <1>7
<1>8. ASSUME NEW t \in Threads, FromQueue(t) PROVE OnceNext
  <2>1. PICK h : h = Head(qs)
    OBVIOUS
  <2>2. /\ qs' \in Seq(Elements) /\ Distinct(qs') /\ h \in Elements /\ h \in Q
        /\ Members(qs') = Q \ {h}
    BY <1>1, <1>2, <1>3, <1>8, <2>1, TailMembers DEF FromQueue
  <2>3. fe' = [fe EXCEPT ![t] = h] /\ fe[t] = Null /\ UNCHANGED <<fs, row>>
    BY <1>8, <2>1 DEF FromQueue
  <2>4. fe' \in [Threads -> Elements \union {Null}] /\ \A u \in Threads : fe'[u] = IF u = t THEN h ELSE fe[u]
    BY <1>1, <2>2, <2>3
  <2>5. Apart(F, Q \ {h}, R, fe')
    BY <1>1, <1>3, <2>2, <2>3, <2>4 DEF Apart
  <2> QED
    BY <1>1, <1>2, <1>3, <1>4, <1>6, <2>2, <2>3, <2>4, <2>5
<1>9. ASSUME NEW t \in Threads, FromFreelist(t) PROVE OnceNext
  <2>1. PICK h : h = Head(fs)
    OBVIOUS
  <2>2. /\ fs' \in Seq(Elements) /\ Distinct(fs') /\ h \in Elements /\ h \in F
        /\ Members(fs') = F \ {h}
    BY <1>1, <1>2, <1>3, <1>9, <2>1, TailMembers DEF FromFreelist
  <2>3. fe' = [fe EXCEPT ![t] = h] /\ fe[t] = Null /\ UNCHANGED <<qs, row>>
    BY <1>9, <2>1 DEF FromFreelist
  <2>4. fe' \in [Threads -> Elements \union {Null}] /\ \A u \in Threads : fe'[u] = IF u = t THEN h ELSE fe[u]
    BY <1>1, <2>2, <2>3
  <2>5. Apart(F \ {h}, Q, R, fe')
    BY <1>1, <1>3, <2>2, <2>3, <2>4 DEF Apart
  <2> QED
    BY <1>1, <1>2, <1>3, <1>4, <1>6, <2>2, <2>3, <2>4, <2>5
<1>10. ASSUME NEW t \in Threads, ToFreelist(t) PROVE OnceNext
  <2>1. PICK h : h = fe[t]
    OBVIOUS
  <2>2. h \in Elements /\ h \notin F
    BY <1>1, <1>3, <1>10, <2>1 DEF ToFreelist, Apart
  <2>3. fs' \in Seq(Elements) /\ Distinct(fs') /\ Members(fs') = F \union {h}
    BY <1>1, <1>2, <1>3, <1>10, <2>1, <2>2, PushMembers DEF ToFreelist
  <2>4. fe' = [fe EXCEPT ![t] = Null] /\ UNCHANGED <<qs, row>>
    BY <1>10 DEF ToFreelist
  <2>5. fe' \in [Threads -> Elements \union {Null}] /\ \A u \in Threads : fe'[u] = IF u = t THEN Null ELSE fe[u]
    BY <1>1, <2>4
  <2>6. Apart(F \union {h}, Q, R, fe')
    <3>1. h \notin Q /\ h # Null /\ \A u \in Threads : h \notin R[u] /\ (u # t => fe[u] # h)
      BY <1>1, <1>3, <2>1, <2>2 DEF Apart
    <3>2. /\ (F \union {h}) \cap Q = {}
          /\ \A u \in Threads : R[u] \cap ((F \union {h}) \union Q) = {}
          /\ \A u, v \in Threads : u # v => R[u] \cap R[v] = {}
      BY <1>3, <3>1 DEF Apart
    <3>3. /\ \A u \in Threads : fe'[u] \notin (F \union {h}) \union Q
          /\ \A u, v \in Threads : fe'[u] \notin R[v]
          /\ \A u, v \in Threads : fe'[u] = fe'[v] /\ fe'[u] # Null => u = v
      BY <1>3, <1>5, <2>5, <3>1 DEF Apart
    <3>4. \A e \in Elements :
            e \in (F \union {h}) \union Q \/ \E u \in Threads : fe'[u] = e \/ e \in R[u]
      BY <1>3, <2>1, <2>5 DEF Apart
    <3> QED
      BY <3>2, <3>3, <3>4 DEF Apart
  <2> QED
    BY <1>1, <1>2, <1>3, <1>4, <1>6, <2>3, <2>4, <2>5, <2>6
<1>11. ASSUME NEW t \in Threads, ToRow(t) PROVE OnceNext
  <2>1. PICK h : h = fe[t]
    OBVIOUS
  <2>2. h \in Elements /\ row' = [row EXCEPT ![t] = <<h>>] /\ R[t] = {}
    BY <1>1, <1>4, <1>11, <2>1, OneMember DEF ToRow
  <2>3. <<h>> \in Seq(Elements) /\ Distinct(<<h>>) /\ Members(<<h>>) = {h}
    BY <2>2, OneMember
  <2>4. fe' = [fe EXCEPT ![t] = Null] /\ UNCHANGED <<fs, qs>>
    BY <1>11 DEF ToRow
  <2>5. fe' \in [Threads -> Elements \union {Null}] /\ \A u \in Threads : fe'[u] = IF u = t THEN Null ELSE fe[u]
    BY <1>1, <2>4
  <2>6. row' \in [Threads -> Seq(Elements)] /\ \A u \in Threads : row'[u] = IF u = t THEN <<h>> ELSE row[u]
    BY <1>1, <2>2, <2>3
  <2>7. PICK RR : RR = [R EXCEPT ![t] = {h}]
    OBVIOUS
  <2>8. \A u \in Threads : RR[u] = IF u = t THEN {h} ELSE R[u]
    BY <1>4, <2>7
  <2>9. Apart(F, Q, RR, fe')
    <3>1. h \notin F \union Q /\ h # Null /\ \A u \in Threads : h \notin R[u] /\ (u # t => fe[u] # h)
      BY <1>1, <1>3, <2>1, <2>2 DEF Apart
    <3>2. /\ F \cap Q = {}
          /\ \A u \in Threads : RR[u] \cap (F \union Q) = {}
          /\ \A u, v \in Threads : u # v => RR[u] \cap RR[v] = {}
      BY <1>3, <2>8, <3>1 DEF Apart
    <3>3. /\ \A u \in Threads : fe'[u] \notin F \union Q
          /\ \A u, v \in Threads : fe'[u] \notin RR[v]
          /\ \A u, v \in Threads : fe'[u] = fe'[v] /\ fe'[u] # Null => u = v
      BY <1>3, <1>5, <2>5, <2>8, <3>1 DEF Apart
    <3>4. \A e \in Elements :
            e \in F \union Q \/ \E u \in Threads : fe'[u] = e \/ e \in RR[u]
      BY <1>3, <2>1, <2>2, <2>5, <2>8 DEF Apart
    <3> QED
      BY <3>2, <3>3, <3>4 DEF Apart
  <2>10. \A u \in Threads : RR[u] = Members(row'[u]) /\ Distinct(row'[u])
    BY <1>3, <1>4, <2>3, <2>6, <2>8
  <2> QED
    BY <1>1, <1>2, <1>3, <1>6, <2>4, <2>5, <2>6, <2>9, <2>10
<1>12. ASSUME NEW t \in Threads, ToQueue(t) PROVE OnceNext
  <2>1. UNCHANGED <<fs, fe>> /\ row' = [row EXCEPT ![t] = <<>>] /\ qs' = qs \o row[t]
    BY <1>12 DEF ToQueue
  <2>2. row[t] \in Seq(Elements) /\ Distinct(row[t]) /\ Q \cap R[t] = {}
    BY <1>1, <1>3 DEF Apart
  <2>3. qs' \in Seq(Elements) /\ Distinct(qs') /\ Members(qs') = Q \union R[t]
    BY <1>1, <1>2, <1>3, <1>4, <2>1, <2>2, ConcatMembers
  <2>4. row' \in [Threads -> Seq(Elements)] /\ \A u \in Threads : row'[u] = IF u = t THEN <<>> ELSE row[u]
    BY <1>1, <2>1
  <2>5. PICK RR : RR = [R EXCEPT ![t] = {}]
    OBVIOUS
  <2>6. \A u \in Threads : RR[u] = IF u = t THEN {} ELSE R[u]
    BY <1>4, <2>5
  <2>7. Apart(F, Q \union R[t], RR, fe)
    BY <1>3, <2>6 DEF Apart
  <2>8. \A u \in Threads : RR[u] = Members(row'[u]) /\ Distinct(row'[u])
    BY <1>3, <1>4, <2>4, <2>6, OneMember
  <2> QED
    BY <1>1, <1>2, <1>3, <1>6, <2>1, <2>3, <2>4, <2>7, <2>8
<1>13. ASSUME NEW t \in Threads, NEW u \in Threads, ToOther(t, u) PROVE OnceNext
  <2>1. u # t /\ UNCHANGED <<fs, qs, fe>> /\ row' = [row EXCEPT ![u] = @ \o row[t], ![t] = <<>>]
    BY <1>13 DEF ToOther
  <2>2. row[t] \in Seq(Elements) /\ Distinct(row[t]) /\ R[u] \cap R[t] = {}
        /\ row[u] \in Seq(Elements) /\ Distinct(row[u])
    BY <1>1, <1>3, <2>1 DEF Apart
  <2>3. PICK c : c = row[u] \o row[t]
    OBVIOUS
  <2>4. c \in Seq(Elements) /\ Distinct(c) /\ Members(c) = R[u] \union R[t]
    BY <1>4, <2>2, <2>3, ConcatMembers
  <2>5. row' \in [Threads -> Seq(Elements)]
        /\ \A v \in Threads : row'[v] = IF v = t THEN <<>> ELSE IF v = u THEN c ELSE row[v]
    <3>1. row' = [row EXCEPT ![u] = c, ![t] = <<>>]
      BY <2>1, <2>3
    <3>2. <<>> \in Seq(Elements)
      OBVIOUS
    <3> QED
      BY <1>1, <2>1, <2>4, <3>1, <3>2
  <2>6. PICK RR : RR = [R EXCEPT ![u] = R[u] \union R[t], ![t] = {}]
    OBVIOUS
  <2>7. \A v \in Threads : RR[v] = IF v = t THEN {} ELSE IF v = u THEN R[u] \union R[t] ELSE R[v]
    BY <1>4, <2>1, <2>6
  <2>8. Apart(F, Q, RR, fe)
    BY <1>3, <2>1, <2>7 DEF Apart
  <2>9. \A v \in Threads : RR[v] = Members(row'[v]) /\ Distinct(row'[v])
    BY <1>3, <1>4, <2>4, <2>5, <2>7, OneMember
  <2> QED
    BY <1>1, <1>2, <1>3, <1>6, <2>1, <2>5, <2>8, <2>9
<1> QED
  BY <1>7, <1>8, <1>9, <1>10, <1>11, <1>12, <1>13, Moves

\* The thread that moves is in a phase that has an element from get to put.
LEMMA PhasesStep ==
  ASSUME IInv, [Next]_vars
  PROVE  /\ Phases'
         /\ pc' \in [Threads -> {"idle", "pop", "steal", "writeNode", "writing", "enqueue", "readNode", "reading"}]
         /\ puts' \in [Threads -> 0..MaxPuts] /\ sawFull' \subseteq Threads
<1> DEFINE Goal == /\ Phases'
                   /\ pc' \in [Threads -> {"idle", "pop", "steal", "writeNode", "writing", "enqueue", "readNode", "reading"}]
                   /\ puts' \in [Threads -> 0..MaxPuts] /\ sawFull' \subseteq Threads
<1>1. /\ pc \in [Threads -> {"idle", "pop", "steal", "writeNode", "writing", "enqueue", "readNode", "reading"}]
      /\ puts \in [Threads -> 0..MaxPuts] /\ sawFull \subseteq Threads
      /\ fe \in [Threads -> Elements \union {Null}] /\ fs \in Seq(Elements) /\ qs \in Seq(Elements) /\ MaxPuts \in Nat
      /\ row \in [Threads -> Seq(Elements)]
  BY SizesAssumption DEF IInv, TypeOK
<1>2. /\ fs # <<>> => Head(fs) \in Elements
      /\ qs # <<>> => Head(qs) \in Elements
      /\ Null \notin Elements
  <2>1. /\ fs # <<>> => Head(fs) \in Elements
        /\ qs # <<>> => Head(qs) \in Elements
    BY <1>1, HeadTailProperties
  <2> QED
    BY <2>1 DEF Elements, Null
<1> USE <1>1, <1>2 DEF IInv, Phases, Holding
<1>3. CASE UNCHANGED vars
  BY <1>3 DEF vars
<1>4. ASSUME NEW t \in Threads, ReturnNode(t) PROVE Goal
  BY <1>4 DEF ReturnNode, Goto
<1>5. ASSUME NEW t \in Threads, PutReadElement(t) PROVE Goal
  BY <1>5 DEF PutReadElement, Goto, Hold
<1>6. ASSUME NEW t \in Threads, Steal(t) PROVE Goal
  <2>1. CASE Dequeue(t, "writeNode") /\ sawFull' = sawFull \ {t}
    BY <1>6, <2>1 DEF Steal, Dequeue, Goto, Hold
  <2>2. CASE qs = <<>> /\ Goto(t, "pop") /\ UNCHANGED <<fs, qs, nodes, data, fe, row, puts, sawFull>>
    BY <1>6, <2>2 DEF Steal, Goto
  <2> QED
    BY <1>6, <2>1, <2>2 DEF Steal
<1>7. ASSUME NEW t \in Threads, PutWriteElement(t) PROVE Goal
  <2>1. nodes # 0
    BY <1>7, NodeIsLeft DEF PutWriteElement
  <2>2. puts[t] + 1 \in 0..MaxPuts
    BY <1>7 DEF PutWriteElement
  <2>3. <<fe[t]>> # <<>>
    OBVIOUS
  <2>4. PICK one : one = <<fe[t]>>
    OBVIOUS
  <2>5. /\ row' = [row EXCEPT ![t] = one] /\ one # <<>> /\ fe' = [fe EXCEPT ![t] = Null]
        /\ pc' = [pc EXCEPT ![t] = "enqueue"] /\ puts' = [puts EXCEPT ![t] = @ + 1] /\ UNCHANGED sawFull
        /\ pc[t] = "writing"
    BY <1>7, <2>1, <2>3, <2>4 DEF PutWriteElement, Goto, Hold
  <2> QED
    BY <2>2, <2>5
<1>8. ASSUME NEW t \in Threads, Enqueue(t) PROVE Goal
  BY <1>8 DEF Enqueue, Goto
<1>11. ASSUME NEW t \in Threads, NEW u \in Threads, EnqueueBehind(t, u) PROVE Goal
  <2>1. PICK c : c = row[u] \o row[t]
    OBVIOUS
  <2>2. c # <<>>
    <3>1. row[u] # <<>> /\ row[u] \in Seq(Elements) /\ row[t] \in Seq(Elements)
      BY <1>11 DEF EnqueueBehind
    <3> QED
      BY <2>1, <3>1
  <2>3. /\ u # t /\ pc[t] = "enqueue" /\ pc[u] = "enqueue" /\ UNCHANGED <<fe, puts, sawFull>>
        /\ row' = [row EXCEPT ![u] = c, ![t] = <<>>] /\ pc' = [pc EXCEPT ![t] = "idle"]
    BY <1>11, <2>1 DEF EnqueueBehind, Goto
  <2> QED
    BY <2>2, <2>3
<1>9. ASSUME NEW t \in Threads, GetReadElement(t) PROVE Goal
  BY <1>9 DEF GetReadElement, Dequeue, Goto, Hold
<1>10. ASSUME NEW t \in Threads, GetWriteElement(t) PROVE Goal
  <2>1. puts[t] < MaxPuts
    BY <1>10 DEF GetWriteElement
  <2>2. CASE fs # <<>>
    BY <1>10, <2>1, <2>2 DEF GetWriteElement, Goto, Hold
  <2>3. CASE fs = <<>>
    BY <1>10, <2>1, <2>3 DEF GetWriteElement, Goto
  <2> QED
    BY <2>2, <2>3
<1> QED
  BY <1>3, <1>4, <1>5, <1>6, <1>7, <1>8, <1>11, <1>9, <1>10 DEF Next, Go

\* A node is taken with an element that has none, and given back by the thread that took the element.
LEMMA NodesStep ==
  ASSUME IInv, [Next]_vars
  PROVE  NodesCount' /\ nodes' \in Nat
<1> DEFINE Goal == NodesCount' /\ nodes' \in Nat
<1>1. nodes \in Nat /\ NumberElements \in Nat \ {0}
  BY SizesAssumption DEF IInv, TypeOK, FreeNodes
<1>2. fs \in Seq(Elements) /\ qs \in Seq(Elements) /\ Null \notin Elements
      /\ fe \in [Threads -> Elements \union {Null}] /\ row \in [Threads -> Seq(Elements)]
      /\ pc \in [Threads -> {"idle", "pop", "steal", "writeNode", "writing", "enqueue", "readNode", "reading"}]
  BY DEF IInv, TypeOK, Elements, Null
<1>3. NeedNode \subseteq Elements /\ IsFiniteSet(NeedNode) /\ Cardinality(NeedNode) \in Nat
      /\ nodes + Cardinality(NeedNode) = NumberElements
  BY NeedNodeFinite DEF IInv, NodesCount
<1>4. ASSUME NeedNode' = NeedNode, nodes' = nodes PROVE Goal
  BY <1>1, <1>3, <1>4 DEF NodesCount
<1>5. CASE UNCHANGED vars
  <2>1. NeedNode' = NeedNode /\ nodes' = nodes
    BY <1>5 DEF vars, NeedNode, Nodal
  <2> QED
    BY <1>4, <2>1
<1>6. ASSUME NEW t \in Threads, ReturnNode(t) PROVE Goal
  <2>1. fe[t] # Null /\ Nodal(t) /\ fe[t] \in Elements
    BY <1>2, <1>6 DEF IInv, Phases, Holding, ReturnNode, Nodal
  <2>2. UNCHANGED <<qs, row, fe>> /\ \A u \in Threads : Nodal(u)' <=> Nodal(u) /\ u # t
    BY <1>2, <1>6 DEF ReturnNode, Goto, Nodal
  <2>3. fe[t] \notin Members(qs) /\ \A u \in Threads : fe[t] \notin Members(row[u]) /\ (fe[u] = fe[t] => u = t)
    BY <2>1 DEF IInv, Once
  <2>4. NeedNode' = NeedNode \ {fe[t]} /\ fe[t] \in NeedNode
    BY <2>1, <2>2, <2>3 DEF NeedNode
  <2>5. Cardinality(NeedNode') = Cardinality(NeedNode) - 1 /\ Cardinality(NeedNode') \in Nat
    BY <1>3, <2>4, FS_RemoveElement, FS_CardinalityType
  <2>6. nodes' = nodes + 1
    BY <1>6 DEF ReturnNode
  <2> QED
    BY <1>1, <1>3, <2>5, <2>6 DEF NodesCount
<1>7. ASSUME NEW t \in Threads, PutWriteElement(t) PROVE Goal
  <2>1. nodes # 0 /\ fe[t] \in Elements /\ fe[t] \notin NeedNode
    BY <1>7, NodeIsLeft DEF PutWriteElement
  <2>2. UNCHANGED qs /\ ~Nodal(t) /\ \A u \in Threads : Nodal(u)' <=> Nodal(u)
    BY <1>2, <1>7, <2>1 DEF PutWriteElement, Goto, Nodal
  <2>6. row[t] = <<>>
    BY <1>7 DEF PutWriteElement, IInv, Phases
  <2>7. /\ \A u \in Threads \ {t} : fe'[u] = fe[u]
        /\ \A u \in Threads : row'[u] = IF u = t THEN <<fe[t]>> ELSE row[u]
    BY <1>2, <1>7, <2>1 DEF PutWriteElement, Hold
  <2>8. \A u \in Threads : Members(row'[u]) = IF u = t THEN {fe[t]} ELSE Members(row[u])
    <3>1. Members(<<fe[t]>>) = {fe[t]}
      BY OneMember
    <3> QED
      BY <2>7, <3>1
  <2>9. Members(row[t]) = {}
    BY <2>6, OneMember
  <2>3. NeedNode' = NeedNode \union {fe[t]}
    <3>1. \A e \in Elements : e \in NeedNode <=>
            \/ e \in Members(qs)
            \/ (\E u \in Threads : e \in Members(row[u])) \/ (\E u \in Threads : Nodal(u) /\ fe[u] = e)
      BY DEF NeedNode
    <3>2. \A e \in Elements : e \in NeedNode' <=>
            \/ e \in Members(qs')
            \/ (\E u \in Threads : e \in Members(row'[u])) \/ (\E u \in Threads : Nodal(u)' /\ fe'[u] = e)
      BY DEF NeedNode
    <3>3. Members(qs') = Members(qs)
      BY <2>2
    <3>4. NeedNode \subseteq Elements /\ NeedNode' \subseteq Elements
      BY DEF NeedNode
    <3>5. \A u \in Threads : Nodal(u)' => u # t
      BY <2>2
    <3>6. \A e \in Elements : (\E u \in Threads : Nodal(u)' /\ fe'[u] = e) <=> \E u \in Threads : Nodal(u) /\ fe[u] = e
      BY <2>2, <2>7, <3>5
    <3>7. \A e \in Elements : (\E u \in Threads : e \in Members(row'[u]))
            <=> e = fe[t] \/ \E u \in Threads : e \in Members(row[u])
      BY <2>8, <2>9
    <3>8. \A e \in Elements : e \in NeedNode' <=> e \in NeedNode \/ e = fe[t]
      BY <3>1, <3>2, <3>3, <3>6, <3>7
    <3> QED
      BY <2>1, <3>4, <3>8
  <2>4. Cardinality(NeedNode') = Cardinality(NeedNode) + 1
    BY <1>3, <2>1, <2>3, FS_AddElement
  <2>5. nodes' = nodes - 1
    BY <1>7, <2>1 DEF PutWriteElement
  <2> QED
    BY <1>1, <1>3, <2>1, <2>4, <2>5 DEF NodesCount
<1>8. ASSUME NEW t \in Threads, NEW to \in {"readNode", "writeNode"},
             pc[t] \in {"idle", "steal"}, Dequeue(t, to)
      PROVE  Goal
  <2>1. fe[t] = Null
    BY <1>8 DEF IInv, Phases, Holding
  <2>2. Head(qs) \in Members(qs) /\ Members(Tail(qs)) = Members(qs) \ {Head(qs)}
    BY <1>2, <1>8, TailMembers DEF Dequeue, IInv, Once
  <2>3. Members(qs') = Members(qs) \ {Head(qs)} /\ UNCHANGED <<nodes, row>>
    BY <1>8, <2>2 DEF Dequeue, Members
  <2>4. \A u \in Threads : /\ Nodal(u)' <=> Nodal(u) \/ u = t
                           /\ fe'[u] = IF u = t THEN Head(qs) ELSE fe[u]
    BY <1>2, <1>8 DEF Dequeue, Goto, Hold, Nodal
  <2>5. ~Nodal(t)
    BY <1>8 DEF Nodal
  <2>6. NeedNode' = NeedNode
    BY <2>2, <2>3, <2>4, <2>5 DEF NeedNode
  <2> QED
    BY <1>4, <2>3, <2>6
<1>9. ASSUME NEW t \in Threads, Enqueue(t) PROVE Goal
  <2>1. /\ row[t] \in Seq(Elements) /\ Distinct(row[t]) /\ Members(qs) \cap Members(row[t]) = {}
    BY <1>2 DEF IInv, Once
  <2>2. Members(qs \o row[t]) = Members(qs) \union Members(row[t])
    BY <1>2, <2>1, ConcatMembers DEF IInv, Once
  <2>3. Members(qs') = Members(qs) \union Members(row[t]) /\ UNCHANGED <<nodes, fe>>
    BY <1>9, <2>2 DEF Enqueue
  <2>4. \A u \in Threads : (Nodal(u)' <=> Nodal(u)) /\ row'[u] = IF u = t THEN <<>> ELSE row[u]
    BY <1>2, <1>9 DEF Enqueue, Goto, Nodal
  <2>5. \A u \in Threads : Members(row'[u]) = IF u = t THEN {} ELSE Members(row[u])
    BY <2>4, OneMember
  <2>6. NeedNode' = NeedNode
    BY <2>3, <2>4, <2>5 DEF NeedNode
  <2> QED
    BY <1>4, <2>3, <2>6
<1>15. ASSUME NEW t \in Threads, NEW u \in Threads, EnqueueBehind(t, u) PROVE Goal
  <2>1. u # t /\ UNCHANGED <<nodes, fe, qs>> /\ row' = [row EXCEPT ![u] = @ \o row[t], ![t] = <<>>]
    BY <1>15 DEF EnqueueBehind
  <2>2. /\ row[t] \in Seq(Elements) /\ Distinct(row[t]) /\ row[u] \in Seq(Elements) /\ Distinct(row[u])
        /\ Members(row[u]) \cap Members(row[t]) = {}
    BY <1>2, <2>1 DEF IInv, Once
  <2>3. Members(row[u] \o row[t]) = Members(row[u]) \union Members(row[t])
    BY <2>2, ConcatMembers
  <2>4. \A v \in Threads : (Nodal(v)' <=> Nodal(v))
          /\ row'[v] = IF v = t THEN <<>> ELSE IF v = u THEN row[u] \o row[t] ELSE row[v]
    BY <1>2, <1>15, <2>1 DEF EnqueueBehind, Goto, Nodal
  <2>5. \A v \in Threads : Members(row'[v]) =
          IF v = t THEN {} ELSE IF v = u THEN Members(row[u]) \union Members(row[t]) ELSE Members(row[v])
    BY <2>3, <2>4, OneMember
  <2>6. NeedNode' = NeedNode
    <3>1. \A e : (\E v \in Threads : e \in Members(row'[v])) <=> \E v \in Threads : e \in Members(row[v])
      <4>1. ASSUME NEW e, NEW v \in Threads, e \in Members(row'[v]) PROVE \E x \in Threads : e \in Members(row[x])
        BY <2>5, <4>1
      <4>2. ASSUME NEW e, NEW v \in Threads, e \in Members(row[v]) PROVE \E x \in Threads : e \in Members(row'[x])
        <5>1. u # t /\ Members(row'[u]) = Members(row[u]) \union Members(row[t])
          BY <2>1, <2>5
        <5>2. CASE v \in {t, u}
          BY <4>2, <5>1, <5>2
        <5>3. CASE v \notin {t, u}
          BY <2>5, <4>2, <5>3
        <5> QED
          BY <5>2, <5>3
      <4> QED
        BY <4>1, <4>2
    <3>2. Members(qs') = Members(qs) /\ \A e : (\E v \in Threads : Nodal(v)' /\ fe'[v] = e) <=> \E v \in Threads : Nodal(v) /\ fe[v] = e
      BY <2>1, <2>4
    <3> QED
      BY <3>1, <3>2 DEF NeedNode
  <2> QED
    BY <1>4, <2>1, <2>6
<1>10. ASSUME NEW t \in Threads, UNCHANGED <<qs, nodes, row>>, ~Nodal(t), ~Nodal(t)',
              \A u \in Threads \ {t} : fe'[u] = fe[u] /\ pc'[u] = pc[u]
       PROVE  Goal
  <2>1. \A u \in Threads : (Nodal(u)' <=> Nodal(u)) /\ (Nodal(u) => fe'[u] = fe[u])
    BY <1>10 DEF Nodal
  <2>2. NeedNode' = NeedNode
    BY <1>10, <2>1 DEF NeedNode
  <2> QED
    BY <1>4, <1>10, <2>2
<1>11. ASSUME NEW t \in Threads, PutReadElement(t) PROVE Goal
  <2>1. UNCHANGED <<qs, nodes, row>> /\ ~Nodal(t) /\ ~Nodal(t)' /\ \A u \in Threads \ {t} : fe'[u] = fe[u] /\ pc'[u] = pc[u]
    BY <1>2, <1>11 DEF PutReadElement, Goto, Hold, Nodal
  <2> QED
    BY <1>10, <2>1
<1>12. ASSUME NEW t \in Threads, GetWriteElement(t) PROVE Goal
  <2>1. UNCHANGED <<qs, nodes, row>> /\ ~Nodal(t) /\ ~Nodal(t)' /\ \A u \in Threads \ {t} : fe'[u] = fe[u] /\ pc'[u] = pc[u]
    BY <1>2, <1>12 DEF GetWriteElement, Goto, Hold, Nodal
  <2> QED
    BY <1>10, <2>1
<1>13. ASSUME NEW t \in Threads, GetReadElement(t) PROVE Goal
  BY <1>8, <1>13 DEF GetReadElement
<1>14. ASSUME NEW t \in Threads, Steal(t) PROVE Goal
  <2>1. CASE Dequeue(t, "writeNode")
    BY <1>8, <1>14, <2>1 DEF Steal
  <2>2. CASE Goto(t, "pop") /\ UNCHANGED <<fs, qs, nodes, data, fe, row, puts, sawFull>>
    <3>1. UNCHANGED <<qs, nodes, row>> /\ ~Nodal(t) /\ ~Nodal(t)' /\ \A u \in Threads \ {t} : fe'[u] = fe[u] /\ pc'[u] = pc[u]
      BY <1>2, <1>14, <2>2 DEF Steal, Goto, Nodal
    <3> QED
      BY <1>10, <3>1
  <2> QED
    BY <1>14, <2>1, <2>2 DEF Steal
<1> QED
  BY <1>5, <1>6, <1>7, <1>9, <1>15, <1>11, <1>12, <1>13, <1>14 DEF Next, Go

\* At first every element is in the freelist and every node is free.
LEMMA InitInvariant == Init => IInv
<1> SUFFICES ASSUME Init PROVE IInv
  OBVIOUS
<1> USE SizesAssumption
<1>1. /\ DOMAIN fs = Elements /\ \A i \in Elements : fs[i] = NumberElements + 1 - i
      /\ qs = <<>> /\ nodes = NumberElements /\ data = [e \in Elements |-> NoValue]
      /\ pc = [t \in Threads |-> "idle"] /\ fe = [t \in Threads |-> Null]
      /\ row = [t \in Threads |-> <<>>]
      /\ puts = [t \in Threads |-> 0] /\ sawFull = {}
  BY DEF Init, FreeNodes
<1>2. \A i \in Elements : NumberElements + 1 - i \in Elements /\ NumberElements + 1 - (NumberElements + 1 - i) = i
  BY DEF Elements
<1>3. fs \in [1..NumberElements -> Elements]
  BY <1>2 DEF Init, Elements
<1>4. fs \in Seq(Elements)
  BY <1>3, SeqDef
<1>5. TypeOK
  <2>1. <<>> \in Seq(Elements)
    OBVIOUS
  <2>2. row \in [Threads -> Seq(Elements)]
    BY <1>1, <2>1
  <2> QED
    BY <1>1, <1>4, <2>2 DEF TypeOK, FreeNodes
<1>6. Distinct(fs)
  BY <1>1, <1>2 DEF Distinct, Elements
<1>7. Distinct(qs) /\ Members(qs) = {} /\ \A t \in Threads : Distinct(row[t]) /\ Members(row[t]) = {}
  BY <1>1, OneMember
<1>8. Members(fs) = Elements
  <2>1. Members(fs) \subseteq Elements
    BY <1>1, <1>2 DEF Members
  <2>2. ASSUME NEW e \in Elements PROVE e \in Members(fs)
    BY <1>1, <1>2 DEF Members
  <2> QED
    BY <2>1, <2>2
<1>9. Null \notin Elements
  BY DEF Null, Elements
<1>10. Once
  BY <1>1, <1>6, <1>7, <1>8, <1>9 DEF Once
<1>11. Phases
  BY <1>1 DEF Phases, Holding
<1>12. NeedNode = {}
  BY <1>1, <1>7 DEF NeedNode, Nodal
<1>13. NodesCount
  BY <1>1, <1>12, FS_EmptySet DEF NodesCount
<1> QED
  BY <1>5, <1>10, <1>11, <1>13 DEF IInv

\* A write gives the element a value of the thread's next number.
LEMMA DataStep ==
  ASSUME IInv, [Next]_vars
  PROVE  data' \in [Elements -> (Threads \X (1..MaxPuts)) \union {NoValue}]
<1>1. data \in [Elements -> (Threads \X (1..MaxPuts)) \union {NoValue}]
  BY DEF IInv, TypeOK
<1>2. CASE data' = data
  BY <1>1, <1>2
<1>3. ASSUME NEW t \in Threads, PutWriteElement(t)
      PROVE  data' \in [Elements -> (Threads \X (1..MaxPuts)) \union {NoValue}]
  <2>1. puts \in [Threads -> 0..MaxPuts] /\ puts[t] < MaxPuts /\ MaxPuts \in Nat
    BY <1>3, SizesAssumption DEF IInv, TypeOK, Phases, PutWriteElement
  <2>2. puts'[t] \in 1..MaxPuts
    BY <1>3, <2>1 DEF PutWriteElement
  <2>3. data' = [data EXCEPT ![fe[t]] = <<t, puts'[t]>>]
    BY <1>3 DEF PutWriteElement
  <2> QED
    BY <1>1, <2>2, <2>3
<1> QED
  BY <1>2, <1>3 DEF Next, Go, vars, ReturnNode, PutReadElement, Steal, Enqueue, GetReadElement,
                    EnqueueBehind, GetWriteElement, Dequeue

\* Every step keeps the invariant; nodes stays in its range because elements are few.
LEMMA StepInvariant == IInv /\ [Next]_vars => IInv'
<1> SUFFICES ASSUME IInv, [Next]_vars PROVE IInv'
  OBVIOUS
<1>1. Once' /\ Phases' /\ NodesCount' /\ nodes' \in Nat
  BY OnceStep, PhasesStep, NodesStep DEF OnceNext
<1>2. /\ fs' \in Seq(Elements) /\ qs' \in Seq(Elements) /\ fe' \in [Threads -> Elements \union {Null}]
      /\ row' \in [Threads -> Seq(Elements)]
      /\ pc' \in [Threads -> {"idle", "pop", "steal", "writeNode", "writing", "enqueue", "readNode", "reading"}]
      /\ puts' \in [Threads -> 0..MaxPuts] /\ sawFull' \subseteq Threads
      /\ data' \in [Elements -> (Threads \X (1..MaxPuts)) \union {NoValue}]
  BY OnceStep, PhasesStep, DataStep DEF OnceNext
<1>3. Cardinality(NeedNode') \in Nat
  <2>1. NeedNode' \subseteq Elements
    BY DEF NeedNode
  <2>2. IsFiniteSet(Elements)
    BY SizesAssumption, FS_Interval DEF Elements
  <2> QED
    BY <2>1, <2>2, FS_Subset, FS_CardinalityType
<1>4. nodes' \in 0..FreeNodes
  BY <1>1, <1>3, SizesAssumption DEF NodesCount, FreeNodes
<1> QED
  BY <1>1, <1>2, <1>4 DEF IInv, TypeOK

-----------------------------------------------------------------------------
(***************************************************************************)
(* The inductive invariant holds in every state.                           *)
(***************************************************************************)
THEOREM Invariant == Spec => []IInv
BY InitInvariant, StepInvariant, PTL DEF Spec

(***************************************************************************)
(* Every variable has its type in every state; nodes is never negative and *)
(* never more than the queue was created with.                             *)
(***************************************************************************)
THEOREM TypeCorrect == Spec => []TypeOK
<1>1. IInv => TypeOK
  BY DEF IInv
<1> QED
  BY <1>1, Invariant, PTL

\* An element that is in one place by Once is counted once by Places.
LEMMA OncePlace == IInv => EveryElementOnce
<1> SUFFICES ASSUME IInv, NEW e \in Elements PROVE Cardinality(Places(e)) = 1
  BY DEF EveryElementOnce
<1> DEFINE InFs == {i \in DOMAIN fs : fs[i] = e}
           InQs == {i \in DOMAIN qs : qs[i] = e}
           Held == {t \in Threads : fe[t] = e}
           InRow(t) == {i \in DOMAIN row[t] : row[t][i] = e}
<1>1. Places(e) = {<<"fs", i>> : i \in InFs} \union {<<"qs", i>> : i \in InQs} \union {<<"held", t>> : t \in Held}
                    \union UNION {{<<"row", t, i>> : i \in InRow(t)} : t \in Threads}
  BY DEF Places
<1>2. /\ e \in Members(fs) <=> InFs # {}
      /\ e \in Members(qs) <=> InQs # {}
      /\ \A t \in Threads : e \in Members(row[t]) <=> InRow(t) # {}
      /\ Null \notin Elements
  BY DEF Members, Elements, Null
<1>3. Once
  BY DEF IInv
<1>4. \E p : Places(e) = {p}
  <2>1. CASE e \in Members(fs)
    <3>1. PICK i \in DOMAIN fs : fs[i] = e
      BY <2>1 DEF Members
    <3>2. InFs = {i} /\ InQs = {} /\ Held = {} /\ \A t \in Threads : InRow(t) = {}
      BY <1>2, <1>3, <2>1, <3>1 DEF Once, Distinct
    <3>3. Places(e) = {<<"fs", i>>}
      <4> HIDE DEF InFs, InQs, Held, InRow
      <4> QED
        BY <1>1, <3>2
    <3> QED
      BY <3>3
  <2>2. CASE e \in Members(qs)
    <3>1. PICK i \in DOMAIN qs : qs[i] = e
      BY <2>2 DEF Members
    <3>2. InQs = {i} /\ InFs = {} /\ Held = {} /\ \A t \in Threads : InRow(t) = {}
      BY <1>2, <1>3, <2>2, <3>1 DEF Once, Distinct
    <3>3. Places(e) = {<<"qs", i>>}
      <4> HIDE DEF InFs, InQs, Held, InRow
      <4> QED
        BY <1>1, <3>2
    <3> QED
      BY <3>3
  <2>3. CASE \E t \in Threads : fe[t] = e
    <3>1. PICK t \in Threads : fe[t] = e
      BY <2>3
    <3>2. Held = {t} /\ InFs = {} /\ InQs = {} /\ \A u \in Threads : InRow(u) = {}
      BY <1>2, <1>3, <3>1 DEF Once
    <3>3. Places(e) = {<<"held", t>>}
      <4> HIDE DEF InFs, InQs, Held, InRow
      <4> QED
        BY <1>1, <3>2
    <3> QED
      BY <3>3
  <2>4. CASE \E t \in Threads : e \in Members(row[t])
    <3>1. PICK t \in Threads : e \in Members(row[t])
      BY <2>4
    <3>2. PICK i \in DOMAIN row[t] : row[t][i] = e
      BY <3>1 DEF Members
    <3>3. InRow(t) = {i}
      BY <1>3, <3>2 DEF Once, Distinct
    <3>4. Held = {} /\ InFs = {} /\ InQs = {}
      BY <1>2, <1>3, <3>1 DEF Once
    <3>5. \A u \in Threads : u # t => InRow(u) = {}
      BY <1>2, <1>3, <3>1 DEF Once
    <3>6. Places(e) = {<<"row", t, i>>}
      <4> HIDE DEF InFs, InQs, Held, InRow
      <4> QED
        BY <1>1, <3>3, <3>4, <3>5
    <3> QED
      BY <3>6
  <2> QED
    BY <1>3, <2>1, <2>2, <2>3, <2>4 DEF Once
<1> QED
  BY <1>4, FS_Singleton

(***************************************************************************)
(* No element is lost and none is given to two threads, also when elements *)
(* hang behind that of a thread that has stopped in its enqueue:           *)
(* put_write_element() always finds a node, so that it may ignore what     *)
(* enqueue() returns.                                                      *)
(***************************************************************************)
THEOREM NoneLost == Spec => []EveryElementOnce
BY OncePlace, Invariant, PTL

-----------------------------------------------------------------------------
(***************************************************************************)
(* The refinement: LossyQueue's variables, by name.                        *)
(***************************************************************************)
Contents == Content(qs)
Putting == [t \in Threads |-> Content(row[t])]
Reading == [t \in Threads |-> IF pc[t] \in {"readNode", "reading"} THEN {data[fe[t]]} ELSE {}]

\* What the elements of s hold, in the state after the step.
ContentNext(s) == [i \in DOMAIN s |-> data'[s[i]]]

\* A sequence is the function of its indexes.
LEMMA SeqIsFunction ==
  ASSUME NEW S, NEW s \in Seq(S)
  PROVE  s = [i \in DOMAIN s |-> s[i]]
<1>1. s \in UNION {[1..n -> S] : n \in Nat}
  BY SeqDef, Zenon
<1>2. PICK n \in Nat : s \in [1..n -> S]
  BY <1>1
<1> QED
  BY <1>2

\* What is in the queue keeps its value, and taking an element is taking its value.
LEMMA DequeueContents ==
  ASSUME IInv, qs # <<>>, qs' = Tail(qs), data' = data
  PROVE  /\ Contents # <<>> /\ Contents' = Tail(Contents)
         /\ Head(Contents) = data[Head(qs)]
<1> DEFINE D == (Threads \X (1..MaxPuts)) \union {NoValue}
<1>1. qs \in Seq(Elements) /\ data \in [Elements -> D]
  BY DEF IInv, TypeOK
<1>2. /\ Len(qs) \in Nat \ {0} /\ DOMAIN qs = 1..Len(qs) /\ Head(qs) = qs[1]
      /\ DOMAIN Tail(qs) = 1..(Len(qs) - 1)
      /\ \A i \in 1..(Len(qs) - 1) : Tail(qs)[i] = qs[i + 1]
      /\ \A i \in 1..Len(qs) : qs[i] \in Elements
  BY <1>1
<1>3. Contents \in [1..Len(qs) -> D] /\ \A i \in 1..Len(qs) : Contents[i] = data[qs[i]]
  BY <1>1, <1>2 DEF Contents, Content
<1>4. Contents \in Seq(D) /\ Len(Contents) = Len(qs)
  <2>1. Contents \in Seq(D)
    BY <1>2, <1>3, SeqDef
  <2> QED
    BY <1>2, <1>3, <2>1, LenProperties
<1>5. /\ Contents # <<>> /\ Head(Contents) = Contents[1]
      /\ DOMAIN Tail(Contents) = 1..(Len(qs) - 1)
      /\ \A i \in 1..(Len(qs) - 1) : Tail(Contents)[i] = Contents[i + 1]
      /\ Tail(Contents) \in Seq(D)
  BY <1>2, <1>4
<1>6. Contents' = [i \in 1..(Len(qs) - 1) |-> data[qs[i + 1]]]
  BY <1>2 DEF Contents, Content
<1>7. Tail(Contents) = [i \in 1..(Len(qs) - 1) |-> data[qs[i + 1]]]
  <2>1. \A i \in 1..(Len(qs) - 1) : i + 1 \in 1..Len(qs)
    BY <1>2
  <2>2. \A i \in 1..(Len(qs) - 1) : Tail(Contents)[i] = data[qs[i + 1]]
    BY <1>3, <1>5, <2>1
  <2>3. Tail(Contents) = [i \in DOMAIN Tail(Contents) |-> Tail(Contents)[i]]
    BY <1>5, SeqIsFunction
  <2> QED
    BY <1>5, <2>2, <2>3
<1> QED
  BY <1>2, <1>3, <1>5, <1>6, <1>7

\* What two sequences hold, one behind the other.
LEMMA ConcatContent ==
  ASSUME NEW s \in Seq(Elements), NEW r \in Seq(Elements)
  PROVE  Content(s \o r) = Content(s) \o Content(r)
<1>1. PICK m \in Nat, n \in Nat : m = Len(s) /\ n = Len(r)
  OBVIOUS
<1>2. PICK p : p = s \o r
  OBVIOUS
<1>3. /\ DOMAIN s = 1..m /\ DOMAIN r = 1..n /\ DOMAIN p = 1..(m + n)
      /\ \A i \in 1..m : p[i] = s[i]
      /\ \A i \in 1..n : p[m + i] = r[i]
      /\ \A i \in 1..(m + n) : p[i] = IF i <= m THEN s[i] ELSE r[i - m]
  BY <1>1, <1>2
<1>4. PICK S : S = {data[e] : e \in Elements}
  OBVIOUS
<1>5. PICK c, d : c = Content(s) /\ d = Content(r)
  OBVIOUS
<1>6. c \in Seq(S) /\ Len(c) = m /\ \A i \in 1..m : c[i] = data[s[i]]
  <2>1. c = [i \in 1..m |-> data[s[i]]]
    BY <1>3, <1>5 DEF Content
  <2>2. \A i \in 1..m : s[i] \in Elements
    BY <1>1
  <2>3. \A i \in 1..m : data[s[i]] \in S
    BY <1>4, <2>2
  <2> QED
    BY <2>1, <2>3
<1>7. d \in Seq(S) /\ Len(d) = n /\ \A i \in 1..n : d[i] = data[r[i]]
  <2>1. d = [i \in 1..n |-> data[r[i]]]
    BY <1>3, <1>5 DEF Content
  <2>2. \A i \in 1..n : r[i] \in Elements
    BY <1>1
  <2>3. \A i \in 1..n : data[r[i]] \in S
    BY <1>4, <2>2
  <2> QED
    BY <2>1, <2>3
<1>8. c \o d = [i \in 1..(m + n) |-> IF i <= m THEN c[i] ELSE d[i - m]]
  <2>1. /\ c \o d \in Seq(S) /\ Len(c \o d) = m + n
        /\ \A i \in 1..(m + n) : (c \o d)[i] = IF i <= m THEN c[i] ELSE d[i - m]
    <3>1. c \in Seq(S) /\ d \in Seq(S) /\ Len(c) = m /\ Len(d) = n
      BY <1>6, <1>7
    <3>2. /\ c \o d \in Seq(S) /\ Len(c \o d) = Len(c) + Len(d)
          /\ \A i \in 1..Len(c) + Len(d) : (c \o d)[i] = IF i <= Len(c) THEN c[i] ELSE d[i - Len(c)]
      BY <3>1, ConcatProperties
    <3> QED
      BY <3>1, <3>2
  <2>2. PICK w : w = c \o d
    OBVIOUS
  <2>3. w \in Seq(S) /\ Len(w) = m + n
    BY <2>1, <2>2
  <2>4. DOMAIN w = 1..(m + n)
    BY <2>3
  <2>5. w = [i \in DOMAIN w |-> w[i]]
    BY <2>3, SeqIsFunction
  <2> QED
    BY <2>1, <2>2, <2>4, <2>5
<1>9. \A i \in 1..(m + n) : data[p[i]] = IF i <= m THEN c[i] ELSE d[i - m]
  <2>1. \A i \in 1..(m + n) : i <= m => i \in 1..m
    BY <1>1
  <2>2. \A i \in 1..(m + n) : ~(i <= m) => i - m \in 1..n
    BY <1>1
  <2> QED
    BY <1>3, <1>6, <1>7, <2>1, <2>2
<1>10. Content(p) = [i \in 1..(m + n) |-> data[p[i]]]
  BY <1>3 DEF Content
<1> QED
  BY <1>2, <1>5, <1>8, <1>9, <1>10

\* A sequence holds nothing only if it is empty.
LEMMA ContentEmpty ==
  /\ Content(<<>>) = <<>>
  /\ \A s \in Seq(Elements) : s # <<>> => Content(s) # <<>>
<1>1. Content(<<>>) = <<>>
  BY DEF Content
<1>2. ASSUME NEW s \in Seq(Elements), s # <<>> PROVE Content(s) # <<>>
  <2>1. DOMAIN Content(s) = DOMAIN s /\ 1 \in DOMAIN s
    BY <1>2 DEF Content
  <2>2. 1 \notin DOMAIN <<>>
    OBVIOUS
  <2> QED
    BY <2>1, <2>2
<1> QED
  BY <1>1, <1>2

\* What the sequences after a step hold.
LEMMA MappedNext ==
  /\ Contents' = ContentNext(qs')
  /\ Putting' = [t \in Threads |-> ContentNext(row'[t])]
BY DEF Contents, Putting, Content, ContentNext

\* Only a write changes what an element holds.
LEMMA ContentStays == UNCHANGED data => \A s : ContentNext(s) = Content(s)
BY DEF Content, ContentNext

\* At first there is nothing in it.
LEMMA RefinesInit == Init => Lossy!Init
<1> SUFFICES ASSUME Init PROVE Lossy!Init
  OBVIOUS
<1>1. Content(qs) = <<>> /\ \A t \in Threads : Content(row[t]) = <<>>
  BY ContentEmpty DEF Init
<1> QED
  BY <1>1 DEF Init, Lossy!Init

\* Each step is one of LossyQueue's, or none.
LEMMA RefinesStep ==
  ASSUME IInv, [Next]_vars
  PROVE  [Lossy!Next]_Lossy!vars
<1> DEFINE Goal == [Lossy!Next]_Lossy!vars
<1>1. /\ qs \in Seq(Elements) /\ fe \in [Threads -> Elements \union {Null}] /\ Null \notin Elements
      /\ row \in [Threads -> Seq(Elements)]
      /\ pc \in [Threads -> {"idle", "pop", "steal", "writeNode", "writing", "enqueue", "readNode", "reading"}]
      /\ data \in [Elements -> (Threads \X (1..MaxPuts)) \union {NoValue}]
  BY DEF IInv, TypeOK, Elements, Null
<1>2. ASSUME UNCHANGED <<Contents, Putting, Reading, sawFull>> PROVE Goal
  BY <1>2 DEF Lossy!vars, Contents, Putting, Reading
<1>3. ASSUME NEW t \in Threads, UNCHANGED Contents,
             \A u \in Threads : Putting'[u] # Putting[u] => u = t /\ Putting[t] = <<>> /\ Len(Putting'[t]) = 1,
             \A u \in Threads : Reading'[u] # Reading[u] => u = t /\ Reading'[t] = {}
      PROVE  Goal
  BY <1>3 DEF Lossy!Next, Lossy!Work, Contents, Putting, Reading
<1>4. CASE UNCHANGED vars
  BY <1>2, <1>4 DEF vars, Contents, Putting, Reading, Content
<1>5. ASSUME NEW t \in Threads, ReturnNode(t) PROVE Goal
  <2>1. /\ \A u \in Threads : pc'[u] \in {"readNode", "reading"} <=> pc[u] \in {"readNode", "reading"}
        /\ UNCHANGED <<qs, row, data, fe, sawFull>>
    BY <1>1, <1>5 DEF ReturnNode, Goto
  <2>2. UNCHANGED <<Contents, Putting>>
    BY <2>1 DEF Contents, Putting, Content
  <2>3. UNCHANGED Reading
    BY <2>1 DEF Reading
  <2> QED
    BY <1>2, <2>1, <2>2, <2>3
<1>6. ASSUME NEW t \in Threads, UNCHANGED <<qs, row, data>>, pc'[t] \notin {"readNode", "reading"},
             \A u \in Threads \ {t} : pc'[u] = pc[u] /\ fe'[u] = fe[u]
      PROVE  Goal
  <2>1. UNCHANGED <<Contents, Putting>>
    BY <1>6 DEF Contents, Putting, Content
  <2>2. Reading'[t] = {} /\ \A u \in Threads \ {t} : Reading'[u] = Reading[u]
    BY <1>6 DEF Reading
  <2>3. \A u \in Threads : Putting'[u] = Putting[u]
    BY <2>1
  <2> QED
    BY <1>3, <2>1, <2>2, <2>3
<1>7. ASSUME NEW t \in Threads, PutReadElement(t) PROVE Goal
  <2>1. /\ \A u \in Threads \ {t} : pc'[u] = pc[u] /\ fe'[u] = fe[u]
        /\ pc'[t] = "idle" /\ UNCHANGED <<qs, row, data>>
    BY <1>1, <1>7 DEF PutReadElement, Goto, Hold
  <2> QED
    BY <1>6, <2>1
<1>8. ASSUME NEW t \in Threads, GetWriteElement(t) PROVE Goal
  <2>1. /\ \A u \in Threads \ {t} : pc'[u] = pc[u] /\ fe'[u] = fe[u]
        /\ pc'[t] \in {"writing", "steal"} /\ UNCHANGED <<qs, row, data>>
    BY <1>1, <1>8 DEF GetWriteElement, Goto, Hold
  <2> QED
    BY <1>6, <2>1
<1>9. ASSUME NEW t \in Threads, PutWriteElement(t) PROVE Goal
  <2>1. PICK e : e = fe[t]
    OBVIOUS
  <2>2. nodes # 0 /\ e \in Elements /\ e # Null
    BY <1>1, <1>9, <2>1, NodeIsLeft DEF PutWriteElement
  <2>3. /\ \A u \in Threads \ {t} : pc'[u] = pc[u] /\ fe'[u] = fe[u] /\ row'[u] = row[u]
        /\ pc[t] = "writing" /\ pc'[t] = "enqueue" /\ row'[t] = <<e>> /\ UNCHANGED qs
    BY <1>1, <1>9, <2>1, <2>2 DEF PutWriteElement, Goto, Hold
  <2>4. \A x \in Elements \ {e} : data'[x] = data[x]
    BY <1>1, <1>9, <2>1 DEF PutWriteElement
  <2>5. ASSUME NEW s \in Seq(Elements), e \notin Members(s) PROVE ContentNext(s) = Content(s)
    <3>1. \A i \in DOMAIN s : s[i] \in Elements \ {e}
      BY <2>5 DEF Members
    <3> QED
      BY <2>4, <3>1 DEF Content, ContentNext
  <2>6. e \notin Members(qs) /\ \A u \in Threads : e \notin Members(row[u])
    BY <2>1 DEF IInv, Once
  <2>7. Contents' = Contents
    BY <1>1, <2>3, <2>5, <2>6, MappedNext DEF Contents
  <2>8. \A u \in Threads \ {t} : Putting'[u] = Putting[u]
    BY <1>1, <2>3, <2>5, <2>6, MappedNext DEF Putting
  <2>9. Putting[t] = <<>>
    <3>1. row[t] = <<>>
      BY <2>3 DEF IInv, Phases
    <3> QED
      BY <3>1, ContentEmpty DEF Putting
  <2>10. Len(Putting'[t]) = 1
    <3>1. Putting'[t] = ContentNext(<<e>>)
      BY <2>3, MappedNext
    <3>2. ContentNext(<<e>>) = <<data'[e]>>
      BY DEF ContentNext
    <3> QED
      BY <3>1, <3>2
  <2>11. \A u \in Threads \ {t} : pc[u] \in {"readNode", "reading"} => fe[u] \in Elements \ {e}
    BY <1>1, <2>1, <2>2 DEF IInv, Once, Phases, Holding
  <2>12. \A u \in Threads : Reading'[u] = Reading[u]
    BY <2>3, <2>4, <2>11 DEF Reading
  <2> QED
    BY <1>3, <2>7, <2>8, <2>9, <2>10, <2>12
<1>10. ASSUME NEW t \in Threads, Enqueue(t) PROVE Goal
  <2>1. /\ pc[t] = "enqueue" /\ qs' = qs \o row[t] /\ UNCHANGED <<fe, data, sawFull>>
        /\ \A u \in Threads : pc'[u] \in {"readNode", "reading"} <=> pc[u] \in {"readNode", "reading"}
    BY <1>1, <1>10 DEF Enqueue, Goto
  <2>2. row[t] # <<>> /\ row[t] \in Seq(Elements)
    BY <1>1, <2>1 DEF IInv, Phases
  <2>3. Putting[t] # <<>> /\ Putting[t] = Content(row[t])
    BY <2>2, ContentEmpty DEF Putting
  <2>4. Contents' = Contents \o Putting[t]
    <3>1. Contents' = Content(qs \o row[t])
      BY <2>1, ContentStays, MappedNext
    <3>2. Content(qs \o row[t]) = Content(qs) \o Content(row[t])
      BY <1>1, <2>2, ConcatContent
    <3> QED
      BY <2>3, <3>1, <3>2 DEF Contents
  <2>5. \A u \in Threads : row'[u] = IF u = t THEN <<>> ELSE row[u]
    BY <1>1, <1>10 DEF Enqueue
  <2>6. Putting' = [Putting EXCEPT ![t] = <<>>]
    <3>1. \A u \in Threads : ContentNext(row'[u]) = IF u = t THEN <<>> ELSE Content(row[u])
      BY <2>1, <2>5, ContentEmpty, ContentStays
    <3> QED
      BY <3>1, MappedNext DEF Putting
  <2>7. UNCHANGED Reading
    BY <2>1 DEF Reading
  <2>8. Lossy!Put(t)
    BY <2>1, <2>3, <2>4, <2>6, <2>7 DEF Lossy!Put, Contents, Putting, Reading
  <2> QED
    BY <2>8 DEF Lossy!Next
<1>11. ASSUME NEW t \in Threads, NEW u \in Threads, EnqueueBehind(t, u) PROVE Goal
  <2>1. /\ u # t /\ pc[t] = "enqueue" /\ pc[u] = "enqueue" /\ UNCHANGED <<qs, fe, data, sawFull>>
        /\ \A v \in Threads : pc'[v] \in {"readNode", "reading"} <=> pc[v] \in {"readNode", "reading"}
    BY <1>1, <1>11 DEF EnqueueBehind, Goto
  <2>2. row[t] # <<>> /\ row[t] \in Seq(Elements) /\ row[u] # <<>> /\ row[u] \in Seq(Elements)
    BY <1>1, <2>1 DEF IInv, Phases
  <2>3. Putting[t] # <<>> /\ Putting[t] = Content(row[t]) /\ Putting[u] # <<>> /\ Putting[u] = Content(row[u])
    BY <2>2, ContentEmpty DEF Putting
  <2>4. \A v \in Threads : row'[v] = IF v = t THEN <<>> ELSE IF v = u THEN row[u] \o row[t] ELSE row[v]
    BY <1>1, <1>11, <2>1 DEF EnqueueBehind
  <2>5. Content(row[u] \o row[t]) = Putting[u] \o Putting[t]
    BY <2>2, <2>3, ConcatContent
  <2>6. Putting' = [Putting EXCEPT ![u] = Putting[u] \o Putting[t], ![t] = <<>>]
    <3>1. PICK both : both = Putting[u] \o Putting[t]
      OBVIOUS
    <3>2. \A v \in Threads : ContentNext(row'[v]) = IF v = t THEN <<>> ELSE IF v = u THEN both ELSE Content(row[v])
      BY <2>1, <2>4, <2>5, <3>1, ContentEmpty, ContentStays
    <3>3. Putting' = [Putting EXCEPT ![u] = both, ![t] = <<>>]
      BY <2>1, <3>2, MappedNext DEF Putting
    <3> QED
      BY <3>1, <3>3
  <2>7. UNCHANGED Reading
    BY <2>1 DEF Reading
  <2>8. UNCHANGED Contents
    BY <2>1 DEF Contents, Content
  <2>9. Lossy!PutBehind(t, u)
    BY <2>1, <2>3, <2>6, <2>7, <2>8 DEF Lossy!PutBehind, Contents, Putting, Reading
  <2> QED
    BY <2>9 DEF Lossy!Next
<1>12. ASSUME NEW t \in Threads, GetReadElement(t) PROVE Goal
  <2>1. Contents # <<>> /\ Contents' = Tail(Contents) /\ Head(Contents) = data[Head(qs)]
    BY <1>12, DequeueContents DEF GetReadElement, Dequeue
  <2>2. /\ \A u \in Threads \ {t} : pc'[u] = pc[u] /\ fe'[u] = fe[u]
        /\ pc[t] = "idle" /\ pc'[t] = "readNode" /\ fe'[t] = Head(qs) /\ UNCHANGED <<data, row, sawFull>>
    BY <1>1, <1>12 DEF GetReadElement, Dequeue, Goto, Hold
  <2>3. Reading' = [Reading EXCEPT ![t] = {Head(Contents)}]
    BY <2>1, <2>2 DEF Reading
  <2>4. UNCHANGED Putting
    BY <2>2 DEF Putting, Content
  <2>5. Lossy!Get(t)
    BY <2>1, <2>2, <2>3, <2>4 DEF Lossy!Get, Contents, Putting, Reading
  <2> QED
    BY <2>5 DEF Lossy!Next
<1>13. ASSUME NEW t \in Threads, Steal(t) PROVE Goal
  <2>1. CASE Dequeue(t, "writeNode") /\ sawFull' = sawFull \ {t}
    <3>1. Contents # <<>> /\ Contents' = Tail(Contents)
      BY <2>1, DequeueContents DEF Dequeue
    <3>2. /\ \A u \in Threads \ {t} : pc'[u] = pc[u] /\ fe'[u] = fe[u]
          /\ pc[t] = "steal" /\ pc'[t] = "writeNode" /\ UNCHANGED <<data, row>>
      BY <1>1, <1>13, <2>1 DEF Steal, Dequeue, Goto, Hold
    <3>3. UNCHANGED Putting
      BY <3>2 DEF Putting, Content
    <3>4. UNCHANGED Reading /\ t \in sawFull
      BY <3>2 DEF Reading, IInv, Phases
    <3>5. Lossy!Lose(t)
      BY <2>1, <3>1, <3>3, <3>4 DEF Lossy!Lose, Contents, Putting, Reading
    <3> QED
      BY <3>5 DEF Lossy!Next
  <2>2. CASE Goto(t, "pop") /\ UNCHANGED <<fs, qs, nodes, data, fe, row, puts, sawFull>>
    <3>1. pc'[t] = "pop" /\ \A u \in Threads \ {t} : pc'[u] = pc[u] /\ fe'[u] = fe[u]
      BY <1>1, <2>2 DEF Goto
    <3> QED
      BY <1>6, <2>2, <3>1
  <2> QED
    BY <1>13, <2>1, <2>2 DEF Steal
<1> QED
  BY <1>4, <1>5, <1>7, <1>8, <1>9, <1>10, <1>11, <1>12, <1>13 DEF Next, Go

(***************************************************************************)
(* The ring buffer implements the queue that loses its oldest value only   *)
(* to a writer for which the freelist was empty, and in which a value may  *)
(* follow one that another thread is about to put.                         *)
(***************************************************************************)
THEOREM Refinement == Spec => ImplementsLossyQueue
BY RefinesInit, RefinesStep, Invariant, PTL DEF Spec, ImplementsLossyQueue, Lossy!Spec
=============================================================================
