------------------------- MODULE BlockingQueueProofs --------------------------
(***************************************************************************)
(* The blocking queue, for any number of threads, any capacity and any     *)
(* number of calls.                                                        *)
(***************************************************************************)
EXTENDS BlockingQueue, FiniteSetTheorems, SequenceTheorems, TLAPS

(* Every variable keeps its type, the queue stays within its capacity, and *)
(* no step of push, pop, close or stop puts a thread in two places.        *)
THEOREM TypeCorrect == Spec => []TypeOK
<1>1. Init => TypeOK
  <2> SUFFICES ASSUME Init PROVE TypeOK
    OBVIOUS
  <2>1. queue \in Seq(Item) /\ Len(queue) <= Capacity /\ taken \in Seq(Item) /\ accepted \in Seq(Item)
    BY QueueAssumption DEF Init
  <2>2. calls \in [Producer -> 0..MaxPush]
    BY QueueAssumption DEF Init
  <2> QED  BY <2>1, <2>2 DEF Init, TypeOK
<1>2. TypeOK /\ [Next]_vars => TypeOK'
  <2> SUFFICES ASSUME TypeOK, [Next]_vars PROVE TypeOK'
    OBVIOUS
  <2> USE QueueAssumption
  <2>1. CASE UNCHANGED vars
    BY <2>1 DEF vars, TypeOK
  <2>2. ASSUME NEW p \in Producer, PushWaits(p) PROVE TypeOK'
    BY <2>2 DEF PushWaits, InPush, TypeOK
  <2>3. ASSUME NEW p \in Producer, PushRefused(p) PROVE TypeOK'
    BY <2>3 DEF PushRefused, InPush, TypeOK
  <2>4. ASSUME NEW p \in Producer, PushAccepted(p) PROVE TypeOK'
    <3> DEFINE x == <<p, calls[p]>>
    <3>1. x \in Item
      BY DEF TypeOK, Item
    <3>2. /\ queue' \in Seq(Item) /\ accepted' \in Seq(Item)
          /\ Len(queue') <= Capacity
      <4> HIDE DEF x
      <4>1. queue' = Append(queue, x) /\ accepted' = Append(accepted, x) /\ Len(queue) < Capacity
        BY <2>4 DEF PushAccepted, Queued, Full, TypeOK, x
      <4> QED  BY <3>1, <4>1, AppendProperties DEF TypeOK
    <3>3. /\ notEmpty' \subseteq notEmpty
          /\ woken' \subseteq woken \cup (notEmpty \ notEmpty')
      BY <2>4 DEF PushAccepted, NotifyOne
    <3>4. calls' \in [Producer -> 0..MaxPush]
      BY <2>4 DEF PushAccepted, InPush, TypeOK
    <3>5. UNCHANGED <<closed, notFull, taken, exited, joined>>
      BY <2>4 DEF PushAccepted
    <3> QED  BY <3>2, <3>3, <3>4, <3>5 DEF TypeOK
  <2>5. ASSUME NEW c \in Consumer, PopWaits(c) PROVE TypeOK'
    BY <2>5 DEF PopWaits, InPop, TypeOK
  <2>6. ASSUME NEW c \in Consumer, PopRefused(c) PROVE TypeOK'
    BY <2>6 DEF PopRefused, InPop, TypeOK
  <2>7. ASSUME NEW c \in Consumer, PopTakes(c) PROVE TypeOK'
    <3>1. /\ queue' \in Seq(Item) /\ taken' \in Seq(Item)
          /\ Len(queue') <= Capacity
      <4>1. /\ queue # <<>> /\ queue' = Tail(queue) /\ taken' = Append(taken, Head(queue))
        BY <2>7 DEF PopTakes
      <4> QED  BY <4>1, HeadTailProperties, AppendProperties DEF TypeOK
    <3>2. /\ notFull' \subseteq notFull
          /\ woken' \subseteq woken \cup (notFull \ notFull')
      BY <2>7 DEF PopTakes, NotifyOne
    <3>3. UNCHANGED <<closed, notEmpty, calls, accepted, exited, joined>>
      BY <2>7 DEF PopTakes
    <3> QED  BY <3>1, <3>2, <3>3 DEF TypeOK
  <2>8. CASE Close
    BY <2>8 DEF Close, WokenByClose, TypeOK
  <2>9. CASE Join
    BY <2>9 DEF Join, TypeOK
  <2>10. ASSUME NEW t \in Producer \cup Consumer, SpuriousWakeup(t) PROVE TypeOK'
    BY <2>10 DEF SpuriousWakeup, TypeOK
  <2> QED
    BY <2>1, <2>2, <2>3, <2>4, <2>5, <2>6, <2>7, <2>8, <2>9, <2>10 DEF Next, Push, Pop
<1> QED  BY <1>1, <1>2, PTL DEF Spec

(* Only close() ends a pop with false, and from then on nobody sleeps.     *)
THEOREM CloseReachesAll == Spec => []CloseWakesAll
<1>1. Init => CloseWakesAll
  BY DEF Init, CloseWakesAll
<1>2. TypeOK /\ CloseWakesAll /\ [Next]_vars => CloseWakesAll'
  <2> SUFFICES ASSUME TypeOK, CloseWakesAll, [Next]_vars PROVE CloseWakesAll'
    OBVIOUS
  <2>1. CASE UNCHANGED vars
    BY <2>1 DEF vars, CloseWakesAll
  <2>2. ASSUME NEW p \in Producer, Push(p) PROVE CloseWakesAll'
    BY <2>2 DEF Push, PushWaits, PushRefused, PushAccepted, CloseWakesAll
  <2>3. ASSUME NEW c \in Consumer, Pop(c) PROVE CloseWakesAll'
    <3>1. CASE PopRefused(c)
      <4>1. c \notin exited /\ exited' = exited \cup {c} /\ closed
            /\ UNCHANGED <<closed, notEmpty, notFull, joined>>
        BY <3>1 DEF PopRefused, InPop
      <4>2. ~joined
        BY <4>1 DEF CloseWakesAll
      <4> QED  BY <4>1, <4>2 DEF CloseWakesAll
    <3>2. CASE PopWaits(c) \/ PopTakes(c)
      BY <3>2 DEF PopWaits, PopTakes, CloseWakesAll
    <3> QED  BY <2>3, <3>1, <3>2 DEF Pop
  <2>4. CASE Close
    BY <2>4 DEF Close, WokenByClose, CloseWakesAll
  <2>5. CASE Join
    BY <2>5 DEF Join, CloseWakesAll
  <2>6. ASSUME NEW t \in Producer \cup Consumer, SpuriousWakeup(t) PROVE CloseWakesAll'
    BY <2>6 DEF SpuriousWakeup, CloseWakesAll
  <2> QED  BY <2>1, <2>2, <2>3, <2>4, <2>5, <2>6 DEF Next
<1> QED  BY <1>1, <1>2, TypeCorrect, PTL DEF Spec

(* push and pop hand over each accepted item once and in order.            *)
THEOREM Ordered == Spec => []FirstInFirstOut
<1>1. Init => FirstInFirstOut
  BY ConcatEmptySeq DEF Init, FirstInFirstOut
<1>2. TypeOK /\ FirstInFirstOut /\ [Next]_vars => FirstInFirstOut'
  <2> SUFFICES ASSUME TypeOK, FirstInFirstOut, [Next]_vars PROVE FirstInFirstOut'
    OBVIOUS
  <2>1. CASE UNCHANGED <<queue, taken, accepted>>
    BY <2>1 DEF FirstInFirstOut
  <2>2. ASSUME NEW p \in Producer, PushAccepted(p) PROVE FirstInFirstOut'
    <3> DEFINE x == <<p, calls[p]>>
    <3>1. x \in Item
      BY DEF TypeOK, Item
    <3>2. queue' = Append(queue, x) /\ accepted' = Append(accepted, x) /\ taken' = taken
      BY <2>2 DEF PushAccepted, Queued
    <3> HIDE DEF x
    <3>3. Append(taken \o queue, x) = taken \o Append(queue, x)
      <4>1. Append(taken \o queue, x) = (taken \o queue) \o <<x>>
        BY <3>1, AppendIsConcat, ConcatProperties DEF TypeOK
      <4>2. Append(queue, x) = queue \o <<x>>
        BY <3>1, AppendIsConcat DEF TypeOK
      <4>3. (taken \o queue) \o <<x>> = taken \o (queue \o <<x>>)
        BY <3>1, ConcatAssociative DEF TypeOK
      <4> QED  BY <4>1, <4>2, <4>3
    <3> QED  BY <3>2, <3>3 DEF FirstInFirstOut
  <2>3. ASSUME NEW c \in Consumer, PopTakes(c) PROVE FirstInFirstOut'
    <3> DEFINE x == Head(queue)
    <3>1. /\ queue # <<>> /\ queue' = Tail(queue)
          /\ taken' = Append(taken, x) /\ accepted' = accepted
      BY <2>3 DEF PopTakes
    <3>2. x \in Item /\ Tail(queue) \in Seq(Item) /\ queue = <<x>> \o Tail(queue)
      BY <3>1, HeadTailProperties DEF TypeOK
    <3> HIDE DEF x
    <3>3. Append(taken, x) \o Tail(queue) = taken \o queue
      <4>1. Append(taken, x) = taken \o <<x>>
        BY <3>2, AppendIsConcat DEF TypeOK
      <4>2. (taken \o <<x>>) \o Tail(queue) = taken \o (<<x>> \o Tail(queue))
        BY <3>2, ConcatAssociative DEF TypeOK
      <4> QED  BY <3>2, <4>1, <4>2
    <3> QED  BY <3>1, <3>3 DEF FirstInFirstOut
  <2> QED
    BY <2>1, <2>2, <2>3 DEF Next, Push, Pop, PushWaits, PushRefused, PopWaits, PopRefused,
       SpuriousWakeup, Close, Join, vars
<1> QED  BY <1>1, <1>2, TypeCorrect, PTL DEF Spec

(* The monitor is a bounded FIFO queue: accepting a value is Put, handing  *)
(* one out is Take, the first close is Shut, and the rest is a stutter.    *)
THEOREM Refines == Spec => ImplementsFifo
<1>1. Init => Fifo!Init
  BY DEF Init, Fifo!Init
<1>2. TypeOK /\ [Next]_vars => [Fifo!Next]_<<queue, taken, closed>>
  <2> SUFFICES ASSUME TypeOK, [Next]_vars PROVE [Fifo!Next]_<<queue, taken, closed>>
    OBVIOUS
  <2>1. ASSUME NEW p \in Producer, PushAccepted(p) PROVE Fifo!Next
    <3>1. <<p, calls[p]>> \in Item
      BY DEF TypeOK, Item
    <3>2. Fifo!Put(<<p, calls[p]>>)
      BY <2>1, QueueAssumption DEF PushAccepted, Queued, Full, Fifo!Put, TypeOK
    <3> QED  BY <3>1, <3>2 DEF Fifo!Next
  <2>2. ASSUME NEW c \in Consumer, PopTakes(c) PROVE Fifo!Next
    BY <2>2 DEF PopTakes, Fifo!Take, Fifo!Next
  <2>3. CASE Close
    BY <2>3 DEF Close, Fifo!Shut, Fifo!Next
  <2> QED
    BY <2>1, <2>2, <2>3 DEF Next, Push, Pop, PushWaits, PushRefused, PopWaits, PopRefused,
       SpuriousWakeup, Join, vars
<1> QED  BY <1>1, <1>2, TypeCorrect, PTL DEF Spec, ImplementsFifo, Fifo!Spec

-----------------------------------------------------------------------------
(* How many of a finite set S a set holds, as elements come and go.        *)
LEMMA CountAdd ==
  ASSUME NEW S, IsFiniteSet(S), NEW A, NEW B, NEW x \in S,
         x \notin A, A \cup {x} \subseteq B
  PROVE  Cardinality(A \cap S) + 1 <= Cardinality(B \cap S)
<1>1. IsFiniteSet(A \cap S) /\ IsFiniteSet(B \cap S)
  BY FS_Subset
<1>2. Cardinality((A \cap S) \cup {x}) = Cardinality(A \cap S) + 1
  BY <1>1, FS_AddElement
<1>3. (A \cap S) \cup {x} \in SUBSET (B \cap S)
  OBVIOUS
<1> QED  BY <1>1, <1>2, <1>3, FS_Subset

(* Taking one element out lowers the count by one at most.                 *)
LEMMA CountRemove ==
  ASSUME NEW S, IsFiniteSet(S), NEW A, NEW B, NEW x, A \ {x} \subseteq B
  PROVE  /\ Cardinality(A \cap S) <= Cardinality(B \cap S) + 1
         /\ x \notin S => Cardinality(A \cap S) <= Cardinality(B \cap S)
         /\ Cardinality(A \cap S) \in Nat
         /\ Cardinality(B \cap S) \in Nat
<1>1. IsFiniteSet(A \cap S) /\ IsFiniteSet(B \cap S)
  BY FS_Subset
<1>2. (A \cap S) \ {x} \in SUBSET (B \cap S)
  OBVIOUS
<1>3. /\ Cardinality((A \cap S) \ {x}) <= Cardinality(B \cap S)
      /\ Cardinality(A \cap S) \in Nat /\ Cardinality(B \cap S) \in Nat
  BY <1>1, <1>2, FS_Subset, FS_CardinalityType
<1>4. Cardinality((A \cap S) \ {x})
        = IF x \in A \cap S THEN Cardinality(A \cap S) - 1 ELSE Cardinality(A \cap S)
  BY <1>1, FS_RemoveElement
<1> QED  BY <1>3, <1>4

(* Every step of the monitor keeps as many threads awake as there is work. *)
LEMMA WorkConservingStep ==
  ASSUME TypeOK, CloseWakesAll, WorkConserving, [Next]_vars
  PROVE  WorkConserving'
<1> USE QueueAssumption
<1> DEFINE atWork(S) == Cardinality(woken \cap S)
<1>1. CASE UNCHANGED vars
  BY <1>1 DEF vars, WorkConserving
<1>2. ASSUME NEW p \in Producer, PushWaits(p) PROVE WorkConserving'
  <2>1. atWork(Consumer) <= atWork(Consumer)' /\ atWork(Consumer) \in Nat
        /\ atWork(Consumer)' \in Nat /\ atWork(Producer)' \in Nat
    BY <1>2, CountRemove DEF PushWaits
  <2> QED  BY <1>2, <2>1 DEF PushWaits, Full, WorkConserving, TypeOK
<1>3. ASSUME NEW p \in Producer, PushRefused(p) PROVE WorkConserving'
  BY <1>3 DEF PushRefused, CloseWakesAll, WorkConserving
<1>4. ASSUME NEW p \in Producer, PushAccepted(p) PROVE WorkConserving'
  <2>1. /\ Len(queue') = Len(queue) + 1 /\ Len(queue) \in Nat
        /\ notFull' = notFull /\ p \notin Consumer
    <3>1. <<p, calls[p]>> \in Item
      BY DEF TypeOK, Item
    <3>2. queue' = Append(queue, <<p, calls[p]>>)
      BY <1>4 DEF PushAccepted, Queued
    <3> QED  BY <1>4, <3>1, <3>2, AppendProperties DEF PushAccepted, TypeOK
  <2>2. notEmpty # {} => atWork(Consumer) + 1 <= atWork(Consumer)'
    <3> SUFFICES ASSUME notEmpty # {} PROVE atWork(Consumer) + 1 <= atWork(Consumer)'
      OBVIOUS
    <3>1. PICK s \in notEmpty : woken' = (woken \ {p}) \cup {s}
      BY <1>4 DEF PushAccepted, NotifyOne
    <3>2. s \in Consumer /\ s \notin woken
      BY <3>1 DEF TypeOK
    <3>3. Cardinality((woken \ {p}) \cap Consumer) + 1 <= atWork(Consumer)'
      BY <3>1, <3>2, CountAdd
    <3>4. (woken \ {p}) \cap Consumer = woken \cap Consumer
      BY <2>1
    <3> QED  BY <3>3, <3>4
  <2>3. woken \ {p} \subseteq woken' /\ notEmpty' \subseteq notEmpty
    BY <1>4 DEF PushAccepted, NotifyOne
  <2>4. /\ atWork(Producer) <= atWork(Producer)' + 1
        /\ atWork(Producer) \in Nat /\ atWork(Producer)' \in Nat
        /\ atWork(Consumer) \in Nat /\ atWork(Consumer)' \in Nat
    BY <2>3, CountRemove
  <2> HIDE DEF atWork
  <2>5. notEmpty' # {} => Len(queue') <= atWork(Consumer)'
    BY <2>1, <2>2, <2>3, <2>4 DEF WorkConserving, atWork
  <2>6. notFull' # {} => Capacity <= Len(queue') + atWork(Producer)'
    BY <2>1, <2>4 DEF WorkConserving, atWork
  <2> QED  BY <2>5, <2>6 DEF WorkConserving, atWork
<1>5. ASSUME NEW c \in Consumer, PopWaits(c) PROVE WorkConserving'
  <2>1. atWork(Producer) <= atWork(Producer)' /\ atWork(Producer) \in Nat
        /\ atWork(Producer)' \in Nat /\ atWork(Consumer)' \in Nat
    BY <1>5, CountRemove DEF PopWaits
  <2> QED  BY <1>5, <2>1 DEF PopWaits, WorkConserving, TypeOK
<1>6. ASSUME NEW c \in Consumer, PopRefused(c) PROVE WorkConserving'
  BY <1>6 DEF PopRefused, CloseWakesAll, WorkConserving
<1>7. ASSUME NEW c \in Consumer, PopTakes(c) PROVE WorkConserving'
  <2>1. /\ Len(queue') = Len(queue) - 1 /\ Len(queue) \in Nat
        /\ notEmpty' = notEmpty /\ c \notin Producer
    BY <1>7, HeadTailProperties DEF PopTakes, TypeOK
  <2>2. notFull # {} => atWork(Producer) + 1 <= atWork(Producer)'
    <3> SUFFICES ASSUME notFull # {} PROVE atWork(Producer) + 1 <= atWork(Producer)'
      OBVIOUS
    <3>1. PICK s \in notFull : woken' = (woken \ {c}) \cup {s}
      BY <1>7 DEF PopTakes, NotifyOne
    <3>2. s \in Producer /\ s \notin woken
      BY <3>1 DEF TypeOK
    <3>3. Cardinality((woken \ {c}) \cap Producer) + 1 <= atWork(Producer)'
      BY <3>1, <3>2, CountAdd
    <3>4. (woken \ {c}) \cap Producer = woken \cap Producer
      BY <2>1
    <3> QED  BY <3>3, <3>4
  <2>3. woken \ {c} \subseteq woken' /\ notFull' \subseteq notFull
    BY <1>7 DEF PopTakes, NotifyOne
  <2>4. /\ atWork(Consumer) <= atWork(Consumer)' + 1
        /\ atWork(Producer) \in Nat /\ atWork(Producer)' \in Nat
        /\ atWork(Consumer) \in Nat /\ atWork(Consumer)' \in Nat
    BY <2>3, CountRemove
  <2> HIDE DEF atWork
  <2>5. notEmpty' # {} => Len(queue') <= atWork(Consumer)'
    BY <2>1, <2>4 DEF WorkConserving, atWork
  <2>6. notFull' # {} => Capacity <= Len(queue') + atWork(Producer)'
    BY <2>1, <2>2, <2>3, <2>4 DEF WorkConserving, atWork
  <2> QED  BY <2>5, <2>6 DEF WorkConserving, atWork
<1>8. CASE Close
  BY <1>8 DEF Close, WokenByClose, WorkConserving
<1>9. CASE Join
  BY <1>9 DEF Join, WorkConserving
<1>10. ASSUME NEW t \in Producer \cup Consumer, SpuriousWakeup(t) PROVE WorkConserving'
  <2>1. /\ notEmpty' \subseteq notEmpty /\ notFull' \subseteq notFull /\ queue' = queue
        /\ woken \subseteq woken' /\ woken \ {Consumer} \subseteq woken'
    BY <1>10 DEF SpuriousWakeup
  <2>2. /\ woken \cap Producer \in SUBSET (woken' \cap Producer)
        /\ woken \cap Consumer \in SUBSET (woken' \cap Consumer)
    BY <2>1
  <2>3. /\ IsFiniteSet(woken \cap Producer) /\ IsFiniteSet(woken' \cap Producer)
        /\ IsFiniteSet(woken \cap Consumer) /\ IsFiniteSet(woken' \cap Consumer)
    BY FS_Subset
  <2>4. /\ atWork(Producer) <= atWork(Producer)' /\ atWork(Consumer) <= atWork(Consumer)'
        /\ atWork(Producer) \in Nat /\ atWork(Producer)' \in Nat
        /\ atWork(Consumer) \in Nat /\ atWork(Consumer)' \in Nat
    BY <2>2, <2>3, FS_Subset, FS_CardinalityType
  <2>5. Len(queue) \in Nat
    BY DEF TypeOK
  <2> HIDE DEF atWork
  <2>6. notEmpty' # {} => Len(queue') <= atWork(Consumer)'
    BY <2>1, <2>4, <2>5 DEF WorkConserving, atWork
  <2>7. notFull' # {} => Capacity <= Len(queue') + atWork(Producer)'
    BY <2>1, <2>4, <2>5 DEF WorkConserving, atWork
  <2> QED  BY <2>6, <2>7 DEF WorkConserving, atWork
<1> QED
  BY <1>1, <1>2, <1>3, <1>4, <1>5, <1>6, <1>7, <1>8, <1>9, <1>10 DEF Next, Push, Pop

(* One notify_one per push and per pop is enough: while a consumer sleeps, *)
(* every queued item has a woken consumer coming for it, and while a       *)
(* producer sleeps, every free place has a woken producer.                 *)
THEOREM NoSignalMissed == Spec => []WorkConserving
<1>1. Init => WorkConserving
  BY DEF Init, WorkConserving
<1>2. TypeOK /\ CloseWakesAll /\ WorkConserving /\ [Next]_vars => WorkConserving'
  BY WorkConservingStep
<1> QED  BY <1>1, <1>2, TypeCorrect, CloseReachesAll, PTL DEF Spec
=============================================================================
