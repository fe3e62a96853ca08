---------------------------- MODULE BlockingQueue -----------------------------
(***************************************************************************)
(* BlockingQueue<T>, the monitor under the thread pool and the logger: one *)
(* mutex, a condition variable for "not empty" and one for "not full".     *)
(* Producers call push, consumers call pop until it returns false, and     *)
(* somebody calls close() and joins the consumers (ThreadPool::stop,       *)
(* Logger::stop).                                                          *)
(*                                                                         *)
(* What a call does between taking the mutex and giving it up, by          *)
(* returning or in wait(), is one step.  A thread that was notified has    *)
(* to take the mutex again, and anything may happen before it does.        *)
(***************************************************************************)
EXTENDS Naturals, Sequences, FiniteSets

CONSTANTS
  Producer,   \* threads that push
  Consumer,   \* threads that pop
  Capacity,   \* capacity_
  MaxPush     \* bound: calls of push per producer

ASSUME QueueAssumption ==
  /\ IsFiniteSet(Producer) /\ IsFiniteSet(Consumer)
  /\ Producer \cap Consumer = {}
  /\ Consumer # {}
  /\ Capacity \in Nat \ {0}
  /\ MaxPush \in Nat

Item == Producer \X (0..MaxPush)   \* the n-th value a producer pushes

VARIABLES
  queue,     \* queue_
  closed,    \* closed_
  notEmpty,  \* consumers asleep on not_empty_cv_
  notFull,   \* producers asleep on not_full_cv_
  woken,     \* threads taken off a condition variable, not running yet
  calls,     \* calls of push each producer has back
  taken,     \* items pop has returned, in order
  accepted,  \* items push has accepted, in order
  exited,    \* consumers whose pop returned false
  joined     \* stop() has joined them all

vars == <<queue, closed, notEmpty, notFull, woken, calls, taken, accepted, exited, joined>>

Init ==
  /\ queue = <<>> /\ closed = FALSE
  /\ notEmpty = {} /\ notFull = {} /\ woken = {}
  /\ calls = [p \in Producer |-> 0]
  /\ taken = <<>> /\ accepted = <<>>
  /\ exited = {} /\ joined = FALSE

-----------------------------------------------------------------------------
(* notify_one(): some sleeper of cv, if there is one, is woken; t, the     *)
(* thread that runs, is no longer among the woken.                         *)
NotifyNone(cv, t) == cv' = cv /\ woken' = woken \ {t}   \* the call forgotten

NotifyOne(cv, t) ==
  \/ cv = {} /\ cv' = cv /\ woken' = woken \ {t}
  \/ \E s \in cv : cv' = cv \ {s} /\ woken' = (woken \ {t}) \cup {s}

FullWhenOver == Len(queue) > Capacity                   \* one too many
Full == Len(queue) >= Capacity

Queued(x) == Append(queue, x)

-----------------------------------------------------------------------------
(* push.                                                                   *)
InPush(p) == p \notin notFull /\ calls[p] < MaxPush

PushWaits(p) ==
  /\ InPush(p) /\ ~closed /\ Full
  /\ notFull' = notFull \cup {p}
  /\ woken' = woken \ {p}
  /\ UNCHANGED <<queue, closed, notEmpty, calls, taken, accepted, exited, joined>>

PushRefused(p) ==
  /\ InPush(p) /\ closed
  /\ calls' = [calls EXCEPT ![p] = @ + 1]
  /\ woken' = woken \ {p}
  /\ UNCHANGED <<queue, closed, notEmpty, notFull, taken, accepted, exited, joined>>

PushAccepted(p) ==
  LET x == <<p, calls[p]>> IN
  /\ InPush(p) /\ ~closed /\ ~Full
  /\ queue' = Queued(x)
  /\ accepted' = Append(accepted, x)
  /\ calls' = [calls EXCEPT ![p] = @ + 1]
  /\ NotifyOne(notEmpty, p)
  /\ UNCHANGED <<closed, notFull, taken, exited, joined>>

(* pop, called again and again by a worker loop until it returns false.    *)
InPop(c) == c \notin notEmpty \cup exited

PopWaits(c) ==
  /\ InPop(c) /\ ~closed /\ queue = <<>>
  /\ notEmpty' = notEmpty \cup {c}
  /\ woken' = woken \ {c}
  /\ UNCHANGED <<queue, closed, notFull, calls, taken, accepted, exited, joined>>

PopRefused(c) ==
  /\ InPop(c) /\ closed
  /\ exited' = exited \cup {c}
  /\ woken' = woken \ {c}
  /\ UNCHANGED <<queue, closed, notEmpty, notFull, calls, taken, accepted, joined>>

PopTakes(c) ==
  /\ InPop(c) /\ ~closed /\ queue # <<>>
  /\ taken' = Append(taken, Head(queue))
  /\ queue' = Tail(queue)
  /\ NotifyOne(notFull, c)
  /\ UNCHANGED <<closed, notEmpty, calls, accepted, exited, joined>>

(* close() wakes everybody; whatever is queued stays there.                *)
OneWokenByClose ==                                      \* notify_one twice
  (IF notEmpty = {} THEN {} ELSE {CHOOSE c \in notEmpty : TRUE})
    \cup (IF notFull = {} THEN {} ELSE {CHOOSE p \in notFull : TRUE})
WokenByClose == notEmpty \cup notFull

Close ==
  /\ ~closed /\ closed' = TRUE
  /\ notEmpty' = notEmpty \ WokenByClose
  /\ notFull' = notFull \ WokenByClose
  /\ woken' = woken \cup WokenByClose
  /\ UNCHANGED <<queue, calls, taken, accepted, exited, joined>>

Join ==
  /\ closed /\ exited = Consumer /\ ~joined
  /\ joined' = TRUE
  /\ UNCHANGED <<queue, closed, notEmpty, notFull, woken, calls, taken, accepted, exited>>

(* A condition variable may wake a thread nobody notified.                 *)
SpuriousWakeup(t) ==
  /\ t \in notEmpty \cup notFull
  /\ notEmpty' = notEmpty \ {t} /\ notFull' = notFull \ {t}
  /\ woken' = woken \cup {t}
  /\ UNCHANGED <<queue, closed, calls, taken, accepted, exited, joined>>

-----------------------------------------------------------------------------
Push(p) == PushWaits(p) \/ PushRefused(p) \/ PushAccepted(p)
Pop(c) == PopWaits(c) \/ PopRefused(c) \/ PopTakes(c)

Next ==
  \/ \E p \in Producer : Push(p)
  \/ \E c \in Consumer : Pop(c)
  \/ \E t \in Producer \cup Consumer : SpuriousWakeup(t)
  \/ Close \/ Join

Spec == Init /\ [][Next]_vars

(* Threads keep running and get the mutex in the end, since nobody keeps   *)
(* it.  Nobody has to call close(), and nothing wakes a thread by chance.  *)
FairSpec ==
  /\ Spec
  /\ \A p \in Producer : WF_vars(Push(p))
  /\ \A c \in Consumer : WF_vars(Pop(c))
  /\ WF_vars(Join)

-----------------------------------------------------------------------------
(* Types, the capacity, and who can be where: a sleeping thread is not     *)
(* woken, one that has left for good is neither.                           *)
TypeOK ==
  /\ queue \in Seq(Item) /\ Len(queue) <= Capacity
  /\ taken \in Seq(Item) /\ accepted \in Seq(Item)
  /\ closed \in BOOLEAN /\ joined \in BOOLEAN
  /\ notEmpty \subseteq Consumer /\ notFull \subseteq Producer
  /\ woken \subseteq (Producer \cup Consumer) \ (notEmpty \cup notFull \cup exited)
  /\ calls \in [Producer -> 0..MaxPush]
  /\ exited \subseteq Consumer \ notEmpty

(* Signals are not lost where it counts: while a consumer sleeps, every    *)
(* queued item has a woken consumer of its own to come for it, and while a *)
(* producer sleeps, so has every free place.                               *)
WorkConserving ==
  /\ notEmpty # {} => Len(queue) <= Cardinality(woken \cap Consumer)
  /\ notFull # {} => Capacity <= Len(queue) + Cardinality(woken \cap Producer)

(* Nobody sleeps in a queue that is closed, and nobody who was not told of *)
(* the close leaves it.                                                    *)
CloseWakesAll ==
  /\ closed => notEmpty = {} /\ notFull = {}
  /\ exited # {} \/ joined => closed
  /\ joined => exited = Consumer

(* Nothing is lost, repeated or reordered between push and pop.            *)
FirstInFirstOut == accepted = taken \o queue

(* The queue does what a bounded queue should.                             *)
Fifo == INSTANCE BoundedFifo
ImplementsFifo == Fifo!Spec

(* What was accepted is handed out, unless the queue is closed first.      *)
Delivered ==
  \A i \in 1..(Cardinality(Producer) * MaxPush) :
    Len(accepted) >= i ~> Len(taken) >= i \/ closed

(* stop() returns: every consumer leaves pop and can be joined, and no     *)
(* producer stays in push.                                                 *)
StopReturns ==
  closed ~> joined /\ notFull = {} /\ woken \cap Producer = {}
=============================================================================
