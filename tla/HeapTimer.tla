------------------------------ MODULE HeapTimer -------------------------------
(***************************************************************************)
(* HeapTimer: a binary heap of timers in a vector, with a map from each    *)
(* descriptor to its place in the vector, and the way the event loop uses  *)
(* it: getNextTick() before it sleeps, tick() after, then the handlers of  *)
(* the batch, which add, adjust and remove timers.  The callback of every  *)
(* timer is closeConn, which removes that timer itself.                    *)
(*                                                                         *)
(* Places count from 1 here, from 0 in the code.  The clock is the wall    *)
(* clock (high_resolution_clock): it is read anew at each use, ticks       *)
(* TicksPerMs times a millisecond and may be set back.                     *)
(***************************************************************************)
EXTENDS Integers, Sequences, FiniteSetsExt

CONSTANTS
  Fd,          \* descriptor numbers accept may return
  Timeout,     \* timeout_ms_, in clock ticks
  TicksPerMs,  \* clock ticks per millisecond
  MaxNow,      \* bound: timers that are started are due by then
  MaxBatch,    \* bound: timer operations of the handlers of one batch
  MaxSetBack   \* bound: times the clock is set back

ASSUME TimerAssumption ==
  /\ Fd \subseteq Nat
  /\ Timeout \in Nat \ {0} /\ TicksPerMs \in Nat \ {0}
  /\ MaxNow \in Nat /\ MaxBatch \in Nat /\ MaxSetBack \in Nat

VARIABLES
  timer,   \* [heap: heap_, ref: ref_]
  fired,   \* descriptor whose callback ran last, unless a handler came since
  pc,      \* where the event loop is
  left,    \* ticks until epoll_wait times out
  todo,    \* operations the handlers of this batch may still do
  now,     \* what Clock::now() returns
  setBack  \* times the clock was set back

vars == <<timer, fired, pc, left, todo, now, setBack>>

Forever == -1
NoFd == -1

Node == [fd : Fd, expires : 0..MaxNow]

Places(t) == DOMAIN t.heap

-----------------------------------------------------------------------------
(* The heap and its map of places.                                         *)
SwapHeapOnly(t, i, j) ==                                \* ref_ forgotten
  [t EXCEPT !.heap = [@ EXCEPT ![i] = t.heap[j], ![j] = t.heap[i]]]

SwapNode(t, i, j) ==
  [heap |-> [t.heap EXCEPT ![i] = t.heap[j], ![j] = t.heap[i]],
   ref  |-> [t.ref EXCEPT ![t.heap[j].fd] = i, ![t.heap[i].fd] = j]]

Earlier(t, i, j) == t.heap[i].expires < t.heap[j].expires

(* One turn of the loop of sift_up and of sift_down: s is the timer and    *)
(* the index.  The loops end where a turn changes nothing: sift_up's after *)
(* i \div 2 turns at most, and sift_down's after n \div 2.                 *)
UpTurn(s) ==
  IF s.i > 1 /\ Earlier(s.t, s.i, s.i \div 2)
  THEN [t |-> SwapNode(s.t, s.i \div 2, s.i), i |-> s.i \div 2]
  ELSE s

SiftUp(t, i) ==
  LET after[k \in 0..(i \div 2)] == IF k = 0 THEN [t |-> t, i |-> i] ELSE UpTurn(after[k - 1])
  IN  after[i \div 2].t

Least(t, i, n) ==      \* of a place and its children, the left child on a tie
  LET upTo(k, min) == IF k <= n /\ Earlier(t, k, min) THEN k ELSE min
  IN  upTo(2 * i + 1, upTo(2 * i, i))

DownTurn(s, n) ==
  IF Least(s.t, s.i, n) # s.i
  THEN [t |-> SwapNode(s.t, Least(s.t, s.i, n), s.i), i |-> Least(s.t, s.i, n)]
  ELSE s

SiftDown(t, i, n) ==
  LET after[k \in 0..(n \div 2)] == IF k = 0 THEN [t |-> t, i |-> i] ELSE DownTurn(after[k - 1], n)
  IN  after[n \div 2].t

SettledDown(t, i, n) == SiftDown(t, i, n)               \* never up

Settled(t, i, n) == SiftUp(SiftDown(t, i, n), i)

Del(t, i) ==
  LET n == Len(t.heap)
      u == IF i < n THEN Settled(SwapNode(t, i, n), i, n - 1) ELSE t
  IN  [heap |-> SubSeq(u.heap, 1, n - 1),
       ref  |-> [f \in DOMAIN u.ref \ {u.heap[n].fd} |-> u.ref[f]]]

Removed(t, fd) ==
  IF t.heap = <<>> \/ fd \notin DOMAIN t.ref THEN t ELSE Del(t, t.ref[fd])

Added(t, fd, expires) ==
  LET n == Len(t.heap) + 1
  IN  IF fd \in DOMAIN t.ref THEN t
      ELSE SiftUp([heap |-> Append(t.heap, [fd |-> fd, expires |-> expires]),
                   ref  |-> [f \in DOMAIN t.ref \cup {fd} |->
                               IF f = fd THEN n ELSE t.ref[f]]], n)

Adjusted(t, fd, expires) ==
  IF fd \notin DOMAIN t.ref THEN t
  ELSE Settled([t EXCEPT !.heap[t.ref[fd]].expires = expires],
               t.ref[fd], Len(t.heap))

(* doWork runs the callback, which removes the timer, and looks again      *)
(* before it deletes anything itself.                                      *)
DoWorkUnchecked(t, fd) ==               \* deletes what moved into the place
  LET u == Removed(t, fd)
  IN  IF t.ref[fd] \in Places(u) THEN Del(u, t.ref[fd]) ELSE u

DoWork(t, fd) ==
  LET u == Removed(t, fd)
  IN  IF fd \in DOMAIN u.ref THEN Del(u, u.ref[fd]) ELSE u

-----------------------------------------------------------------------------
Init ==
  /\ timer = [heap |-> <<>>, ref |-> <<>>]
  /\ fired = NoFd
  /\ pc = "nextTick" /\ left = 0 /\ todo = 0
  /\ now = 0 /\ setBack = 0

(* tick(), one timer at a time: it is called by getNextTick and again when *)
(* epoll_wait is back.                                                     *)
FrontIsDue == timer.heap # <<>> /\ timer.heap[1].expires <= now

TickOne ==
  /\ pc \in {"nextTick", "tick"} /\ FrontIsDue
  /\ timer' = DoWork(timer, timer.heap[1].fd)
  /\ fired' = timer.heap[1].fd
  /\ UNCHANGED <<pc, left, todo, now, setBack>>

TickDone ==
  /\ pc \in {"nextTick", "tick"} /\ ~FrontIsDue
  /\ pc' = IF pc = "nextTick" THEN "sleep" ELSE "dispatch"
  /\ todo' = MaxBatch
  /\ UNCHANGED <<timer, fired, left, now, setBack>>

(* The end of getNextTick: it reads the clock once more, and truncates to  *)
(* milliseconds.                                                           *)
MsUntilRoundedUp(expires) ==
  IF expires <= now THEN 0 ELSE (expires - now + TicksPerMs - 1) \div TicksPerMs

MsUntil(expires) ==                     \* duration_cast truncates to zero
  IF expires <= now THEN 0 ELSE (expires - now) \div TicksPerMs

NextTickOrForever ==                    \* an overdue timer counts as none
  IF timer.heap = <<>> \/ MsUntil(timer.heap[1].expires) = 0
  THEN Forever ELSE MsUntil(timer.heap[1].expires)

NextTick == IF timer.heap = <<>> THEN Forever ELSE MsUntil(timer.heap[1].expires)

Sleep ==
  /\ pc = "sleep"
  /\ left' = IF NextTick = Forever THEN Forever ELSE NextTick * TicksPerMs
  /\ pc' = "asleep"
  /\ UNCHANGED <<timer, fired, todo, now, setBack>>

WakeByTimeout ==
  /\ pc = "asleep" /\ left = 0
  /\ pc' = "tick"
  /\ UNCHANGED <<timer, fired, left, todo, now, setBack>>

WakeByEvent ==
  /\ pc = "asleep" /\ left # 0
  /\ pc' = "tick" /\ left' = 0
  /\ UNCHANGED <<timer, fired, todo, now, setBack>>

(* The handlers: handleListen adds, handleWakeup adjusts, closeConn        *)
(* removes.  accept returns the lowest free number, and only connections   *)
(* have timers.                                                            *)
Handler(t) ==
  /\ pc = "dispatch" /\ todo > 0
  /\ timer' = t /\ todo' = todo - 1 /\ fired' = NoFd
  /\ UNCHANGED <<pc, left, now, setBack>>

FreeFds == Fd \ DOMAIN timer.ref

AddTimer ==
  /\ FreeFds # {} /\ now + Timeout <= MaxNow
  /\ Handler(Added(timer, Min(FreeFds), now + Timeout))

AdjustTimer(fd) ==
  /\ now + Timeout <= MaxNow
  /\ Handler(Adjusted(timer, fd, now + Timeout))

RemoveTimer(fd) == Handler(Removed(timer, fd))

EndBatch ==
  /\ pc = "dispatch" /\ pc' = "nextTick"
  /\ UNCHANGED <<timer, fired, left, todo, now, setBack>>

-----------------------------------------------------------------------------
(* The clock, and the timeout of epoll_wait, which is not measured by it.  *)
Elapse ==
  /\ now < MaxNow /\ now' = now + 1
  /\ left' = IF pc = "asleep" /\ left > 0 THEN left - 1 ELSE left
  /\ UNCHANGED <<timer, fired, pc, todo, setBack>>

SetBack ==
  /\ setBack < MaxSetBack /\ setBack' = setBack + 1
  /\ \E t \in 0..MaxNow : t < now /\ now' = t
  /\ UNCHANGED <<timer, fired, pc, left, todo>>

Loop ==
  \/ TickOne \/ TickDone \/ Sleep \/ WakeByTimeout
  \/ EndBatch

Next ==
  \/ Loop \/ WakeByEvent
  \/ AddTimer \/ \E fd \in Fd : AdjustTimer(fd) \/ RemoveTimer(fd)
  \/ Elapse \/ SetBack

Spec == Init /\ [][Next]_vars

FairSpec == Spec /\ WF_vars(Loop) /\ WF_vars(Elapse)

-----------------------------------------------------------------------------
(* Types, and ref_ is the inverse of heap_: it names exactly the           *)
(* descriptors with a node, each at its place.                             *)
TypeOK ==
  /\ timer.heap \in Seq(Node)
  /\ DOMAIN timer.ref = {timer.heap[i].fd : i \in Places(timer)}
  /\ \A i \in Places(timer) : timer.ref[timer.heap[i].fd] = i
  /\ fired \in Fd \cup {NoFd}
  /\ pc \in {"nextTick", "sleep", "asleep", "tick", "dispatch"}
  /\ left \in {Forever} \cup 0..MaxNow /\ todo \in 0..MaxBatch
  /\ now \in 0..MaxNow /\ setBack \in 0..MaxSetBack

(* The vector is a heap after every operation, wherever it took a node     *)
(* out or moved one in.                                                    *)
HeapOrdered ==
  \A i \in Places(timer) : i > 1 => ~Earlier(timer, i, i \div 2)

(* epoll_wait is never told to sleep beyond the earliest deadline, however *)
(* late the loop gets there.                                               *)
NeverOversleeps ==
  pc = "asleep" =>
    \A i \in Places(timer) :
      /\ left # Forever
      /\ left > 0 => now + left <= timer.heap[i].expires

(* The heap does what a set of deadlines would.                            *)
Timers == INSTANCE TimerSet WITH
  deadline <- [f \in DOMAIN timer.ref |-> timer.heap[timer.ref[f]].expires]
ImplementsTimerSet == Timers!Spec

(* A timer that is due has its callback run or is started anew or removed. *)
Due(fd) == \E i \in Places(timer) : timer.heap[i].fd = fd /\ timer.heap[i].expires <= now
DueIsClosed == \A fd \in Fd : Due(fd) ~> ~Due(fd)
=============================================================================
