----------------------------- MODULE SqlConnPool ------------------------------
(***************************************************************************)
(* The pool of database connections: a queue under a mutex, a condition    *)
(* variable for "not empty", and two counters kept beside it.  SqlConnRAII *)
(* takes a connection where a handler declares it and gives it back when   *)
(* its block is left.  The pool is filled before the first worker runs.    *)
(***************************************************************************)
EXTENDS Integers, SequencesExt, FiniteSets

CONSTANTS
  Worker,  \* threads that run handlers
  Sql,     \* the MYSQL handles
  NoSql    \* sql_ = nullptr

ASSUME PoolAssumption == IsFiniteSet(Worker) /\ IsFiniteSet(Sql) /\ NoSql \notin Sql

VARIABLES
  connQueue,  \* conn_queue_
  freeCount,  \* free_count_
  useCount,   \* use_count_
  asleep,     \* workers in cv_.wait
  woken,      \* workers notified that have not got the mutex back
  held        \* the handle each worker's SqlConnRAII holds

sqlVars == <<connQueue, freeCount, useCount, asleep, woken, held>>

PoolInit ==
  /\ connQueue = SetToSeq(Sql)
  /\ freeCount = Cardinality(Sql) /\ useCount = 0
  /\ asleep = {} /\ woken = {}
  /\ held = [w \in Worker |-> NoSql]

Waits(w) ==
  /\ w \notin asleep /\ connQueue = <<>>
  /\ asleep' = asleep \cup {w} /\ woken' = woken \ {w}
  /\ UNCHANGED <<connQueue, freeCount, useCount, held>>

InUse == useCount + 1

GetConn(w) ==
  /\ w \notin asleep /\ connQueue # <<>>
  /\ held' = [held EXCEPT ![w] = Head(connQueue)]
  /\ connQueue' = Tail(connQueue)
  /\ freeCount' = freeCount - 1 /\ useCount' = InUse
  /\ woken' = woken \ {w}
  /\ UNCHANGED asleep

NotifyNone == UNCHANGED <<asleep, woken>>               \* the call forgotten
NotifyOne ==
  \/ asleep = {} /\ UNCHANGED <<asleep, woken>>
  \/ \E v \in asleep : asleep' = asleep \ {v} /\ woken' = woken \cup {v}

FreeConn(w) ==
  /\ held[w] # NoSql
  /\ connQueue' = Append(connQueue, held[w])
  /\ held' = [held EXCEPT ![w] = NoSql]
  /\ freeCount' = freeCount + 1 /\ useCount' = useCount - 1
  /\ NotifyOne

SpuriousWakeup(w) ==
  /\ w \in asleep
  /\ asleep' = asleep \ {w} /\ woken' = woken \cup {w}
  /\ UNCHANGED <<connQueue, freeCount, useCount, held>>

-----------------------------------------------------------------------------
PoolTypeOK ==
  /\ connQueue \in Seq(Sql)
  /\ held \in [Worker -> Sql \cup {NoSql}]
  /\ asleep \subseteq Worker /\ woken \subseteq Worker \ asleep

(* A handle is queued or with one worker, never with two, and the counters *)
(* say how many are which.                                                 *)
Holders == {w \in Worker : held[w] # NoSql}
HandlesAccountedFor ==
  /\ \A s \in Sql :
       Cardinality({i \in DOMAIN connQueue : connQueue[i] = s})
         + Cardinality({w \in Worker : held[w] = s}) = 1
  /\ freeCount = Len(connQueue) /\ useCount = Cardinality(Holders)

(* While a worker sleeps, every free handle has a worker coming for it.    *)
NoHandleIdle == asleep # {} => Len(connQueue) <= Cardinality(woken)
=============================================================================
