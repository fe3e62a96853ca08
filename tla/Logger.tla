-------------------------------- MODULE Logger --------------------------------
(***************************************************************************)
(* The asynchronous logger: threads format a message and push it, one      *)
(* worker pops and writes, log files are rotated by day and by size and    *)
(* flushed now and then, and stop() closes the queue and the file while    *)
(* other threads may still be logging.  The process may be killed at any   *)
(* point and started again; the files stay.                                *)
(*                                                                         *)
(* The blocking queue is its abstraction, BoundedFifo; a push or a pop     *)
(* that would wait is not enabled.  write_message holds file_mutex_ all    *)
(* along and is one step.                                                  *)
(***************************************************************************)
EXTENDS Naturals, Sequences

CONSTANTS
  Thread,       \* threads that log
  Capacity,     \* queue_capacity
  MaxFileSize,  \* max_file_size
  FlushEvery,   \* flush_every_n_message
  MaxLog,       \* bound: calls of log per thread
  MaxDay,       \* bound: the days there are
  MaxIndex,     \* bound: rotations by size in one day
  MaxFailures,  \* bound: files that cannot be opened
  MaxKills      \* bound: times the process is killed

ASSUME LoggerAssumption ==
  /\ {Capacity, MaxFileSize} \subseteq Nat \ {0}
  /\ {FlushEvery, MaxLog, MaxDay, MaxIndex, MaxFailures, MaxKills} \subseteq Nat

(* Errors, which are flushed at once, are the long messages here.          *)
Message == [by : Thread, n : 0..MaxLog, error : BOOLEAN, run : 0..MaxKills]
Size(m) == IF m.error THEN 2 ELSE 1

File == (0..MaxDay) \X (0..MaxIndex)

VARIABLES
  queue, taken, closed,  \* queue_: what is queued, what was popped, closed_
  initialized,           \* initialized_
  thr,       \* each thread: [at, n, msg], n its calls of log so far
  worker,    \* worker_thread_: "popping", "writing", "flushing", "exited"
  main,      \* the thread that calls init and stop
  log,       \* log_file_ and what is known of it; missed, a history, is what
             \* the file held when it was opened and its size was not read
  disk,      \* what each file holds; its messages in order
  written,   \* messages put into log_file_, ever
  logged,    \* history: the messages of this run
  today,     \* the date; setBack, a history: it went back in this run
  setBack, failures, kills

pool == <<queue, taken, closed>>
date == <<today, setBack>>
counts == <<today, setBack, failures, kills>>
vars == <<queue, taken, closed, initialized, thr, worker, main, log, disk, written,
          logged, today, setBack, failures, kills>>

Fifo == INSTANCE BoundedFifo WITH Item <- Message

SumOf(s) ==
  LET f[i \in 0..Len(s)] == IF i = 0 THEN 0 ELSE f[i - 1] + Size(s[i])
  IN  f[Len(s)]

NoLog ==
  [open |-> FALSE, date |-> 0, index |-> 0, size |-> 0, missed |-> 0, buf |-> <<>>,
   pending |-> 0]

Init ==
  /\ Fifo!Init
  /\ initialized = FALSE
  /\ thr = [p \in Thread |-> [at |-> "idle", n |-> 0, msg |-> <<>>]]
  /\ worker = "exited" /\ main = "init"
  /\ log = NoLog /\ disk = [f \in File |-> <<>>] /\ written = {} /\ logged = {}
  /\ today = 0 /\ setBack = FALSE /\ failures = 0 /\ kills = 0

-----------------------------------------------------------------------------
(* The file.  L is log and disk together.                                  *)
Name(L) == <<L.log.date, L.log.index>>

Spilled(L) ==          \* the stream's buffer goes to the file
  [L EXCEPT !.disk[Name(L)] = @ \o L.log.buf, !.log.buf = <<>>]

FlushUnlocked(L) ==
  IF L.log.open THEN [Spilled(L) EXCEPT !.log.pending = 0] ELSE L

CloseLogFile(L) ==
  IF L.log.open THEN [Spilled(L) EXCEPT !.log.open = FALSE] ELSE L

(* open_log_file: the file opens, and its size may not be had, which       *)
(* counts as 0; or it does not open, and if that is because the directory  *)
(* cannot be made the code says it went well.                              *)
OpenAsEmpty(L) == [L EXCEPT !.log.open = TRUE]            \* size not asked

OpenWithSize(L) ==
  [L EXCEPT !.log.open = TRUE, !.log.size = SumOf(L.disk[Name(L)]), !.log.missed = 0]

OpenUnsized(L) ==
  [L EXCEPT !.log.open = TRUE, !.log.size = 0, !.log.missed = SumOf(L.disk[Name(L)])]

OpenLogFile(L) ==
  [L : {OpenWithSize(L), OpenUnsized(L)}, ok : {TRUE}]
    \cup (IF failures = MaxFailures THEN {} ELSE [L : {L}, ok : BOOLEAN])

TooLongWhenFull(m) == log.size > MaxFileSize             \* looks back only
TooLong(m) == log.size + Size(m) > MaxFileSize

Rotated(L) ==
  LET C == CloseLogFile(FlushUnlocked(L))
  IN  IF today # L.log.date
      THEN [C EXCEPT !.log.date = today, !.log.index = 0, !.log.size = 0]
      ELSE [C EXCEPT !.log.index = @ + 1, !.log.size = 0]

RotateIfNeeded(L, m) ==
  IF today = L.log.date /\ ~TooLong(m) THEN {[L |-> L, ok |-> TRUE]}
  ELSE IF Name(Rotated(L)) \in File THEN OpenLogFile(Rotated(L)) ELSE {}

(* Errors are flushed, so is every FlushEvery-th message, and a message    *)
(* that finds the last flush long ago.                                     *)
MustFlushByCount(L, m) == L.log.pending >= FlushEvery          \* level unseen

MustFlush(L, m) == m.error \/ L.log.pending >= FlushEvery

Appended(L, m) ==
  LET W == [L EXCEPT !.log.buf = Append(@, m), !.log.size = @ + Size(m),
                     !.log.pending = @ + 1]
  IN  {FlushUnlocked(W)} \cup (IF MustFlush(W, m) THEN {} ELSE {W})

WriteMessage(m) ==
  \E r \in RotateIfNeeded([log |-> log, disk |-> disk], m) :
    /\ failures' = IF r.L.log.open \/ (today = log.date /\ ~TooLong(m))
                   THEN failures ELSE failures + 1
    /\ \/ /\ r.ok /\ r.L.log.open
          /\ \E L \in Appended(r.L, m) : log' = L.log /\ disk' = L.disk
          /\ written' = written \cup {m}
       \/ /\ ~(r.ok /\ r.L.log.open)
          /\ log' = r.L.log /\ disk' = r.L.disk
          /\ UNCHANGED written

-----------------------------------------------------------------------------
(* init(), by the main thread before any other.                            *)
InitLogger ==
  /\ main = "init"
  /\ \E r \in OpenLogFile([log |-> [NoLog EXCEPT !.date = today], disk |-> disk]) :
       /\ log' = r.L.log
       /\ failures' = IF r.L.log.open THEN failures ELSE failures + 1
       /\ initialized' = r.ok
       /\ worker' = IF r.ok THEN "popping" ELSE "exited"
  /\ main' = "up"
  /\ UNCHANGED <<pool, thr, disk, written, logged, date, kills>>

(* log(): reads initialized_, pushes, and writes itself if it was refused. *)
Log(p, error) ==
  /\ main # "init" /\ initialized
  /\ thr[p].at = "idle" /\ thr[p].n < MaxLog
  /\ thr' = [thr EXCEPT ![p] =
       [at |-> "push", n |-> @.n + 1,
        msg |-> [by |-> p, n |-> @.n, error |-> error, run |-> kills]]]
  /\ logged' = logged \cup {thr'[p].msg}
  /\ UNCHANGED <<pool, initialized, worker, main, log, disk, written, counts>>

Returned(p) == [thr EXCEPT ![p].at = "idle", ![p].msg = <<>>]

PushAccepted(p) ==
  /\ thr[p].at = "push" /\ Fifo!Put(thr[p].msg)
  /\ thr' = Returned(p)
  /\ UNCHANGED <<initialized, worker, main, log, disk, written, logged, counts>>

RefusedWhenFull == closed \/ Len(queue) = Capacity          \* does not wait
Refused == closed

PushRefused(p) ==
  /\ thr[p].at = "push" /\ Refused
  /\ thr' = [thr EXCEPT ![p].at = "write"]
  /\ UNCHANGED <<pool, initialized, worker, main, log, disk, written, logged, counts>>

WriteItself(p) ==
  /\ thr[p].at = "write"
  /\ WriteMessage(thr[p].msg)
  /\ thr' = Returned(p)
  /\ UNCHANGED <<pool, initialized, worker, main, logged, date, kills>>

(* async_wirte_loop().                                                     *)
WorkerPops ==
  /\ worker = "popping" /\ Fifo!Take
  /\ worker' = "writing"
  /\ UNCHANGED <<initialized, thr, main, log, disk, written, logged, counts>>

WorkerWrites ==
  /\ worker = "writing"
  /\ WriteMessage(taken[Len(taken)])
  /\ worker' = "popping"
  /\ UNCHANGED <<pool, initialized, thr, main, logged, date, kills>>

PopEndsWhenEmpty == queue = <<>>                        \* does not wait
PopEnds == closed

WorkerRefused ==
  /\ worker = "popping" /\ PopEnds
  /\ worker' = "flushing"
  /\ UNCHANGED <<pool, initialized, thr, main, log, disk, written, logged, counts>>

WorkerFlushes ==
  /\ worker = "flushing"
  /\ LET L == FlushUnlocked([log |-> log, disk |-> disk]) IN log' = L.log /\ disk' = L.disk
  /\ worker' = "exited"
  /\ UNCHANGED <<pool, initialized, thr, main, written, logged, counts>>

(* stop(): close the queue, join the worker, close the file.               *)
StopCloses ==
  /\ main = "up" /\ initialized
  /\ Fifo!Shut
  /\ main' = "joining"
  /\ UNCHANGED <<initialized, thr, worker, log, disk, written, logged, counts>>

NotJoined == TRUE                                       \* join forgotten
Joined == worker = "exited"

StopClosesFile ==
  /\ main = "joining" /\ Joined
  /\ LET L == CloseLogFile([log |-> log, disk |-> disk]) IN log' = L.log /\ disk' = L.disk
  /\ main' = "closed"
  /\ UNCHANGED <<pool, initialized, thr, worker, written, logged, counts>>

StopReturns ==
  /\ main = "closed"
  /\ initialized' = FALSE /\ main' = "stopped"
  /\ UNCHANGED <<pool, thr, worker, log, disk, written, logged, counts>>

-----------------------------------------------------------------------------
(* The date is the system clock's, which can be set.                       *)
DateChanges ==
  /\ \E day \in 0..MaxDay \ {today} :
       today' = day /\ setBack' = (setBack \/ day < today)
  /\ UNCHANGED <<pool, initialized, thr, worker, main, log, disk, written, logged, failures,
                 kills>>

(* The process is killed: of what the stream buffers, a part may have gone *)
(* to the file.                                                            *)
Kill ==
  /\ kills < MaxKills /\ kills' = kills + 1
  /\ queue' = <<>> /\ taken' = <<>> /\ closed' = FALSE
  /\ initialized' = FALSE /\ worker' = "exited" /\ main' = "init"
  /\ thr' = [p \in Thread |-> [at |-> "idle", n |-> thr[p].n, msg |-> <<>>]]
  /\ log' = NoLog /\ logged' = {} /\ setBack' = FALSE
  /\ \E k \in 0..Len(log.buf) :
       disk' = [disk EXCEPT ![<<log.date, log.index>>] = @ \o SubSeq(log.buf, 1, k)]
  /\ UNCHANGED <<written, today, failures>>

Caller(p) == PushAccepted(p) \/ PushRefused(p) \/ WriteItself(p)
Worker == WorkerPops \/ WorkerWrites \/ WorkerRefused \/ WorkerFlushes
Stopping == StopClosesFile \/ StopReturns

Next ==
  \/ InitLogger \/ StopCloses \/ Stopping
  \/ \E p \in Thread : (\E e \in BOOLEAN : Log(p, e)) \/ Caller(p)
  \/ Worker
  \/ DateChanges \/ Kill

Spec == Init /\ [][Next]_vars

(* Threads that are inside the logger keep running and get its mutexes.    *)
FairSpec ==
  /\ Spec
  /\ \A p \in Thread : WF_vars(Caller(p))
  /\ WF_vars(Worker) /\ WF_vars(Stopping)

-----------------------------------------------------------------------------
(* Types; the stream buffers only what it counts as pending, and nothing   *)
(* when no file is open.                                                   *)
Logs ==
  [open : BOOLEAN, date : 0..MaxDay, index : 0..MaxIndex, size : Nat, missed : Nat,
   buf : Seq(Message), pending : Nat]

Buffered(l) ==
  /\ Len(l.buf) <= l.pending
  /\ l.pending < FlushEvery \/ l.buf = <<>>
  /\ l.open \/ l.buf = <<>>

Callers ==
  [at : {"idle"}, n : 0..MaxLog, msg : {<<>>}]
    \cup [at : {"push", "write"}, n : 0..MaxLog, msg : Message]

TypeOK ==
  /\ queue \in Seq(Message) /\ Len(queue) <= Capacity /\ taken \in Seq(Message)
  /\ closed \in BOOLEAN /\ initialized \in BOOLEAN
  /\ thr \in [Thread -> Callers]
  /\ worker \in {"popping", "writing", "flushing", "exited"}
  /\ worker = "writing" => taken # <<>>
  /\ main \in {"init", "up", "joining", "closed", "stopped"}
  /\ log \in Logs /\ Buffered(log)
  /\ disk \in [File -> Seq(Message)]
  /\ written \subseteq Message /\ logged \subseteq Message
  /\ today \in 0..MaxDay /\ setBack \in BOOLEAN /\ failures \in 0..MaxFailures /\ kills \in 0..MaxKills

Content(f) == IF log.open /\ <<log.date, log.index>> = f THEN disk[f] \o log.buf ELSE disk[f]

(* The size the logger decides rotation by is the size of the file, less   *)
(* what the file held if its size could not be read when it was opened.    *)
SizeIsTrue ==
  log.open => log.size + log.missed = SumOf(Content(<<log.date, log.index>>))

(* The file that is open passes max_file_size only by what could not be    *)
(* read of its size, or by the message it was opened for, which is written *)
(* without looking at the size again.                                      *)
OverLimitOnlyByRotation ==
  [][\A f \in File :
       (/\ log.open /\ <<log.date, log.index>> = f
        /\ Content(f)' # Content(f) /\ kills' = kills)
         => SumOf(Content(f)') <= MaxFileSize + log.missed]_vars

(* A message of level error that was written survives a kill.              *)
OnDisk(m) == \E f \in File : \E i \in DOMAIN disk[f] : disk[f][i] = m
ErrorsReachDisk == \A m \in written : m.error => OnDisk(m)

(* Within a run, until stop() closes the queue and unless the date is set  *)
(* back, what a thread logs appears once and in its order, from file to    *)
(* file.                                                                   *)
Precedes(f, i, g, j) ==
  \/ f[1] < g[1]
  \/ f[1] = g[1] /\ f[2] < g[2]
  \/ f = g /\ i < j
InOrder ==
  ~closed /\ ~setBack =>
    \A f, g \in File : \A i \in DOMAIN Content(f), j \in DOMAIN Content(g) :
      LET a == Content(f)[i]  b == Content(g)[j]
      IN  (a.by = b.by /\ a.run = kills /\ b.run = kills /\ Precedes(f, i, g, j)) => a.n < b.n

(* Where a message of this run can be: in a file or its stream, in the     *)
(* worker's hands, queued, or with the thread that logs it.                *)
Has(s, x) == \E i \in 1..Len(s) : s[i] = x

Filed == {m \in Message : \E f \in File : Has(Content(f), m)}
InHand == {m \in Message : worker = "writing" /\ m = taken[Len(taken)]}
Queued == {m \in Message : Has(queue, m)}
Called == {m \in Message : \E p \in Thread : thr[p].at # "idle" /\ thr[p].msg = m}

Lost == logged \ (Filed \cup InHand \cup Queued \cup Called)

(* While files open, a message is lost only because it came too late: the  *)
(* queue refused it, and stop() had closed the file before its thread      *)
(* wrote it.  None that the worker took is lost, and when stop() has       *)
(* closed the file they are all on disk.  (What is queued when stop()      *)
(* closes the queue stays there, unwritten.)                               *)
StopLosesOnlyTheLate ==
  failures = 0 =>
    /\ Lost # {} => main \in {"closed", "stopped"}
    /\ \A i \in 1..Len(taken) : taken[i] \notin Lost
    /\ main \in {"closed", "stopped"} => \A i \in 1..Len(taken) : OnDisk(taken[i])

(* What was queued is written unless the queue is closed, a file could not *)
(* be opened or the process was killed.                                    *)
QueuedIsWritten ==
  \A p \in Thread, n \in 0..(MaxLog - 1) :
    (\E i \in DOMAIN queue : queue[i].by = p /\ queue[i].n = n)
      ~> \/ \E m \in written : m.by = p /\ m.n = n
         \/ closed \/ failures > 0 \/ kills > 0
=============================================================================
