--------------------------- MODULE WebServerProofs ----------------------------
(***************************************************************************)
(* Safety of the reactor for any number of clients, descriptors and        *)
(* workers, any queue capacity and any request and response sizes.         *)
(***************************************************************************)
EXTENDS WebServer, FiniteSetTheorems, TLAPS

(* What the operations of a connection return is a connection, on the      *)
(* same descriptor.                                                        *)
LEMMA OpenedType ==
  ASSUME NEW f \in Fd
  PROVE  Opened(f) \in ConnObject /\ Opened(f).fd = f
BY DEF Opened, Unused, ConnObject

(* The operations of a connection object return connection objects.        *)
LEMMA ReleasedType ==
  ASSUME NEW c \in ConnObject
  PROVE  Released(c) \in ConnObject /\ Released(c).fd = NoFd
BY DEF Released, ConnObject

(* A rewound object keeps its descriptor.                                  *)
LEMMA RewoundType ==
  ASSUME NEW c \in ConnObject
  PROVE  Rewound(c) \in ConnObject /\ Rewound(c).fd = c.fd
BY DEF Rewound, Opened, Unused, ConnObject

(* So does one that has read, and it has read no more than there was.      *)
LEMMA AfterReadType ==
  ASSUME NEW c \in ConnObject, NEW n \in Nat
  PROVE  /\ AfterRead(c, n) \in ConnObject
         /\ AfterRead(c, n).fd = c.fd
         /\ c.got + n - AfterRead(c, n).got \in Nat
BY ConnectionAssumption DEF AfterRead, Filled, ConnObject

(* So does one whose input was looked at.                                  *)
LEMMA ClearedType ==
  ASSUME NEW c \in ConnObject
  PROVE  Cleared(c) \in ConnObject /\ Cleared(c).fd = c.fd
BY DEF Cleared, ConnObject

(* So does one after process().                                            *)
LEMMA ProcessType ==
  ASSUME NEW c \in ConnObject, NEW p \in Process(c)
  PROVE  p.conn \in ConnObject /\ p.conn.fd = c.fd /\ p.ready \in BOOLEAN
<1> DEFINE d == Cleared(c)
<1>1. d \in ConnObject /\ d.fd = c.fd
  BY ClearedType
<1>2. CASE p \in Incomplete(c)
  <2>1. p = [conn |-> d, ready |-> FALSE]
    BY <1>2 DEF Incomplete
  <2> HIDE DEF d
  <2> QED  BY <1>1, <2>1
<1>3. CASE p \in BadRequest(c)
  <2>1. p = [conn |-> [d EXCEPT !.keepAlive = FALSE, !.toSend = 1],
             ready |-> TRUE]
    BY <1>3 DEF BadRequest
  <2> HIDE DEF d
  <2> QED  BY <1>1, <2>1 DEF ConnObject
<1>4. CASE p \in Unanswered(c)
  <2>1. PICK k \in BOOLEAN : p = [conn |-> [d EXCEPT !.keepAlive = k], ready |-> FALSE]
    BY <1>4 DEF Unanswered
  <2> HIDE DEF d
  <2> QED  BY <1>1, <2>1 DEF ConnObject
<1>5. CASE p \in Answered(c)
  <2>1. PICK k \in BOOLEAN, n \in 1..MaxResp :
          p = [conn |-> [d EXCEPT !.keepAlive = k, !.toSend = n], ready |-> TRUE]
    BY <1>5 DEF Answered
  <2>2. n \in Nat
    BY ConnectionAssumption
  <2> HIDE DEF d
  <2> QED  BY <1>1, <2>1, <2>2 DEF ConnObject
<1> QED  BY <1>2, <1>3, <1>4, <1>5 DEF Process

(* So does one after write().                                              *)
LEMMA WriteType ==
  ASSUME NEW c \in ConnObject, NEW room \in BOOLEAN, NEW ps,
         NEW w \in Write(c, room, ps)
  PROVE  /\ w.conn \in ConnObject /\ w.conn.fd = c.fd
         /\ w.res \in {"DONE", "AGAIN", "ERROR"} /\ w.room \in BOOLEAN
<1>1. ASSUME NEW n \in 1..c.toSend
      PROVE  Sent(c, n) \in ConnObject /\ Sent(c, n).fd = c.fd
  <2>1. c.toSend - n \in Nat /\ c.haveSent + n \in Nat
    BY DEF ConnObject
  <2> QED  BY <2>1 DEF Sent, ConnObject
<1>2. CASE c.toSend = 0
  BY <1>2 DEF Write
<1>3. CASE c.toSend # 0 /\ ps = "rst"
  BY <1>3 DEF Write
<1>4. CASE c.toSend # 0 /\ ps # "rst" /\ ~room
  <2>1. w = [conn |-> c, res |-> "AGAIN", room |-> FALSE]
    BY <1>4, Zenon DEF Write
  <2>2. w.conn = c /\ w.res = "AGAIN" /\ w.room = FALSE
    BY <2>1
  <2> QED  BY <2>2, Zenon
<1>5. CASE c.toSend # 0 /\ ps # "rst" /\ room
  <2>1. c.toSend \in 1..c.toSend /\ 1..(c.toSend - 1) \subseteq 1..c.toSend
    BY <1>5 DEF ConnObject
  <2>2. CASE w \in {[conn |-> Sent(c, c.toSend), res |-> "DONE", room |-> r] : r \in BOOLEAN}
    <3>1. PICK r \in BOOLEAN : w = [conn |-> Sent(c, c.toSend), res |-> "DONE", room |-> r]
      BY <2>2
    <3> QED  BY <1>1, <2>1, <3>1
  <2>3. CASE w \in {[conn |-> Sent(c, n), res |-> "AGAIN", room |-> FALSE] :
                      n \in 1..(c.toSend - 1)}
    <3>1. PICK n \in 1..(c.toSend - 1) :
             w = [conn |-> Sent(c, n), res |-> "AGAIN", room |-> FALSE]
      BY <2>3
    <3>2. Sent(c, n) \in ConnObject /\ Sent(c, n).fd = c.fd
      BY <1>1, <2>1
    <3> QED  BY <3>1, <3>2
  <2> QED  BY <1>5, <2>2, <2>3, Zenon DEF Write
<1> QED  BY <1>2, <1>3, <1>4, <1>5

-----------------------------------------------------------------------------
(* The invariants that hold each other up.                                 *)
Tables == TypeOK /\ TablesAgree /\ Bookkeeping /\ MarkedIffDeaf /\ NoEventWhileMarked

(* The initial state has the loop's tables in order.                       *)
LEMMA InitTables == Init => Tables
<1> SUFFICES ASSUME Init PROVE Tables
  OBVIOUS
<1> USE ConnectionAssumption, WebServerAssumption DEF Init
<1>1. Unused \in ConnObject /\ Unused.fd = NoFd
  BY DEF Unused, ConnObject
<1>2. TypeOK
  <2>1. Idle \in WorkerState
    BY DEF Idle, WorkerState
  <2>2. wk \in [Worker -> WorkerState] /\ conn \in [Conn -> ConnObject]
    BY <1>1, <2>1
  <2>3. local \in Seq(Result) /\ tasks \in Seq(Task) /\ completed \in Seq(Result)
    OBVIOUS
  <2>4. pc \in PCs
    BY DEF PCs
  <2> QED  BY <2>2, <2>3, <2>4 DEF TypeOK
<1>3. TablesAgree
  BY <1>1 DEF TablesAgree, Midway
<1>4. Bookkeeping
  BY <1>1 DEF Bookkeeping, Held, Idle
<1>5. MarkedIffDeaf /\ NoEventWhileMarked
  BY DEF MarkedIffDeaf, NoEventWhileMarked, kProcessEvent
<1> QED  BY <1>2, <1>3, <1>4, <1>5 DEF Tables

-----------------------------------------------------------------------------
(* Closing a connection leaves every variable it changes with its type.    *)
LEMMA CloseConnType ==
  ASSUME TypeOK, NEW fd \in Fd, CloseConn(fd)
  PROVE  /\ interest' \in [Fd -> SUBSET {"IN", "OUT", "HUP"}]
         /\ rdl' \in SUBSET (Fd \cup {ServerFd, WakeupFd})
         /\ processing' \in SUBSET Fd /\ timer' \in SUBSET Fd /\ expired' \in SUBSET Fd
         /\ conn' \in [Conn -> ConnObject]
         /\ sock' \in [Fd -> Conn \cup {NoConn}]
         /\ user' \in [Fd -> Conn \cup {NoConn}]
         /\ peer' \in [Conn -> {"idle", "open", "fin", "rst", "gone"}]
         /\ inb' \in [Conn -> Nat]
<1>1. conn' \in [Conn -> ConnObject]
  BY ReleasedType DEF CloseConn, TypeOK
<1>2. sock' \in [Fd -> Conn \cup {NoConn}]
  BY DEF CloseConn, TypeOK
<1>3. peer' \in [Conn -> {"idle", "open", "fin", "rst", "gone"}] /\ inb' \in [Conn -> Nat]
  BY DEF CloseConn, TypeOK
<1> QED  BY <1>1, <1>2, <1>3 DEF CloseConn, TypeOK, Disarmed, Unmarked

(* Epoller's MOD keeps masks and the ready list well typed.                *)
LEMMA ModFdType ==
  ASSUME TypeOK, NEW fd \in Fd, NEW mask \in SUBSET {"IN", "OUT", "HUP"}, ModFd(fd, mask)
  PROVE  /\ interest' \in [Fd -> SUBSET {"IN", "OUT", "HUP"}]
         /\ rdl' \in SUBSET (Fd \cup {ServerFd, WakeupFd})
<1>1. CASE Registered(fd)
  <2>1. interest' = [interest EXCEPT ![fd] = mask] /\ rdl' = Rearmed(sock[fd], fd, mask)
    BY <1>1 DEF ModFd
  <2> QED  BY <2>1 DEF Rearmed, TypeOK
<1>2. CASE ~Registered(fd)
  BY <1>2 DEF ModFd, TypeOK
<1> QED  BY <1>1, <1>2

(* Every step preserves the types.                                         *)
LEMMA TypeStep ==
  ASSUME Tables, [Next]_vars
  PROVE  TypeOK'
<1> USE ConnectionAssumption, WebServerAssumption DEF Tables
<1> USE DEF clientVars, kernelVars, loopVars, tableVars, poolVars, history
<1>1. CASE UNCHANGED vars
  BY <1>1 DEF TypeOK, vars
<1>2. ASSUME NEW c \in Conn, Connect(c) PROVE TypeOK'
  BY <1>2 DEF TypeOK, Connect
<1>3. ASSUME NEW c \in Conn, SendSegment(c) PROVE TypeOK'
  BY <1>3 DEF TypeOK, SendSegment, Edge, FdsOf
<1>4. ASSUME NEW c \in Conn, Drain(c) PROVE TypeOK'
  BY <1>4 DEF TypeOK, Drain, Edge, FdsOf
<1>5. ASSUME NEW c \in Conn, NEW how \in {"fin", "rst"}, HangUp(c, how) PROVE TypeOK'
  BY <1>5 DEF TypeOK, HangUp, Edge, FdsOf
<1>6. ASSUME NEW fd \in Fd, Expire(fd) PROVE TypeOK'
  BY <1>6 DEF TypeOK, Expire
<1>7. ASSUME NEW fd \in Fd, CloseExpired(fd) PROVE TypeOK'
  BY <1>7, CloseConnType DEF TypeOK, CloseExpired, CloseConn
<1>8. CASE TickDone
  BY <1>8 DEF TypeOK, TickDone, PCs
<1>9. CASE EpollWait
  <2>1. Reported \subseteq Event
    BY DEF Reported, Event, TypeOK
  <2> QED  BY <1>9, <2>1 DEF TypeOK, EpollWait, PCs
<1>10. CASE DispatchDone
  BY <1>10 DEF TypeOK, DispatchDone, PCs
<1>11. ASSUME NEW e \in batch, SkipEvent(e) PROVE TypeOK'
  BY <1>11 DEF TypeOK, SkipEvent, Taken
<1>12. ASSUME NEW e \in batch, CloseOnHangUp(e) PROVE TypeOK'
  <2>1. e.fd \in Fd /\ CloseConn(e.fd) /\ user[e.fd] \in Conn
    BY <1>12 DEF CloseOnHangUp, TypeOK
  <2>2. mixed' \in SUBSET Conn /\ batch' \in SUBSET Event
    BY <1>12, <2>1 DEF CloseOnHangUp, Mix, Taken, TypeOK
  <2> DEFINE fd == e.fd
  <2> HIDE DEF fd
  <2>3. fd \in Fd /\ CloseConn(fd)
    BY <2>1 DEF fd
  <2>4. UNCHANGED <<pc, cur, local, stranded>>
    BY <1>12 DEF CloseOnHangUp
  <2> QED  BY <2>2, <2>3, <2>4, CloseConnType DEF TypeOK, CloseConn
<1>13. ASSUME NEW e \in batch, HandleListen(e) PROVE TypeOK'
  BY <1>13 DEF TypeOK, HandleListen, Taken, PCs
<1>14. ASSUME NEW e \in batch, HandleRead(e) PROVE TypeOK'
  <2> DEFINE c == user[e.fd]
  <2>1. e.fd \in Fd /\ c \in Conn /\ Mix(e.fd, e.conn)
    BY <1>14 DEF HandleRead, TypeOK
  <2>2. conn' \in [Conn -> ConnObject] /\ inb' \in [Conn -> Nat]
    BY <1>14, <2>1, AfterReadType DEF HandleRead, TypeOK
  <2>3. mixed' \in SUBSET Conn /\ batch' \in SUBSET Event
    BY <1>14, <2>1 DEF HandleRead, Mix, Taken, TypeOK
  <2>4. /\ interest' \in [Fd -> SUBSET {"IN", "OUT", "HUP"}]
        /\ rdl' \in SUBSET (Fd \cup {ServerFd, WakeupFd})
        /\ processing' \in SUBSET Fd /\ pc' \in PCs /\ cur' \in Fd \cup {NoFd}
    <3>1. kProcessEvent \in SUBSET {"IN", "OUT", "HUP"}
      BY DEF kProcessEvent
    <3>2. CASE ReadResult(conn[c], inb[c], peer[c]) # "DONE"
      BY <1>14, <2>1, <3>2 DEF HandleRead, TypeOK, PCs, Taken
    <3>3. CASE ReadResult(conn[c], inb[c], peer[c]) = "DONE" /\ e.fd \in processing
      BY <1>14, <2>1, <3>3 DEF HandleRead, TypeOK, PCs, Taken
    <3>4. CASE ReadResult(conn[c], inb[c], peer[c]) = "DONE" /\ e.fd \notin processing
      <4>1. /\ cur' = e.fd /\ ModFd(e.fd, kProcessEvent)
            /\ processing' = IF Registered(e.fd) THEN processing \cup {e.fd}
                                                  ELSE processing \ {e.fd}
            /\ pc' = IF Registered(e.fd) THEN "enqueue" ELSE "close"
        BY <1>14, <3>4 DEF HandleRead
      <4> QED  BY <2>1, <3>1, <4>1, ModFdType DEF TypeOK, PCs
    <3> QED  BY <3>2, <3>3, <3>4
  <2> QED  BY <1>14, <2>2, <2>3, <2>4 DEF TypeOK, HandleRead
<1>15. ASSUME NEW e \in batch, HandleWrite(e) PROVE TypeOK'
  BY <1>15, WriteType DEF TypeOK, HandleWrite, Taken, Mix, PCs
<1>16. ASSUME NEW e \in batch, DrainWakeup(e) PROVE TypeOK'
  BY <1>16 DEF TypeOK, DrainWakeup, Taken, PCs
<1>17. ASSUME NEW c \in Conn, NEW fd \in Fd, AcceptOne(c, fd) PROVE TypeOK'
  BY <1>17, OpenedType DEF TypeOK, AcceptOne, Armed, MoreToAccept, PCs, Rearmed, kReadEvent
<1>18. ASSUME NEW c \in Conn, NEW fd \in Fd, AcceptNotAdded(c, fd) PROVE TypeOK'
  BY <1>18 DEF TypeOK, AcceptNotAdded
<1>19. CASE AcceptFails
  BY <1>19 DEF TypeOK, AcceptFails, PCs
<1>20. CASE AcceptDone
  BY <1>20 DEF TypeOK, AcceptDone, PCs
<1>21. CASE Enqueue
  BY <1>21 DEF TypeOK, Enqueue, PCs, TablesAgree, Midway, Task
<1>22. CASE CloseCurrent
  BY <1>22, CloseConnType DEF TypeOK, CloseCurrent, CloseConn, PCs, TablesAgree, Midway
<1>23. CASE CheckKeepAlive
  BY <1>23 DEF TypeOK, CheckKeepAlive, PCs
<1>24. CASE ResetAndRead
  <2>1. cur \in Fd /\ user[cur] \in Conn
    BY <1>24 DEF TypeOK, ResetAndRead, TablesAgree, Midway
  <2>2. conn' \in [Conn -> ConnObject]
    BY <1>24, <2>1, RewoundType DEF TypeOK, ResetAndRead
  <2>3. ModFd(cur, kReadEvent) /\ kReadEvent \in SUBSET {"IN", "OUT", "HUP"}
    BY <1>24 DEF ResetAndRead, kReadEvent
  <2>4. /\ interest' \in [Fd -> SUBSET {"IN", "OUT", "HUP"}]
        /\ rdl' \in SUBSET (Fd \cup {ServerFd, WakeupFd})
    BY <2>1, <2>3, ModFdType
  <2> QED  BY <1>24, <2>1, <2>2, <2>4 DEF TypeOK, ResetAndRead, PCs
<1>25. CASE SwapResults
  BY <1>25 DEF TypeOK, SwapResults, PCs
<1>26. CASE ApplyResult
  <2> DEFINE r == Head(local)
             mask == IF r.ready THEN kWriteEvent ELSE kReadEvent
  <2>1. r \in Result /\ local' \in Seq(Result)
    BY <1>26 DEF TypeOK, ApplyResult
  <2>2. r.fd \in Fd /\ mask \in SUBSET {"IN", "OUT", "HUP"}
    BY <2>1 DEF Result, kReadEvent, kWriteEvent
  <2>3. /\ interest' \in [Fd -> SUBSET {"IN", "OUT", "HUP"}]
        /\ rdl' \in SUBSET (Fd \cup {ServerFd, WakeupFd}) /\ mixed' \in SUBSET Conn
    <3>1. CASE user[r.fd] # NoConn
      <4>1. ModFd(r.fd, mask) /\ Mix(r.fd, r.conn)
        BY <1>26, <3>1 DEF ApplyResult
      <4>2. mixed' \in SUBSET Conn
        BY <2>2, <3>1, <4>1 DEF Mix, TypeOK
      <4> HIDE DEF r, mask
      <4> QED  BY <2>2, <4>1, <4>2, ModFdType
    <3>2. CASE user[r.fd] = NoConn
      BY <1>26, <3>2 DEF ApplyResult, TypeOK
    <3> QED  BY <3>1, <3>2
  <2>4. /\ processing' \in SUBSET Fd /\ expired' \in SUBSET Fd /\ pc' \in PCs
        /\ cur' \in Fd \cup {NoFd}
    BY <1>26, <2>2 DEF ApplyResult, TypeOK, Unmarked, PCs
  <2> QED  BY <1>26, <2>1, <2>3, <2>4 DEF TypeOK, ApplyResult
<1>27. CASE ResultsDone
  BY <1>27 DEF TypeOK, ResultsDone, PCs
<1>28. ASSUME NEW w \in Worker, Pop(w) PROVE TypeOK'
  <2>1. Head(tasks) \in Task /\ tasks' \in Seq(Task)
    BY <1>28 DEF TypeOK, Pop
  <2>2. wk' \in [Worker -> WorkerState]
    BY <1>28, <2>1 DEF TypeOK, Pop, Task, WorkerState
  <2> QED  BY <1>28, <2>1, <2>2 DEF TypeOK, Pop
<1>29. ASSUME NEW w \in Worker, BeginProcess(w) PROVE TypeOK'
  <2>1. [wk[w] EXCEPT !.st = "processing"] \in WorkerState
    <3>1. wk[w] \in WorkerState
      BY DEF TypeOK
    <3> QED  BY <3>1 DEF WorkerState
  <2>2. wk' = [wk EXCEPT ![w] = [wk[w] EXCEPT !.st = "processing"]]
    BY <1>29 DEF BeginProcess
  <2>3. wk' \in [Worker -> WorkerState]
    BY <2>1, <2>2 DEF TypeOK
  <2> QED  BY <1>29, <2>3 DEF TypeOK, BeginProcess
<1>30. ASSUME NEW w \in Worker, EndProcess(w) PROVE TypeOK'
  <2>1. wk[w].conn \in Conn /\ wk[w] \in WorkerState
    BY <1>30 DEF TypeOK, EndProcess, Bookkeeping, Held
  <2>2. PICK p \in Process(conn[wk[w].conn]) :
          /\ conn' = [conn EXCEPT ![wk[w].conn] = p.conn]
          /\ wk' = [wk EXCEPT ![w] = [wk[w] EXCEPT !.st = "processed", !.ready = p.ready]]
          /\ mtx' = Unlock(w, p.ready)
    BY <1>30 DEF EndProcess
  <2>3. p.conn \in ConnObject /\ p.ready \in BOOLEAN
    BY <2>1, ProcessType DEF TypeOK
  <2>4. [wk[w] EXCEPT !.st = "processed", !.ready = p.ready] \in WorkerState
    BY <2>1, <2>3 DEF WorkerState
  <2>5. conn' \in [Conn -> ConnObject] /\ wk' \in [Worker -> WorkerState]
    BY <2>1, <2>2, <2>3, <2>4 DEF TypeOK
  <2>6. mtx' \in [Conn -> Worker \cup {NoWorker}]
    BY <2>1, <2>2 DEF TypeOK, Unlock
  <2> QED  BY <1>30, <2>5, <2>6 DEF TypeOK, EndProcess
<1>31. ASSUME NEW w \in Worker, PushResult(w) PROVE TypeOK'
  <2>1. wk[w].fd \in Fd /\ wk[w].conn \in Conn /\ wk[w].ready \in BOOLEAN
    BY <1>31 DEF TypeOK, PushResult, Bookkeeping, Held, WorkerState
  <2>2. completed' \in Seq(Result)
    <3>1. [fd |-> wk[w].fd, conn |-> wk[w].conn, ready |-> wk[w].ready] \in Result
      BY <2>1 DEF Result
    <3> QED  BY <1>31, <3>1 DEF TypeOK, PushResult
  <2>3. wk' \in [Worker -> WorkerState]
    BY <1>31 DEF TypeOK, PushResult, Idle, WorkerState
  <2> QED  BY <1>31, <2>2, <2>3 DEF TypeOK, PushResult
<1>32. ASSUME NEW w \in Worker, WriteWakeup(w) PROVE TypeOK'
  BY <1>32 DEF TypeOK, WriteWakeup, Idle, WorkerState
<1> QED
  BY <1>1, <1>2, <1>3, <1>4, <1>5, <1>6, <1>7, <1>8, <1>9, <1>10, <1>11, <1>12, <1>13, <1>14,
     <1>15, <1>16, <1>17, <1>18, <1>19, <1>20, <1>21, <1>22, <1>23, <1>24, <1>25, <1>26, <1>27,
     <1>28, <1>29, <1>30, <1>31, <1>32 DEF Next, Client, Loop, Pool

-----------------------------------------------------------------------------
(* Closing a number that has an entry closes exactly that number.          *)
LEMMA CloseConnTables ==
  ASSUME TypeOK, TablesAgree, NEW fd \in Fd, user[fd] # NoConn, CloseConn(fd),
         pc' \notin Midway
  PROVE  TablesAgree'
<1> DEFINE c == user[fd]
<1> USE ConnectionAssumption, WebServerAssumption
<1>1. c \in Conn /\ conn[c].fd = fd /\ ClosedNumber(fd) = fd
  BY DEF TypeOK, TablesAgree, ClosedNumber
<1>2. /\ interest' = [interest EXCEPT ![fd] = {}]
      /\ conn' = [k \in Conn |-> IF k = c THEN Released(conn[k]) ELSE conn[k]]
      /\ sock' = [f \in Fd |-> IF f = fd THEN NoConn ELSE sock[f]]
      /\ user' = [user EXCEPT ![fd] = NoConn]
      /\ timer' = timer \ {fd}
      /\ expired' = expired \ {fd}
  BY <1>1 DEF CloseConn, Disarmed
<1>3. \A k \in Conn : conn'[k].fd = IF k = c THEN NoFd ELSE conn[k].fd
  BY <1>2, ReleasedType DEF TypeOK
<1>4. \A f \in Fd : user'[f] = IF f = fd THEN NoConn ELSE user[f]
  BY <1>2 DEF TypeOK
<1>5. \A f \in Fd : user[f] = c => f = fd
  BY <1>1 DEF TablesAgree
<1> HIDE DEF c
<1>6. ASSUME NEW f \in Fd
      PROVE  /\ user'[f] = sock'[f]
             /\ user'[f] # NoConn => conn'[user'[f]].fd = f
             /\ f \in timer' <=> user'[f] # NoConn
             /\ interest'[f] # {} <=> user'[f] # NoConn
  <2>1. CASE f = fd
    BY <1>2, <1>4, <2>1 DEF TypeOK
  <2>2. CASE f # fd
    <3>1. /\ user'[f] = user[f] /\ sock'[f] = sock[f] /\ interest'[f] = interest[f]
          /\ f \in timer' <=> f \in timer
      BY <1>2, <1>4, <2>2 DEF TypeOK
    <3>2. user[f] # NoConn => user[f] \in Conn /\ user[f] # c
      BY <1>5, <2>2 DEF TypeOK
    <3> QED  BY <1>3, <3>1, <3>2 DEF TablesAgree
  <2> QED  BY <2>1, <2>2
<1>7. ASSUME NEW k \in Conn, conn'[k].fd # NoFd
      PROVE  user'[conn'[k].fd] = k
  <2>1. k # c /\ conn'[k].fd = conn[k].fd /\ conn[k].fd \in Fd
    BY <1>3, <1>7 DEF TypeOK, ConnObject
  <2>2. user[conn[k].fd] = k
    BY <1>7, <2>1 DEF TablesAgree
  <2>3. conn[k].fd # fd
    BY <2>1, <2>2 DEF c
  <2> QED  BY <1>4, <2>1, <2>2, <2>3
<1>8. expired' \subseteq timer'
  BY <1>2 DEF TablesAgree
<1> QED  BY <1>6, <1>7, <1>8 DEF TablesAgree

(* A step that changes objects, masks and expiry without opening or        *)
(* closing anything.                                                       *)
LEMMA SameTables ==
  ASSUME TypeOK, TablesAgree, UNCHANGED <<user, sock, timer>>, expired' \subseteq timer,
         \A c \in Conn : conn'[c].fd = conn[c].fd,
         \A f \in Fd : interest'[f] # {} <=> interest[f] # {},
         pc' \in Midway => cur' \in Fd /\ user[cur'] # NoConn
  PROVE  TablesAgree'
<1>1. \A f \in Fd : user[f] \in Conn \cup {NoConn}
  BY DEF TypeOK
<1> QED  BY <1>1 DEF TablesAgree

(* Epoller's MOD leaves the tables in agreement.                           *)
LEMMA ModFdTables ==
  ASSUME TypeOK, NEW fd \in Fd, NEW mask, mask # {}, ModFd(fd, mask)
  PROVE  \A f \in Fd : interest'[f] # {} <=> interest[f] # {}
BY DEF TypeOK, ModFd, Registered

(* The tables keep agreeing.                                               *)
LEMMA TablesStep ==
  ASSUME Tables, [Next]_vars
  PROVE  TablesAgree'
<1> USE ConnectionAssumption, WebServerAssumption DEF Tables
<1> USE DEF clientVars, kernelVars, loopVars, tableVars, poolVars, history
<1>1. CASE UNCHANGED vars
  BY <1>1 DEF TablesAgree, vars
<1>2. ASSUME NEW c \in Conn,
             Connect(c) \/ SendSegment(c) \/ Drain(c) \/ \E how \in {"fin", "rst"} : HangUp(c, how)
      PROVE  TablesAgree'
  BY <1>2 DEF TablesAgree, Connect, SendSegment, Drain, HangUp
<1>3. ASSUME NEW fd \in Fd, Expire(fd) PROVE TablesAgree'
  BY <1>3 DEF TablesAgree, Expire
<1>4. ASSUME NEW fd \in Fd, CloseExpired(fd) PROVE TablesAgree'
  <2>1. user[fd] # NoConn /\ pc' \notin Midway /\ CloseConn(fd)
    BY <1>4 DEF CloseExpired, TablesAgree, Midway
  <2> QED  BY <2>1, CloseConnTables
<1>5. CASE TickDone \/ EpollWait \/ DispatchDone
  BY <1>5 DEF TablesAgree, TickDone, EpollWait, DispatchDone, Midway
<1>6. ASSUME NEW e \in batch, SkipEvent(e) \/ HandleListen(e) \/ DrainWakeup(e) PROVE TablesAgree'
  BY <1>6 DEF TablesAgree, SkipEvent, HandleListen, DrainWakeup, Taken, Midway
<1>7. ASSUME NEW e \in batch, CloseOnHangUp(e) PROVE TablesAgree'
  <2>1. e.fd \in Fd /\ user[e.fd] # NoConn /\ pc' \notin Midway /\ CloseConn(e.fd)
    BY <1>7 DEF CloseOnHangUp, Taken, Midway
  <2> QED  BY <2>1, CloseConnTables
<1>8. ASSUME NEW e \in batch, HandleRead(e) PROVE TablesAgree'
  <2> DEFINE c == user[e.fd]
  <2>1. /\ e.fd \in Fd /\ c \in Conn /\ c # NoConn /\ pc = "dispatch"
        /\ UNCHANGED <<user, sock, timer, expired>>
    BY <1>8 DEF HandleRead, TypeOK, Taken
  <2>2. \A k \in Conn : conn'[k].fd = conn[k].fd
    <3>1. conn' = [conn EXCEPT ![c] = AfterRead(conn[c], inb[c])]
      BY <1>8 DEF HandleRead
    <3>2. conn \in [Conn -> ConnObject] /\ inb[c] \in Nat
      BY <2>1 DEF TypeOK
    <3>3. AfterRead(conn[c], inb[c]).fd = conn[c].fd
      BY <2>1, <3>2, AfterReadType
    <3> QED  BY <2>1, <3>1, <3>2, <3>3
  <2>3. /\ \A f \in Fd : interest'[f] # {} <=> interest[f] # {}
        /\ pc' \in Midway => cur' = e.fd
    <3>1. CASE ReadResult(conn[c], inb[c], peer[c]) # "DONE"
      BY <1>8, <3>1 DEF HandleRead
    <3>2. CASE ReadResult(conn[c], inb[c], peer[c]) = "DONE" /\ e.fd \in processing
      BY <1>8, <2>1, <3>2 DEF HandleRead, Midway
    <3>3. CASE ReadResult(conn[c], inb[c], peer[c]) = "DONE" /\ e.fd \notin processing
      <4>1. cur' = e.fd /\ ModFd(e.fd, kProcessEvent) /\ kProcessEvent # {}
        BY <1>8, <3>3 DEF HandleRead, kProcessEvent
      <4> QED  BY <2>1, <4>1, ModFdTables
    <3> QED  BY <3>1, <3>2, <3>3
  <2>4. expired' \subseteq timer
    BY <2>1 DEF TablesAgree
  <2> QED  BY <2>1, <2>2, <2>3, <2>4, SameTables
<1>9. ASSUME NEW e \in batch, HandleWrite(e) PROVE TablesAgree'
  <2> DEFINE c == user[e.fd]
  <2>1. /\ e.fd \in Fd /\ c \in Conn /\ c # NoConn
        /\ UNCHANGED <<user, sock, timer, expired, interest>>
    BY <1>9 DEF HandleWrite, TypeOK
  <2>2. PICK w \in Write(conn[c], space[c], peer[c]) :
          /\ conn' = [conn EXCEPT ![c] = w.conn]
          /\ pc' = CASE w.res = "DONE" -> "sent" [] w.res = "ERROR" -> "close"
                     [] OTHER -> "dispatch"
          /\ cur' = IF w.res = "AGAIN" THEN NoFd ELSE e.fd
    BY <1>9 DEF HandleWrite
  <2>3. w.conn.fd = conn[c].fd
    BY <2>1, WriteType DEF TypeOK
  <2>4. \A k \in Conn : conn'[k].fd = conn[k].fd
    BY <2>1, <2>2, <2>3 DEF TypeOK
  <2>5. pc' \in Midway => cur' = e.fd
    BY <2>2 DEF Midway
  <2>6. expired' \subseteq timer
    BY <2>1 DEF TablesAgree
  <2> QED  BY <2>1, <2>4, <2>5, <2>6, SameTables
<1>10. ASSUME NEW c \in Conn, NEW fd \in Fd, AcceptOne(c, fd) PROVE TablesAgree'
  <2>1. /\ c \in backlog /\ sock[fd] = NoConn /\ pc' = "accept"
        /\ sock' = [sock EXCEPT ![fd] = c] /\ conn' = [conn EXCEPT ![c] = Opened(fd)]
        /\ user' = [user EXCEPT ![fd] = c] /\ interest' = [interest EXCEPT ![fd] = kReadEvent]
        /\ timer' = timer \cup {fd} /\ expired' = expired
    BY <1>10 DEF AcceptOne, MoreToAccept, Armed
  <2>2. conn[c].fd = NoFd /\ user[fd] = NoConn
    BY <2>1 DEF Bookkeeping, TablesAgree
  <2>3. \A f \in Fd : user'[f] = IF f = fd THEN c ELSE user[f]
    BY <2>1 DEF TypeOK
  <2>4. \A k \in Conn : conn'[k].fd = IF k = c THEN fd ELSE conn[k].fd
    BY <2>1, OpenedType DEF TypeOK
  <2>5. ASSUME NEW f \in Fd
        PROVE  /\ user'[f] = sock'[f]
               /\ user'[f] # NoConn => conn'[user'[f]].fd = f
               /\ f \in timer' <=> user'[f] # NoConn
               /\ interest'[f] # {} <=> user'[f] # NoConn
    <3>1. CASE f = fd
      BY <2>1, <2>3, <2>4, <3>1 DEF TypeOK, kReadEvent
    <3>2. CASE f # fd
      <4>1. /\ user'[f] = user[f] /\ sock'[f] = sock[f] /\ interest'[f] = interest[f]
            /\ f \in timer' <=> f \in timer
        BY <2>1, <2>3, <3>2 DEF TypeOK
      <4>2. user[f] # NoConn => user[f] \in Conn /\ user[f] # c
        BY <2>2 DEF TypeOK, TablesAgree
      <4> QED  BY <2>4, <4>1, <4>2 DEF TablesAgree
    <3> QED  BY <3>1, <3>2
  <2>6. ASSUME NEW k \in Conn, conn'[k].fd # NoFd
        PROVE  user'[conn'[k].fd] = k
    <3>1. CASE k = c
      BY <2>3, <2>4, <3>1
    <3>2. CASE k # c
      <4>1. conn'[k].fd = conn[k].fd /\ conn[k].fd \in Fd
        BY <2>4, <2>6, <3>2 DEF TypeOK, ConnObject
      <4>2. user[conn[k].fd] = k
        BY <2>6, <4>1 DEF TablesAgree
      <4>3. conn[k].fd # fd
        BY <2>2, <4>2
      <4> QED  BY <2>3, <4>1, <4>2, <4>3
    <3> QED  BY <3>1, <3>2
  <2>7. expired' \subseteq timer' /\ pc' \notin Midway
    BY <2>1 DEF TablesAgree, Midway
  <2> QED  BY <2>5, <2>6, <2>7 DEF TablesAgree
<1>11. ASSUME NEW c \in Conn, NEW fd \in Fd, AcceptNotAdded(c, fd) PROVE TablesAgree'
  BY <1>11 DEF TablesAgree, AcceptNotAdded
<1>12. CASE AcceptFails \/ AcceptDone
  BY <1>12 DEF TablesAgree, AcceptFails, AcceptDone, Midway
<1>13. CASE Enqueue
  BY <1>13 DEF TablesAgree, Enqueue, Midway
<1>14. CASE CloseCurrent
  <2>1. cur \in Fd /\ user[cur] # NoConn /\ pc' \notin Midway /\ CloseConn(cur)
    BY <1>14 DEF CloseCurrent, TablesAgree, Midway
  <2> QED  BY <2>1, CloseConnTables
<1>15. CASE CheckKeepAlive
  BY <1>15 DEF TablesAgree, CheckKeepAlive, Midway
<1>16. CASE ResetAndRead
  <2>1. /\ cur \in Fd /\ user[cur] # NoConn /\ ModFd(cur, kReadEvent) /\ kReadEvent # {}
        /\ UNCHANGED <<user, sock, timer, expired>>
    BY <1>16 DEF ResetAndRead, TablesAgree, Midway, kReadEvent
  <2>2. \A k \in Conn : conn'[k].fd = conn[k].fd
    BY <1>16, <2>1, RewoundType DEF ResetAndRead, TypeOK
  <2>3. \A f \in Fd : interest'[f] # {} <=> interest[f] # {}
    BY <2>1, ModFdTables
  <2>4. pc' \in Midway => cur' = cur
    BY <1>16 DEF ResetAndRead, Midway
  <2>5. expired' \subseteq timer
    BY <2>1 DEF TablesAgree
  <2> QED  BY <2>1, <2>2, <2>3, <2>4, <2>5, SameTables
<1>17. CASE SwapResults \/ ResultsDone
  BY <1>17 DEF TablesAgree, SwapResults, ResultsDone, Midway
<1>18. CASE ApplyResult
  <2> DEFINE r == Head(local)
             mask == IF r.ready THEN kWriteEvent ELSE kReadEvent
  <2>1. r.fd \in Fd
    <3>1. r \in Result
      BY <1>18 DEF ApplyResult, TypeOK
    <3> QED  BY <3>1 DEF Result
  <2>2. \A f \in Fd : interest'[f] # {} <=> interest[f] # {}
    <3>1. CASE user[r.fd] # NoConn
      <4>1. ModFd(r.fd, mask) /\ mask # {}
        BY <1>18, <3>1 DEF ApplyResult, kReadEvent, kWriteEvent
      <4> HIDE DEF r, mask
      <4> QED  BY <2>1, <4>1, ModFdTables
    <3>2. CASE user[r.fd] = NoConn
      BY <1>18, <3>2 DEF ApplyResult
    <3> QED  BY <3>1, <3>2
  <2>3. UNCHANGED <<user, sock, timer, conn>> /\ expired' \subseteq timer
    BY <1>18 DEF ApplyResult, TablesAgree
  <2>4. pc' \in Midway => cur' = r.fd /\ user[r.fd] # NoConn
    BY <1>18 DEF ApplyResult, Midway
  <2> QED  BY <2>1, <2>2, <2>3, <2>4, SameTables
<1>19. ASSUME NEW w \in Worker, Pop(w) \/ BeginProcess(w) \/ PushResult(w) \/ WriteWakeup(w)
       PROVE  TablesAgree'
  BY <1>19 DEF TablesAgree, Pop, BeginProcess, PushResult, WriteWakeup
<1>20. ASSUME NEW w \in Worker, EndProcess(w) PROVE TablesAgree'
  <2>1. wk[w].conn \in Conn
    BY <1>20 DEF EndProcess, Bookkeeping, Held
  <2>2. PICK p \in Process(conn[wk[w].conn]) : conn' = [conn EXCEPT ![wk[w].conn] = p.conn]
    BY <1>20 DEF EndProcess
  <2>3. p.conn.fd = conn[wk[w].conn].fd
    BY <2>1, ProcessType DEF TypeOK
  <2>4. \A k \in Conn : conn'[k].fd = conn[k].fd
    BY <2>1, <2>2, <2>3 DEF TypeOK
  <2>5. UNCHANGED <<user, sock, timer, expired, interest, pc, cur>>
    BY <1>20 DEF EndProcess
  <2>6. expired' \subseteq timer /\ (pc' \in Midway => cur' \in Fd /\ user[cur'] # NoConn)
    BY <2>5 DEF TablesAgree
  <2> QED  BY <2>4, <2>5, <2>6, SameTables
<1> QED
  BY <1>1, <1>2, <1>3, <1>4, <1>5, <1>6, <1>7, <1>8, <1>9, <1>10, <1>11, <1>12, <1>13, <1>14,
     <1>15, <1>16, <1>17, <1>18, <1>19, <1>20 DEF Next, Client, Loop, Pool

-----------------------------------------------------------------------------
(* A step that leaves the objects' descriptors, the clients not accepted   *)
(* yet and the workers' tasks as they are.                                 *)
LEMMA SameBookkeeping ==
  ASSUME Bookkeeping, UNCHANGED <<peer, backlog, wk>>,
         \A c \in Conn : conn'[c].fd = conn[c].fd \/ conn'[c].fd = NoFd,
         batch' \subseteq batch, local' # <<>> => pc' \in {"results", "closeresult"},
         pc' \in {"nexttick", "wait"} => batch' = {},
         pc' \in {"sent", "reset"} => cur' \notin processing'
  PROVE  Bookkeeping'
BY DEF Bookkeeping, Held

(* CloseConn keeps the loop's registers and the workers' in order.         *)
LEMMA CloseConnBookkeeping ==
  ASSUME TypeOK, TablesAgree, Bookkeeping, NEW fd \in Fd, user[fd] # NoConn, CloseConn(fd),
         batch' \subseteq batch, local' # <<>> => pc' \in {"results", "closeresult"},
         pc' \in {"nexttick", "wait"} => batch' = {}, pc' \notin {"sent", "reset"}
  PROVE  Bookkeeping'
<1> USE ConnectionAssumption, WebServerAssumption
<1>1. UNCHANGED <<backlog, wk>>
  BY DEF CloseConn
<1>2. \A c \in Conn : conn'[c].fd = conn[c].fd \/ conn'[c].fd = NoFd
  BY ReleasedType DEF CloseConn, TypeOK
<1>3. \A c \in Conn : peer'[c] = "idle" => peer[c] = "idle"
  BY DEF CloseConn, TypeOK
<1> QED  BY <1>1, <1>2, <1>3 DEF Bookkeeping, Held

(* Every step keeps Bookkeeping.                                           *)
LEMMA BookkeepingStep ==
  ASSUME Tables, [Next]_vars
  PROVE  Bookkeeping'
<1> USE ConnectionAssumption, WebServerAssumption DEF Tables
<1> USE DEF clientVars, kernelVars, loopVars, tableVars, poolVars, history
<1>1. CASE UNCHANGED vars
  BY <1>1 DEF Bookkeeping, Held, vars
<1>2. ASSUME NEW c \in Conn, Connect(c) PROVE Bookkeeping'
  BY <1>2 DEF Bookkeeping, Held, Connect, TypeOK
<1>3. ASSUME NEW c \in Conn, SendSegment(c) \/ Drain(c) PROVE Bookkeeping'
  BY <1>3 DEF Bookkeeping, Held, SendSegment, Drain
<1>4. ASSUME NEW c \in Conn, NEW how \in {"fin", "rst"}, HangUp(c, how) PROVE Bookkeeping'
  BY <1>4 DEF Bookkeeping, Held, HangUp, TypeOK
<1>5. ASSUME NEW fd \in Fd, Expire(fd) PROVE Bookkeeping'
  BY <1>5 DEF Bookkeeping, Held, Expire
<1>6. ASSUME NEW fd \in Fd, CloseExpired(fd) PROVE Bookkeeping'
  <2>1. user[fd] # NoConn /\ CloseConn(fd)
    BY <1>6 DEF CloseExpired, TablesAgree
  <2>2. UNCHANGED <<pc, batch, local>> /\ pc \in {"nexttick", "tick"}
    BY <1>6 DEF CloseExpired
  <2> QED  BY <2>1, <2>2, CloseConnBookkeeping DEF Bookkeeping
<1>7. CASE TickDone \/ DispatchDone
  BY <1>7 DEF Bookkeeping, Held, TickDone, DispatchDone
<1>8. CASE EpollWait
  <2>1. \A e1, e2 \in Reported : e1.fd = e2.fd => e1 = e2
    BY DEF Reported
  <2> QED  BY <1>8, <2>1 DEF Bookkeeping, Held, EpollWait
<1>9. ASSUME NEW e \in batch, SkipEvent(e) \/ HandleListen(e) \/ DrainWakeup(e) PROVE Bookkeeping'
  BY <1>9 DEF Bookkeeping, Held, SkipEvent, HandleListen, DrainWakeup, Taken
<1>10. ASSUME NEW e \in batch, CloseOnHangUp(e) PROVE Bookkeeping'
  <2>1. /\ e.fd \in Fd /\ user[e.fd] # NoConn /\ CloseConn(e.fd)
        /\ pc' = "dispatch" /\ batch' \subseteq batch /\ local' = <<>>
    BY <1>10 DEF CloseOnHangUp, Taken, Bookkeeping
  <2> QED  BY <2>1, CloseConnBookkeeping
<1>11. ASSUME NEW e \in batch, HandleRead(e) PROVE Bookkeeping'
  <2> DEFINE c == user[e.fd]
  <2>1. /\ e.fd \in Fd /\ c \in Conn /\ pc = "dispatch" /\ batch' \subseteq batch
        /\ UNCHANGED <<peer, backlog, wk, local>>
        /\ conn' = [conn EXCEPT ![c] = AfterRead(conn[c], inb[c])]
    BY <1>11 DEF HandleRead, TypeOK, Taken
  <2>2. AfterRead(conn[c], inb[c]).fd = conn[c].fd
    BY <2>1, AfterReadType DEF TypeOK
  <2>3. \A k \in Conn : conn'[k].fd = conn[k].fd
    BY <2>1, <2>2 DEF TypeOK
  <2>4. pc' \in {"dispatch", "close", "enqueue"}
    BY <1>11, <2>1 DEF HandleRead
  <2>5. local' = <<>>
    BY <2>1 DEF Bookkeeping
  <2> QED  BY <2>1, <2>3, <2>4, <2>5, SameBookkeeping
<1>12. ASSUME NEW e \in batch, HandleWrite(e) PROVE Bookkeeping'
  <2> DEFINE c == user[e.fd]
  <2>1. /\ e.fd \in Fd /\ c \in Conn /\ pc = "dispatch" /\ batch' \subseteq batch
        /\ e.ev = {"OUT"} /\ UNCHANGED <<peer, backlog, wk, local, processing>>
    BY <1>12 DEF HandleWrite, TypeOK, Taken
  <2>2. PICK w \in Write(conn[c], space[c], peer[c]) :
          /\ conn' = [conn EXCEPT ![c] = w.conn]
          /\ pc' = CASE w.res = "DONE" -> "sent" [] w.res = "ERROR" -> "close"
                     [] OTHER -> "dispatch"
          /\ cur' = IF w.res = "AGAIN" THEN NoFd ELSE e.fd
    BY <1>12 DEF HandleWrite
  <2>3. w.conn.fd = conn[c].fd
    BY <2>1, WriteType DEF TypeOK
  <2>4. \A k \in Conn : conn'[k].fd = conn[k].fd
    BY <2>1, <2>2, <2>3 DEF TypeOK
  <2>5. e.fd \notin processing
    BY <2>1 DEF NoEventWhileMarked
  <2>6. /\ pc' \in {"sent", "close", "dispatch"} /\ local' = <<>>
        /\ pc' = "sent" => cur' = e.fd
    BY <2>1, <2>2 DEF Bookkeeping
  <2> QED  BY <2>1, <2>4, <2>5, <2>6, SameBookkeeping
<1>13. ASSUME NEW c \in Conn, NEW fd \in Fd, AcceptOne(c, fd) PROVE Bookkeeping'
  <2>1. /\ c \in backlog /\ pc = "accept" /\ pc' = "accept" /\ backlog' = backlog \ {c}
        /\ conn' = [conn EXCEPT ![c] = Opened(fd)] /\ UNCHANGED <<peer, batch, local, wk>>
    BY <1>13 DEF AcceptOne, MoreToAccept
  <2>2. peer[c] # "idle"
    BY <2>1 DEF Bookkeeping
  <2> QED  BY <2>1, <2>2 DEF Bookkeeping, Held, TypeOK
<1>14. ASSUME NEW c \in Conn, NEW fd \in Fd, AcceptNotAdded(c, fd) PROVE Bookkeeping'
  BY <1>14 DEF Bookkeeping, Held, AcceptNotAdded, TypeOK
<1>15. CASE AcceptFails \/ AcceptDone
  BY <1>15 DEF Bookkeeping, Held, AcceptFails, AcceptDone
<1>16. CASE Enqueue
  BY <1>16 DEF Bookkeeping, Held, Enqueue
<1>17. CASE CloseCurrent
  <2>1. cur \in Fd /\ user[cur] # NoConn /\ CloseConn(cur) /\ UNCHANGED <<batch, local>>
    BY <1>17 DEF CloseCurrent, TablesAgree, Midway
  <2>2. pc' \in {"dispatch", "results"} /\ (local' # <<>> => pc' = "results")
    BY <1>17 DEF CloseCurrent, Bookkeeping
  <2> QED  BY <2>1, <2>2, CloseConnBookkeeping
<1>18. CASE CheckKeepAlive
  BY <1>18 DEF Bookkeeping, Held, CheckKeepAlive
<1>19. CASE ResetAndRead
  <2>1. user[cur] \in Conn
    BY <1>19 DEF ResetAndRead, TablesAgree, Midway, TypeOK
  <2>2. \A k \in Conn : conn'[k].fd = conn[k].fd
    BY <1>19, <2>1, RewoundType DEF ResetAndRead, TypeOK
  <2>3. /\ pc' \in {"dispatch", "close"} /\ local' = <<>> /\ UNCHANGED <<peer, backlog, wk, batch>>
    BY <1>19 DEF ResetAndRead, Bookkeeping
  <2> QED  BY <2>2, <2>3, SameBookkeeping
<1>20. CASE SwapResults \/ ApplyResult \/ ResultsDone
  BY <1>20 DEF Bookkeeping, Held, SwapResults, ApplyResult, ResultsDone
<1>21. ASSUME NEW w \in Worker, Pop(w) PROVE Bookkeeping'
  <2>1. Head(tasks) \in Task
    BY <1>21 DEF Pop, TypeOK
  <2>2. \A v \in Worker : Held(v)' => wk'[v].fd \in Fd /\ wk'[v].conn \in Conn
    BY <1>21, <2>1 DEF Pop, Task, Held, Bookkeeping, TypeOK
  <2> QED  BY <1>21, <2>2 DEF Bookkeeping, Pop
<1>22. ASSUME NEW w \in Worker, BeginProcess(w) PROVE Bookkeeping'
  <2>1. \A v \in Worker : Held(v)' => wk'[v].fd \in Fd /\ wk'[v].conn \in Conn
    BY <1>22 DEF BeginProcess, Held, Bookkeeping, TypeOK, WorkerState
  <2> QED  BY <1>22, <2>1 DEF Bookkeeping, BeginProcess
<1>23. ASSUME NEW w \in Worker, EndProcess(w) PROVE Bookkeeping'
  <2>1. wk[w].conn \in Conn
    BY <1>23 DEF EndProcess, Bookkeeping, Held
  <2>2. PICK p \in Process(conn[wk[w].conn]) :
          /\ conn' = [conn EXCEPT ![wk[w].conn] = p.conn]
          /\ wk' = [wk EXCEPT ![w] = [wk[w] EXCEPT !.st = "processed", !.ready = p.ready]]
    BY <1>23 DEF EndProcess
  <2>3. p.conn.fd = conn[wk[w].conn].fd
    BY <2>1, ProcessType DEF TypeOK
  <2>4. \A k \in Conn : conn'[k].fd = conn[k].fd
    BY <2>1, <2>2, <2>3 DEF TypeOK
  <2>5. wk[w] \in WorkerState /\ wk[w].fd \in Fd
    BY <1>23 DEF EndProcess, Bookkeeping, Held, TypeOK
  <2>6. \A v \in Worker : Held(v)' => wk'[v].fd \in Fd /\ wk'[v].conn \in Conn
    BY <2>1, <2>2, <2>5 DEF Held, Bookkeeping, TypeOK, WorkerState
  <2>7. UNCHANGED <<peer, backlog, batch, local, pc, cur, processing>>
    BY <1>23 DEF EndProcess
  <2> QED  BY <2>4, <2>6, <2>7 DEF Bookkeeping
<1>24. ASSUME NEW w \in Worker, PushResult(w) \/ WriteWakeup(w) PROVE Bookkeeping'
  <2>1. \A v \in Worker : Held(v)' => wk'[v].fd \in Fd /\ wk'[v].conn \in Conn
    <3>1. wk'[w].st \in {"idle", "pushed"} /\ \A v \in Worker \ {w} : wk'[v] = wk[v]
      BY <1>24 DEF PushResult, WriteWakeup, TypeOK, Idle
    <3>2. \A v \in Worker \ {w} : Held(v)' => Held(v)
      BY <3>1 DEF Held
    <3> QED  BY <3>1, <3>2 DEF Held, Bookkeeping
  <2> QED  BY <1>24, <2>1 DEF Bookkeeping, PushResult, WriteWakeup
<1> QED
  BY <1>1, <1>2, <1>3, <1>4, <1>5, <1>6, <1>7, <1>8, <1>9, <1>10, <1>11, <1>12, <1>13, <1>14,
     <1>15, <1>16, <1>17, <1>18, <1>19, <1>20, <1>21, <1>22, <1>23, <1>24
     DEF Next, Client, Loop, Pool

-----------------------------------------------------------------------------
(* EPOLL_CTL_MOD on a registered descriptor.                               *)
LEMMA ModFdMask ==
  ASSUME TypeOK, NEW fd \in Fd, NEW mask, ModFd(fd, mask), Registered(fd)
  PROVE  \A f \in Fd : interest'[f] = IF f = fd THEN mask ELSE interest[f]
BY DEF ModFd, TypeOK

(* CloseConn keeps a marked descriptor deaf and out of the batch.          *)
LEMMA CloseConnMarks ==
  ASSUME TypeOK, MarkedIffDeaf, NoEventWhileMarked, NEW fd \in Fd, CloseConn(fd),
         batch' \subseteq batch
  PROVE  MarkedIffDeaf' /\ NoEventWhileMarked'
<1>1. kProcessEvent # {}
  BY DEF kProcessEvent
<1>2. interest' = [interest EXCEPT ![fd] = {}] /\ processing' = processing \ {fd}
  BY DEF CloseConn, Unmarked
<1> QED  BY <1>1, <1>2 DEF MarkedIffDeaf, NoEventWhileMarked, TypeOK

(* The mark and the mask change together, and no event that would make the *)
(* loop touch a marked connection is ever in the batch.                    *)
LEMMA MarksStep ==
  ASSUME Tables, [Next]_vars
  PROVE  MarkedIffDeaf' /\ NoEventWhileMarked'
<1> USE ConnectionAssumption, WebServerAssumption DEF Tables
<1> USE DEF clientVars, kernelVars, loopVars, tableVars, poolVars, history
<1> DEFINE Goal == MarkedIffDeaf' /\ NoEventWhileMarked'
<1>0. kProcessEvent # {} /\ kProcessEvent # kReadEvent /\ kProcessEvent # kWriteEvent
      /\ "IN" \notin kProcessEvent /\ "OUT" \notin kProcessEvent
  BY DEF kProcessEvent, kReadEvent, kWriteEvent
<1>1. CASE UNCHANGED vars
  BY <1>1 DEF MarkedIffDeaf, NoEventWhileMarked, vars
<1>2. CASE Client
  BY <1>2 DEF MarkedIffDeaf, NoEventWhileMarked, Client, Connect, SendSegment, Drain, HangUp, Expire
<1>3. ASSUME NEW fd \in Fd, CloseExpired(fd) PROVE Goal
  BY <1>3, CloseConnMarks DEF CloseExpired
<1>4. CASE TickDone \/ DispatchDone
  BY <1>4 DEF MarkedIffDeaf, NoEventWhileMarked, TickDone, DispatchDone
<1>5. CASE EpollWait
  <2>1. \A e \in Reported : e.ev \cap {"IN", "OUT"} # {} => e.fd \notin processing
    <3>1. \A f \in Fd : (Poll(sock[f]) \cap interest[f]) \cap {"IN", "OUT"} # {} => f \notin processing
      BY <1>0 DEF MarkedIffDeaf
    <3>2. ServerFd \notin processing /\ WakeupFd \notin processing
      BY DEF TypeOK
    <3> QED  BY <3>1, <3>2 DEF Reported
  <2> QED  BY <1>5, <2>1 DEF MarkedIffDeaf, NoEventWhileMarked, EpollWait
<1>6. ASSUME NEW e \in batch,
             SkipEvent(e) \/ HandleListen(e) \/ DrainWakeup(e) \/ HandleWrite(e)
      PROVE  Goal
  BY <1>6 DEF MarkedIffDeaf, NoEventWhileMarked, SkipEvent, HandleListen, DrainWakeup,
              HandleWrite, Taken
<1>7. ASSUME NEW e \in batch, CloseOnHangUp(e) PROVE Goal
  BY <1>7, CloseConnMarks DEF CloseOnHangUp, Taken
<1>8. ASSUME NEW e \in batch, HandleRead(e) PROVE Goal
  <2> DEFINE c == user[e.fd]
  <2>1. e.fd \in Fd /\ c # NoConn /\ batch' = batch \ {e}
    BY <1>8 DEF HandleRead, Taken
  <2>2. CASE ReadResult(conn[c], inb[c], peer[c]) # "DONE"
    BY <1>8, <2>1, <2>2 DEF HandleRead, MarkedIffDeaf, NoEventWhileMarked
  <2>3. CASE ReadResult(conn[c], inb[c], peer[c]) = "DONE" /\ e.fd \in processing
    BY <1>8, <2>1, <2>3 DEF HandleRead, MarkedIffDeaf, NoEventWhileMarked
  <2>4. CASE ReadResult(conn[c], inb[c], peer[c]) = "DONE" /\ e.fd \notin processing
    <3>1. Registered(e.fd)
      BY <2>1 DEF TablesAgree, Registered
    <3>2. processing' = processing \cup {e.fd} /\ ModFd(e.fd, kProcessEvent)
      BY <1>8, <2>4, <3>1 DEF HandleRead
    <3>3. \A f \in Fd : interest'[f] = IF f = e.fd THEN kProcessEvent ELSE interest[f]
      BY <2>1, <3>1, <3>2, ModFdMask
    <3>4. MarkedIffDeaf'
      BY <2>1, <3>2, <3>3 DEF MarkedIffDeaf
    <3>5. \A d \in batch' : d.fd # e.fd
      BY <2>1 DEF Bookkeeping
    <3> QED  BY <2>1, <3>2, <3>4, <3>5 DEF NoEventWhileMarked
  <2> QED  BY <2>2, <2>3, <2>4
<1>9. ASSUME NEW c \in Conn, NEW fd \in Fd, AcceptOne(c, fd) PROVE Goal
  <2>1. sock[fd] = NoConn /\ interest[fd] = {}
    BY <1>9 DEF AcceptOne, TablesAgree
  <2>2. /\ interest' = [interest EXCEPT ![fd] = kReadEvent]
        /\ UNCHANGED <<processing, batch>>
    BY <1>9 DEF AcceptOne
  <2> QED  BY <1>0, <2>1, <2>2 DEF MarkedIffDeaf, NoEventWhileMarked, TypeOK
<1>10. ASSUME NEW c \in Conn, NEW fd \in Fd, AcceptNotAdded(c, fd) PROVE Goal
  BY <1>10 DEF MarkedIffDeaf, NoEventWhileMarked, AcceptNotAdded
<1>11. CASE AcceptFails \/ AcceptDone \/ Enqueue \/ CheckKeepAlive \/ SwapResults \/ ResultsDone
  BY <1>11 DEF MarkedIffDeaf, NoEventWhileMarked, AcceptFails, AcceptDone, Enqueue,
               CheckKeepAlive, SwapResults, ResultsDone
<1>12. CASE CloseCurrent
  <2>1. cur \in Fd /\ CloseConn(cur) /\ batch' \subseteq batch
    BY <1>12 DEF CloseCurrent, TablesAgree, Midway
  <2> QED  BY <2>1, CloseConnMarks
<1>13. CASE ResetAndRead
  <2>1. /\ cur \in Fd /\ Registered(cur) /\ cur \notin processing
        /\ ModFd(cur, kReadEvent) /\ UNCHANGED <<processing, batch>>
    BY <1>13 DEF ResetAndRead, TablesAgree, Midway, Registered, Bookkeeping
  <2>2. \A f \in Fd : interest'[f] = IF f = cur THEN kReadEvent ELSE interest[f]
    BY <2>1, ModFdMask
  <2> QED  BY <1>0, <2>1, <2>2 DEF MarkedIffDeaf, NoEventWhileMarked
<1>14. CASE ApplyResult
  <2> DEFINE r == Head(local)
             mask == IF r.ready THEN kWriteEvent ELSE kReadEvent
  <2>1. r.fd \in Fd
    <3>1. r \in Result
      BY <1>14 DEF ApplyResult, TypeOK
    <3> QED  BY <3>1 DEF Result
  <2>2. mask # kProcessEvent /\ processing' = processing \ {r.fd} /\ UNCHANGED batch
    BY <1>0, <1>14 DEF ApplyResult, Unmarked
  <2>3. NoEventWhileMarked'
    BY <2>2 DEF NoEventWhileMarked
  <2>4. CASE user[r.fd] # NoConn
    <3>1. ModFd(r.fd, mask) /\ Registered(r.fd)
      BY <1>14, <2>1, <2>4 DEF ApplyResult, TablesAgree, Registered
    <3> HIDE DEF r, mask
    <3>2. \A f \in Fd : interest'[f] = IF f = r.fd THEN mask ELSE interest[f]
      BY <2>1, <3>1, ModFdMask
    <3> QED  BY <2>2, <2>3, <3>2 DEF MarkedIffDeaf
  <2>5. CASE user[r.fd] = NoConn
    <3>1. UNCHANGED interest /\ interest[r.fd] = {}
      BY <1>14, <2>1, <2>5 DEF ApplyResult, TablesAgree
    <3> QED  BY <1>0, <2>2, <2>3, <3>1 DEF MarkedIffDeaf
  <2> QED  BY <2>4, <2>5
<1>15. CASE Pool
  BY <1>15 DEF MarkedIffDeaf, NoEventWhileMarked, Pool, Pop, BeginProcess, EndProcess,
               PushResult, WriteWakeup
<1> QED
  BY <1>1, <1>2, <1>3, <1>4, <1>5, <1>6, <1>7, <1>8, <1>9, <1>10, <1>11, <1>12, <1>13, <1>14,
     <1>15 DEF Next, Loop

-----------------------------------------------------------------------------
(* The strengthening is inductive.                                         *)
THEOREM TablesInvariant == Spec => []Tables
<1>1. Tables /\ [Next]_vars => Tables'
  BY TypeStep, TablesStep, BookkeepingStep, MarksStep DEF Tables
<1> QED  BY <1>1, InitTables, PTL DEF Spec

(* Every variable keeps its type.                                          *)
THEOREM TypeCorrect == Spec => []TypeOK
BY TablesInvariant, PTL DEF Tables

(* user_, the descriptor table, epoll's registrations and timer_ agree in  *)
(* every reachable state.                                                  *)
THEOREM TablesAlwaysAgree == Spec => []TablesAgree
BY TablesInvariant, PTL DEF Tables

(* What the loop keeps track of beside the tables: which descriptors its   *)
(* batch, its results and its workers may name, and when they are empty.   *)
THEOREM BookkeepingHolds == Spec => []Bookkeeping
BY TablesInvariant, PTL DEF Tables

(* processing_fds_ holds exactly the descriptors whose mask leaves out     *)
(* input and output ...                                                    *)
THEOREM MarksMatchMasks == Spec => []MarkedIffDeaf
BY TablesInvariant, PTL DEF Tables

(* ... and the loop never dispatches input or output for one of them, so   *)
(* the early return of handleRead that would strand input is never taken.  *)
THEOREM MarkedIsLeftAlone == Spec => []NoEventWhileMarked
BY TablesInvariant, PTL DEF Tables

-----------------------------------------------------------------------------
(* What is behind the head of a sequence stays in its tail, and what is in *)
(* a sequence stays in it when something is appended.                      *)
LEMMA TailKeeps ==
  ASSUME NEW S, NEW s \in Seq(S), s # <<>>, NEW i \in DOMAIN s, i # 1
  PROVE  i - 1 \in DOMAIN Tail(s) /\ Tail(s)[i - 1] = s[i]
OBVIOUS

(* What a sequence holds stays in it when an element is appended,          *)
LEMMA AppendKeeps ==
  ASSUME NEW S, NEW s \in Seq(S), NEW x, NEW i \in DOMAIN s
  PROVE  i \in DOMAIN Append(s, x) /\ Append(s, x)[i] = s[i]
OBVIOUS

(* and the appended element joins it.                                      *)
LEMMA AppendAdds ==
  ASSUME NEW S, NEW s \in Seq(S), NEW x
  PROVE  \E i \in DOMAIN Append(s, x) : Append(s, x)[i] = x
<1>1. Len(s) + 1 \in DOMAIN Append(s, x) /\ Append(s, x)[Len(s) + 1] = x
  OBVIOUS
<1> QED  BY <1>1

-----------------------------------------------------------------------------
(* A connection's work moves from stage to stage and is never dropped: a   *)
(* step of the loop or of a worker that touches a stage passes the item on.*)
LEMMA EnqueueMoves ==
  ASSUME Tables, Enqueue, NEW f, NEW c, InFlight(f, c)
  PROVE  InFlight(f, c)'
<1> USE DEF Tables
<1>1. tasks \in Seq(Task) /\ tasks' = Append(tasks, [fd |-> cur, conn |-> user[cur]])
  BY DEF Enqueue, TypeOK
<1>2. UNCHANGED <<wk, completed, local>>
  BY DEF Enqueue, poolVars, loopVars
<1>3. CASE pc = "enqueue" /\ cur = f /\ user[f] = c
  BY <1>1, <1>3, AppendAdds DEF InFlight, Unparsed
<1>4. CASE \E i \in DOMAIN tasks : tasks[i].fd = f /\ tasks[i].conn = c
  BY <1>1, <1>4, AppendKeeps DEF InFlight, Unparsed
<1> QED  BY <1>2, <1>3, <1>4 DEF InFlight, Unparsed

(* Each of the next steps moves the work in flight without losing any: Pop, *)
LEMMA PopMoves ==
  ASSUME Tables, NEW w \in Worker, Pop(w), NEW f, NEW c, InFlight(f, c)
  PROVE  InFlight(f, c)'
<1> USE DEF Tables
<1>1. tasks \in Seq(Task) /\ tasks # <<>> /\ tasks' = Tail(tasks)
  BY DEF Pop, TypeOK
<1>2. UNCHANGED <<pc, cur, user, completed, local>>
  BY DEF Pop, loopVars, tableVars
<1>3. wk'[w].st = "popped" /\ wk'[w].fd = tasks[1].fd /\ wk'[w].conn = tasks[1].conn
  BY <1>1 DEF Pop, TypeOK
<1>4. \A v \in Worker : wk[v].st # "idle" => wk'[v] = wk[v]
  BY DEF Pop, TypeOK
<1>5. CASE \E i \in DOMAIN tasks : tasks[i].fd = f /\ tasks[i].conn = c
  <2>1. PICK i \in DOMAIN tasks : tasks[i].fd = f /\ tasks[i].conn = c
    BY <1>5
  <2>2. CASE i = 1
    BY <1>3, <2>1, <2>2 DEF InFlight, Unparsed
  <2>3. CASE i # 1
    BY <1>1, <2>1, <2>3, TailKeeps DEF InFlight, Unparsed
  <2> QED  BY <2>2, <2>3
<1>6. CASE \E v \in Worker : Held(v) /\ wk[v].fd = f /\ wk[v].conn = c
  BY <1>4, <1>6 DEF InFlight, Unparsed, Held
<1> QED  BY <1>2, <1>5, <1>6 DEF InFlight, Unparsed, Held

(* the end of process(),                                                   *)
LEMMA ProcessMoves ==
  ASSUME Tables, NEW w \in Worker, BeginProcess(w) \/ EndProcess(w), NEW f, NEW c, InFlight(f, c)
  PROVE  InFlight(f, c)'
<1> USE DEF Tables
<1>1. UNCHANGED <<pc, cur, user, tasks, completed, local>>
  BY DEF BeginProcess, EndProcess, loopVars, tableVars
<1>2. \A v \in Worker : Held(v) => Held(v)' /\ wk'[v].fd = wk[v].fd /\ wk'[v].conn = wk[v].conn
  <2>1. CASE BeginProcess(w)
    BY <2>1 DEF BeginProcess, Held, TypeOK, WorkerState
  <2>2. CASE EndProcess(w)
    <3>1. PICK p \in Process(conn[wk[w].conn]) :
            wk' = [wk EXCEPT ![w] = [wk[w] EXCEPT !.st = "processed", !.ready = p.ready]]
      BY <2>2 DEF EndProcess
    <3> QED  BY <3>1 DEF Held, TypeOK, WorkerState
  <2> QED  BY <2>1, <2>2
<1>3. CASE \E v \in Worker : Held(v) /\ wk[v].fd = f /\ wk[v].conn = c
  BY <1>2, <1>3 DEF InFlight, Unparsed, Held
<1> QED  BY <1>1, <1>3 DEF InFlight, Unparsed, Held

(* PushResult,                                                             *)
LEMMA PushMoves ==
  ASSUME Tables, NEW w \in Worker, PushResult(w), NEW f, NEW c, InFlight(f, c)
  PROVE  InFlight(f, c)'
<1> USE DEF Tables
<1> DEFINE r == [fd |-> wk[w].fd, conn |-> wk[w].conn, ready |-> wk[w].ready]
<1>1. completed \in Seq(Result) /\ completed' = Append(completed, r)
  BY DEF PushResult, TypeOK
<1>2. UNCHANGED <<pc, cur, user, tasks, local>>
  BY DEF PushResult, loopVars, tableVars
<1>3. wk[w].st = "processed" /\ \A v \in Worker \ {w} : wk'[v] = wk[v]
  BY DEF PushResult, TypeOK
<1>4. CASE wk[w].fd = f /\ wk[w].conn = c
  <2>1. PICK i \in DOMAIN completed' : completed'[i] = r
    BY <1>1, AppendAdds
  <2> QED  BY <1>4, <2>1 DEF InFlight
<1>5. CASE \E i \in DOMAIN completed : completed[i].fd = f /\ completed[i].conn = c
  BY <1>1, <1>5, AppendKeeps DEF InFlight
<1> QED  BY <1>2, <1>3, <1>4, <1>5 DEF InFlight, Unparsed

(* SwapResults,                                                            *)
LEMMA SwapMoves ==
  ASSUME Tables, SwapResults, NEW f, NEW c, InFlight(f, c)
  PROVE  InFlight(f, c)'
<1>1. /\ local = <<>> /\ local' = completed /\ pc = "drained"
      /\ UNCHANGED <<cur, user, tasks, wk>>
  BY DEF Tables, Bookkeeping, SwapResults, tableVars
<1> QED  BY <1>1 DEF InFlight, Unparsed

(* and ApplyResult, which ends one item.                                   *)
LEMMA ApplyMoves ==
  ASSUME Tables, ApplyResult, NEW f \in processing', NEW c, InFlight(f, c)
  PROVE  InFlight(f, c)'
<1>1. /\ local \in Seq(Result) /\ local # <<>> /\ local' = Tail(local) /\ pc = "results"
      /\ UNCHANGED <<user, tasks, wk, completed>>
  BY DEF Tables, TypeOK, ApplyResult, poolVars
<1>2. f # local[1].fd
  BY <1>1 DEF ApplyResult, Unmarked
<1>3. CASE \E i \in DOMAIN local : local[i].fd = f /\ local[i].conn = c
  <2>1. PICK i \in DOMAIN local : local[i].fd = f /\ local[i].conn = c
    BY <1>3
  <2>2. i # 1
    BY <1>2, <2>1
  <2> QED  BY <1>1, <2>1, <2>2, TailKeeps DEF InFlight
<1> QED  BY <1>1, <1>3 DEF InFlight, Unparsed

(* A connection whose close leaves the other descriptors' work alone.      *)
LEMMA CloseConnWork ==
  ASSUME TypeOK, MarkedHasWork, NEW fd \in Fd, CloseConn(fd), pc # "enqueue", UNCHANGED local
  PROVE  MarkedHasWork'
<1>1. /\ processing' = processing \ {fd} /\ user' = [user EXCEPT ![fd] = NoConn]
      /\ UNCHANGED <<tasks, wk, completed>>
  BY DEF CloseConn, Unmarked
<1>2. ASSUME NEW f \in processing'
      PROVE  InFlight(f, user[f])'
  <2>1. f \in Fd /\ f # fd /\ user'[f] = user[f] /\ InFlight(f, user[f])
    BY <1>1 DEF TypeOK, MarkedHasWork
  <2> QED  BY <1>1, <2>1 DEF InFlight, Unparsed
<1> QED  BY <1>2 DEF MarkedHasWork

(* Every step keeps MarkedHasWork.                                         *)
LEMMA WorkStep ==
  ASSUME Tables, MarkedHasWork, [Next]_vars
  PROVE  MarkedHasWork'
<1> USE DEF clientVars, kernelVars, loopVars, tableVars, poolVars, history
<1>1. ASSUME UNCHANGED <<user, tasks, wk, completed, local, processing>>, pc # "enqueue"
      PROVE  MarkedHasWork'
  BY <1>1 DEF MarkedHasWork, InFlight, Unparsed
<1>2. ASSUME UNCHANGED <<pc, cur, user, processing>>,
             \A f \in processing, c \in Conn \cup {NoConn} : InFlight(f, c) => InFlight(f, c)'
      PROVE  MarkedHasWork'
  BY <1>2 DEF MarkedHasWork, Tables, TypeOK
<1>3. CASE UNCHANGED vars \/ Client
  <2>1. UNCHANGED <<pc, cur, user, processing, tasks, wk, completed, local>>
    BY <1>3 DEF vars, Client, Connect, SendSegment, Drain, HangUp, Expire
  <2> QED  BY <2>1 DEF MarkedHasWork, InFlight, Unparsed
<1>4. ASSUME NEW fd \in Fd, CloseExpired(fd) PROVE MarkedHasWork'
  BY <1>4, CloseConnWork DEF CloseExpired, Tables
<1>5. CASE TickDone \/ EpollWait \/ DispatchDone \/ AcceptFails \/ AcceptDone \/ CheckKeepAlive
           \/ ResetAndRead \/ ResultsDone
  <2>1. UNCHANGED <<user, tasks, wk, completed, local, processing>> /\ pc # "enqueue"
    BY <1>5 DEF TickDone, EpollWait, DispatchDone, AcceptFails, AcceptDone, CheckKeepAlive,
                ResetAndRead, ResultsDone
  <2> QED  BY <1>1, <2>1
<1>6. ASSUME NEW e \in batch,
             SkipEvent(e) \/ HandleListen(e) \/ DrainWakeup(e) \/ HandleWrite(e)
      PROVE  MarkedHasWork'
  <2>1. UNCHANGED <<user, tasks, wk, completed, local, processing>> /\ pc # "enqueue"
    BY <1>6 DEF SkipEvent, HandleListen, DrainWakeup, HandleWrite, Taken
  <2> QED  BY <1>1, <2>1
<1>7. ASSUME NEW e \in batch, CloseOnHangUp(e) PROVE MarkedHasWork'
  BY <1>7, CloseConnWork DEF CloseOnHangUp, Taken, Tables
<1>8. ASSUME NEW e \in batch, HandleRead(e) PROVE MarkedHasWork'
  <2>1. /\ pc = "dispatch" /\ e.fd \in Fd /\ user[e.fd] # NoConn
        /\ UNCHANGED <<user, tasks, wk, completed, local>>
    BY <1>8 DEF HandleRead, Taken
  <2>2. Registered(e.fd)
    BY <2>1 DEF Tables, TablesAgree, Registered
  <2>3. processing' = processing \/ (processing' = processing \cup {e.fd} /\ pc' = "enqueue"
                                     /\ cur' = e.fd)
    BY <1>8, <2>2 DEF HandleRead
  <2>4. ASSUME NEW f \in processing
        PROVE  InFlight(f, user[f])'
    BY <2>1 DEF MarkedHasWork, InFlight, Unparsed
  <2>5. ASSUME pc' = "enqueue", cur' = e.fd
        PROVE  InFlight(e.fd, user[e.fd])'
    BY <2>5 DEF InFlight, Unparsed
  <2> QED  BY <2>3, <2>4, <2>5 DEF MarkedHasWork
<1>9. ASSUME NEW c \in Conn, NEW fd \in Fd, AcceptOne(c, fd) PROVE MarkedHasWork'
  <2>1. /\ sock[fd] = NoConn /\ user' = [user EXCEPT ![fd] = c] /\ pc = "accept"
        /\ UNCHANGED <<processing, tasks, wk, completed, local>>
    BY <1>9 DEF AcceptOne
  <2>2. fd \notin processing
    BY <2>1 DEF Tables, TablesAgree, MarkedIffDeaf, kProcessEvent
  <2>3. ASSUME NEW f \in processing'
        PROVE  InFlight(f, user[f])'
    <3>1. user'[f] = user[f] /\ InFlight(f, user[f])
      BY <2>1, <2>2 DEF Tables, TypeOK, MarkedHasWork
    <3> QED  BY <2>1, <3>1 DEF InFlight, Unparsed
  <2> QED  BY <2>3 DEF MarkedHasWork
<1>10. ASSUME NEW c \in Conn, NEW fd \in Fd, AcceptNotAdded(c, fd) PROVE MarkedHasWork'
  <2>1. UNCHANGED <<user, tasks, wk, completed, local, processing>> /\ pc # "enqueue"
    BY <1>10 DEF AcceptNotAdded
  <2> QED  BY <1>1, <2>1
<1>11. CASE Enqueue
  <2>1. UNCHANGED <<user, processing>>
    BY <1>11 DEF Enqueue
  <2> QED  BY <1>11, <2>1, EnqueueMoves DEF MarkedHasWork
<1>12. CASE CloseCurrent
  <2>1. cur \in Fd /\ CloseConn(cur) /\ pc # "enqueue" /\ UNCHANGED local
    BY <1>12 DEF CloseCurrent, Tables, TablesAgree, Midway
  <2> QED  BY <2>1, CloseConnWork DEF Tables
<1>13. CASE SwapResults
  <2>1. UNCHANGED <<user, processing>>
    BY <1>13 DEF SwapResults
  <2> QED  BY <1>13, <2>1, SwapMoves DEF MarkedHasWork
<1>14. CASE ApplyResult
  <2>1. user' = user /\ processing' \subseteq processing
    BY <1>14 DEF ApplyResult, Unmarked
  <2> QED  BY <1>14, <2>1, ApplyMoves DEF MarkedHasWork
<1>15. ASSUME NEW w \in Worker, Pop(w) \/ BeginProcess(w) \/ EndProcess(w) \/ PushResult(w)
       PROVE  MarkedHasWork'
  <2>1. UNCHANGED <<pc, cur, user, processing>>
    BY <1>15 DEF Pop, BeginProcess, EndProcess, PushResult
  <2> QED  BY <1>2, <1>15, <2>1, PopMoves, ProcessMoves, PushMoves
<1>16. ASSUME NEW w \in Worker, WriteWakeup(w) PROVE MarkedHasWork'
  <2>1. /\ UNCHANGED <<pc, cur, user, processing, tasks, completed, local>>
        /\ \A v \in Worker : wk[v].st # "pushed" => wk'[v] = wk[v]
    BY <1>16 DEF WriteWakeup, Tables, TypeOK
  <2> QED  BY <2>1 DEF MarkedHasWork, InFlight, Unparsed
<1> QED
  BY <1>3, <1>4, <1>5, <1>6, <1>7, <1>8, <1>9, <1>10, <1>11, <1>12, <1>13, <1>14, <1>15, <1>16
     DEF Next, Loop, Pool

(* A descriptor that was made deaf to its client always has work in flight *)
(* for that very connection: queued, with a worker, or a result on its way *)
(* back.  Nothing between handleRead and handleWakeup loses it.            *)
THEOREM MarkedAlwaysHasWork == Spec => []MarkedHasWork
<1>1. Init => MarkedHasWork
  BY DEF Init, MarkedHasWork
<1>2. Tables /\ MarkedHasWork /\ [Next]_vars => MarkedHasWork'
  BY WorkStep
<1> QED  BY <1>1, <1>2, TablesInvariant, PTL DEF Spec

-----------------------------------------------------------------------------
(* The eventfd protocol.                                                   *)
LEMMA WakeupStep ==
  ASSUME Tables, NoLostWakeup, [Next]_vars
  PROVE  NoLostWakeup'
<1> USE WebServerAssumption
<1> USE DEF clientVars, kernelVars, loopVars, tableVars, poolVars, history
<1>1. ASSUME UNCHANGED <<evfd, completed, wk>>, pc # "drained",
             WakeupFd \in rdl => WakeupFd \in rdl',
             \A e \in batch : e.fd = WakeupFd => e \in batch'
      PROVE  NoLostWakeup'
  BY <1>1 DEF NoLostWakeup
<1>2. CASE UNCHANGED vars
  BY <1>2 DEF vars, NoLostWakeup
<1>3. CASE Client
  <2>1. UNCHANGED <<evfd, completed, wk, pc, batch>> /\ rdl \subseteq rdl'
    BY <1>3 DEF Client, Connect, SendSegment, Drain, HangUp, Expire, Edge
  <2> QED  BY <2>1 DEF NoLostWakeup
<1>4. ASSUME NEW fd \in Fd, CloseExpired(fd) PROVE NoLostWakeup'
  <2>1. /\ UNCHANGED <<evfd, completed, wk, batch>> /\ pc # "drained" /\ rdl' = rdl \ {fd}
    BY <1>4 DEF CloseExpired, CloseConn
  <2> QED  BY <1>1, <2>1
<1>5. CASE EpollWait
  <2>1. WakeupFd \in rdl /\ evfd => \E e \in Reported : e.fd = WakeupFd
    <3>1. SUFFICES ASSUME WakeupFd \in rdl, evfd
                   PROVE  [fd |-> WakeupFd, ev |-> {"IN"}, conn |-> NoConn] \in Reported
      OBVIOUS
    <3>2. WakeupFd \in {y \in {WakeupFd} : y \in rdl /\ evfd}
      BY <3>1
    <3> QED  BY <3>2 DEF Reported
  <2>2. UNCHANGED <<evfd, completed, wk>> /\ pc = "wait" /\ batch' = Reported /\ batch = {}
    BY <1>5 DEF EpollWait, Tables, Bookkeeping
  <2> QED  BY <2>1, <2>2 DEF NoLostWakeup
<1>6. CASE TickDone \/ DispatchDone \/ AcceptFails \/ AcceptDone \/ Enqueue \/ CheckKeepAlive
           \/ ResultsDone
  <2>1. UNCHANGED <<evfd, completed, wk, batch, rdl>> /\ pc # "drained"
    BY <1>6 DEF TickDone, DispatchDone, AcceptFails, AcceptDone, Enqueue, CheckKeepAlive, ResultsDone
  <2> QED  BY <1>1, <2>1
<1>7. ASSUME NEW e \in batch, SkipEvent(e) \/ HandleListen(e) \/ HandleWrite(e) PROVE NoLostWakeup'
  <2>1. /\ UNCHANGED <<evfd, completed, wk, rdl>> /\ pc # "drained" /\ batch' = batch \ {e}
        /\ e.fd # WakeupFd
    BY <1>7 DEF SkipEvent, HandleListen, HandleWrite, Taken
  <2> QED  BY <1>1, <2>1
<1>8. ASSUME NEW e \in batch, CloseOnHangUp(e) PROVE NoLostWakeup'
  <2>1. /\ UNCHANGED <<evfd, completed, wk>> /\ pc # "drained" /\ batch' = batch \ {e}
        /\ e.fd # WakeupFd /\ rdl' = rdl \ {e.fd}
    BY <1>8 DEF CloseOnHangUp, CloseConn, Taken
  <2> QED  BY <1>1, <2>1
<1>9. ASSUME NEW e \in batch, HandleRead(e) PROVE NoLostWakeup'
  <2>1. /\ UNCHANGED <<evfd, completed, wk>> /\ pc # "drained" /\ batch' = batch \ {e}
        /\ e.fd # WakeupFd
    BY <1>9 DEF HandleRead, Taken
  <2>2. rdl \subseteq rdl'
    BY <1>9 DEF HandleRead, ModFd, Rearmed
  <2> QED  BY <1>1, <2>1, <2>2
<1>10. ASSUME NEW e \in batch, DrainWakeup(e) PROVE NoLostWakeup'
  BY <1>10 DEF DrainWakeup, NoLostWakeup
<1>11. ASSUME NEW c \in Conn, NEW fd \in Fd, AcceptOne(c, fd) \/ AcceptNotAdded(c, fd)
       PROVE  NoLostWakeup'
  <2>1. UNCHANGED <<evfd, completed, wk, batch>> /\ pc # "drained" /\ rdl \subseteq rdl'
    BY <1>11 DEF AcceptOne, AcceptNotAdded, Rearmed
  <2> QED  BY <1>1, <2>1
<1>12. CASE CloseCurrent
  <2>1. cur \in Fd
    BY <1>12 DEF CloseCurrent, Tables, TablesAgree, Midway
  <2>2. UNCHANGED <<evfd, completed, wk, batch>> /\ pc # "drained" /\ rdl' = rdl \ {cur}
    BY <1>12 DEF CloseCurrent, CloseConn
  <2> QED  BY <1>1, <2>1, <2>2
<1>13. CASE ResetAndRead \/ ApplyResult
  <2>1. UNCHANGED <<evfd, completed, wk, batch>> /\ pc # "drained"
    BY <1>13 DEF ResetAndRead, ApplyResult
  <2>2. rdl \subseteq rdl'
    BY <1>13 DEF ResetAndRead, ApplyResult, ModFd, Rearmed
  <2> QED  BY <1>1, <2>1, <2>2
<1>14. CASE SwapResults
  BY <1>14 DEF SwapResults, NoLostWakeup
<1>15. ASSUME NEW w \in Worker, Pop(w) \/ BeginProcess(w) \/ EndProcess(w) PROVE NoLostWakeup'
  <2>1. UNCHANGED <<evfd, completed, rdl, batch, pc>> /\ wk[w].st # "pushed"
    BY <1>15 DEF Pop, BeginProcess, EndProcess
  <2>2. \A v \in Worker \ {w} : wk'[v] = wk[v]
    BY <1>15 DEF Pop, BeginProcess, EndProcess, Tables, TypeOK
  <2> QED  BY <2>1, <2>2 DEF NoLostWakeup
<1>16. ASSUME NEW w \in Worker, PushResult(w) PROVE NoLostWakeup'
  <2>1. UNCHANGED <<evfd, rdl, batch>> /\ wk'[w].st = "pushed"
    BY <1>16 DEF PushResult, Idle, Tables, TypeOK
  <2> QED  BY <2>1 DEF NoLostWakeup
<1>17. ASSUME NEW w \in Worker, WriteWakeup(w) PROVE NoLostWakeup'
  BY <1>17 DEF WriteWakeup, NoLostWakeup
<1> QED
  BY <1>2, <1>3, <1>4, <1>5, <1>6, <1>7, <1>8, <1>9, <1>10, <1>11, <1>12, <1>13, <1>14, <1>15,
     <1>16, <1>17 DEF Next, Loop, Pool

(* A result in completed_results_ always has a wakeup on its way: draining *)
(* the eventfd before taking the queue is the order that is needed.        *)
THEOREM WakeupNeverLost == Spec => []NoLostWakeup
<1>1. Init => NoLostWakeup
  BY DEF Init, NoLostWakeup
<1>2. Tables /\ NoLostWakeup /\ [Next]_vars => NoLostWakeup'
  BY WakeupStep
<1> QED  BY <1>1, <1>2, TablesInvariant, PTL DEF Spec

-----------------------------------------------------------------------------
(* What NoLostEdge says of one descriptor and of the clients waiting to be *)
(* accepted.                                                               *)
Covered(f, k) == f \in rdl \/ \E e \in batch : e.fd = f /\ k \in e.ev

Watched(f) == \A k \in Poll(sock[f]) \cap interest[f] : Covered(f, k)

BacklogSeen ==
  backlog \ stranded # {} =>
    \/ ServerFd \in rdl \/ pc = "accept"
    \/ \E e \in batch : e.fd = ServerFd

(* What NoLostEdge rests on: a handler about to queue its connection has   *)
(* armed it again already, no handler at work means no current descriptor, *)
(* and every mask lets a hang-up through.                                  *)
EdgesKept ==
  /\ \A f \in Fd : f # cur \/ pc = "enqueue" => Watched(f)
  /\ BacklogSeen
  /\ pc \notin Midway => cur = NoFd
  /\ \A f \in Fd : interest[f] # {} => "HUP" \in interest[f]

(* A descriptor stays watched while its socket gains nothing to report and *)
(* neither the ready list nor the batch gives it up.                       *)
LEMMA WatchedStays ==
  ASSUME NEW f \in Fd, Watched(f), sock'[f] = sock[f], interest'[f] \subseteq interest[f],
         sock[f] # NoConn => /\ inb'[sock[f]] = inb[sock[f]] /\ peer'[sock[f]] = peer[sock[f]]
                             /\ space'[sock[f]] => space[sock[f]],
         f \in rdl => f \in rdl',
         \A e \in batch : e.fd = f => e \in batch'
  PROVE  Watched(f)'
<1>1. \A k \in Poll(sock[f])' : k \in Poll(sock[f])
  BY DEF Poll
<1> QED  BY <1>1 DEF Watched, Covered

(* EPOLL_CTL_ADD and EPOLL_CTL_MOD look at the socket at once.             *)
LEMMA WatchedArmed ==
  ASSUME NEW f \in Fd, Poll(sock[f])' \cap interest'[f] # {} => f \in rdl'
  PROVE  Watched(f)'
BY DEF Watched, Covered

(* MOD leaves every descriptor watched: re-arming puts a ready descriptor  *)
(* on the ready list.                                                      *)
LEMMA ModFdWatches ==
  ASSUME TypeOK, NEW fd \in Fd, NEW mask, ModFd(fd, mask), Registered(fd),
         UNCHANGED sock, Poll(sock[fd])' \cap mask \subseteq Poll(sock[fd])
  PROVE  /\ Watched(fd)'
         /\ rdl \subseteq rdl'
         /\ \A f \in Fd \ {fd} : interest'[f] = interest[f]
         /\ interest'[fd] = mask
<1>1. interest' = [interest EXCEPT ![fd] = mask] /\ rdl' = Rearmed(sock[fd], fd, mask)
  BY DEF ModFd
<1>2. Poll(sock[fd])' \cap interest'[fd] # {} => fd \in rdl'
  BY <1>1 DEF Rearmed, TypeOK
<1> QED  BY <1>1, <1>2, WatchedArmed DEF Rearmed, TypeOK

(* Something happens to a client's socket: every registered descriptor of  *)
(* it hears of it, the others are not concerned.                           *)
LEMMA EdgeWatches ==
  ASSUME TypeOK, EdgesKept, NEW c \in Conn, NEW e, Edge(c, e), UNCHANGED <<sock, interest, batch>>,
         \A d \in Conn \ {c} : inb'[d] = inb[d] /\ peer'[d] = peer[d] /\ space'[d] = space[d],
         \A k \in Poll(c)' : k \in Poll(c) \/ \A f \in Fd : k \in interest[f] => e \in interest[f],
         NEW f \in Fd, Watched(f)
  PROVE  Watched(f)'
<1>1. rdl' = rdl \cup {g \in Fd : sock[g] = c /\ e \in interest[g]}
  BY DEF Edge, FdsOf
<1>2. CASE sock[f] # c
  <2>1. sock[f] # NoConn => sock[f] \in Conn \ {c}
    BY <1>2 DEF TypeOK
  <2> QED  BY <1>1, <2>1, WatchedStays
<1>3. CASE sock[f] = c
  <2>1. \A k \in Poll(c)' \cap interest[f] : k \in Poll(c) \/ f \in rdl'
    BY <1>1, <1>3
  <2>2. rdl \subseteq rdl'
    BY <1>1
  <2>3. Poll(sock[f])' = Poll(c)'
    BY <1>3
  <2> QED  BY <1>3, <2>1, <2>2, <2>3 DEF Watched, Covered
<1> QED  BY <1>2, <1>3

(* write() never finds room that was not there, and asks for more time only *)
(* on a socket that is full and not reset.                                 *)
LEMMA WriteRoom ==
  ASSUME NEW c \in ConnObject, NEW room \in BOOLEAN, NEW ps, NEW w \in Write(c, room, ps)
  PROVE  /\ w.room => room
         /\ w.res = "AGAIN" => ~w.room /\ ps # "rst"
<1>1. CASE c.toSend = 0
  BY <1>1 DEF Write
<1>2. CASE c.toSend # 0 /\ ps = "rst"
  BY <1>2 DEF Write
<1>3. CASE c.toSend # 0 /\ ps # "rst" /\ ~room
  <2>1. w = [conn |-> c, res |-> "AGAIN", room |-> FALSE]
    BY <1>3, Zenon DEF Write
  <2>2. w.room = FALSE
    BY <2>1
  <2> QED  BY <1>3, <2>2, Zenon
<1>4. CASE c.toSend # 0 /\ ps # "rst" /\ room
  <2>1. CASE w \in {[conn |-> Sent(c, c.toSend), res |-> "DONE", room |-> r] : r \in BOOLEAN}
    BY <1>4, <2>1
  <2>2. CASE w \in {[conn |-> Sent(c, n), res |-> "AGAIN", room |-> FALSE] :
                      n \in 1..(c.toSend - 1)}
    <3>1. PICK n \in 1..(c.toSend - 1) :
             w = [conn |-> Sent(c, n), res |-> "AGAIN", room |-> FALSE]
      BY <2>2
    <3> QED  BY <1>4, <3>1
  <2> QED  BY <1>4, <2>1, <2>2, Zenon DEF Write
<1> QED  BY <1>1, <1>2, <1>3, <1>4

(* Two descriptors never have the same socket.                             *)
LEMMA OwnSocket ==
  ASSUME TypeOK, TablesAgree, NEW f \in Fd, NEW g \in Fd, sock[f] = sock[g], sock[f] # NoConn
  PROVE  f = g
BY DEF TablesAgree

(* CloseConn: the closed descriptor has no mask left, and no other one     *)
(* loses its event.                                                        *)
LEMMA CloseConnEdges ==
  ASSUME Tables, EdgesKept, NEW fd \in Fd, user[fd] # NoConn, CloseConn(fd),
         cur \in {fd, NoFd}, pc' \notin Midway, cur' = NoFd,
         \A e \in batch : e.fd # fd => e \in batch', pc # "accept", stranded' = stranded
  PROVE  EdgesKept'
<1> USE ConnectionAssumption, WebServerAssumption DEF Tables
<1>1. /\ interest' = [interest EXCEPT ![fd] = {}] /\ rdl' = rdl \ {fd}
      /\ backlog' = backlog /\ space' = space
  BY DEF CloseConn
<1>2. ClosedNumber(fd) = fd
  BY DEF ClosedNumber, TablesAgree
<1>3. /\ sock' = [f \in Fd |-> IF f = fd THEN NoConn ELSE sock[f]]
      /\ peer' = [k \in Conn |-> IF k = sock[fd] THEN "gone" ELSE peer[k]]
      /\ inb' = [k \in Conn |-> IF k = sock[fd] THEN 0 ELSE inb[k]]
  BY <1>2 DEF CloseConn
<1>4. ASSUME NEW f \in Fd
      PROVE  Watched(f)' /\ (interest'[f] # {} => "HUP" \in interest'[f])
  <2>1. CASE f = fd
    <3>1. interest'[f] = {}
      BY <1>1, <2>1 DEF TypeOK
    <3> QED  BY <3>1 DEF Watched
  <2>2. CASE f # fd
    <3>1. Watched(f)
      BY <2>2 DEF EdgesKept
    <3>2. sock[f] # NoConn => sock[f] \in Conn /\ sock[f] # sock[fd]
      BY <2>2, OwnSocket DEF TypeOK
    <3>3. interest'[f] = interest[f] /\ sock'[f] = sock[f] /\ (f \in rdl => f \in rdl')
      BY <1>1, <1>3, <2>2 DEF TypeOK
    <3>4. Watched(f)'
      BY <1>1, <1>3, <2>2, <3>1, <3>2, <3>3, WatchedStays
    <3> QED  BY <3>3, <3>4 DEF EdgesKept
  <2> QED  BY <2>1, <2>2
<1>5. BacklogSeen'
  BY <1>1 DEF EdgesKept, BacklogSeen
<1> QED  BY <1>4, <1>5 DEF EdgesKept

(* Every step keeps EdgesKept.                                             *)
LEMMA EdgesStep ==
  ASSUME Tables, EdgesKept, [Next]_vars
  PROVE  EdgesKept'
<1> USE ConnectionAssumption, WebServerAssumption DEF Tables
<1> USE DEF clientVars, kernelVars, loopVars, tableVars, poolVars, history
<1>0. /\ "HUP" \in kReadEvent /\ "HUP" \in kWriteEvent /\ "HUP" \in kProcessEvent
      /\ kProcessEvent = {"HUP"}
  BY DEF kReadEvent, kWriteEvent, kProcessEvent
<1>1. ASSUME UNCHANGED <<peer, inb, space, sock, interest, rdl, batch>>,
             \A f \in Fd : f # cur' \/ pc' = "enqueue" => f # cur \/ pc = "enqueue",
             BacklogSeen', pc' \notin Midway => cur' = NoFd
      PROVE  EdgesKept'
  <2>1. \A f \in Fd : Watched(f) => Watched(f)'
    BY <1>1, WatchedStays
  <2> QED  BY <1>1, <2>1 DEF EdgesKept
<1>2. CASE UNCHANGED vars
  BY <1>1, <1>2 DEF vars, EdgesKept, BacklogSeen
<1>3. ASSUME NEW c \in Conn, NEW e, Edge(c, e), UNCHANGED <<sock, interest, loopVars, backlog, stranded>>,
             \A d \in Conn \ {c} : inb'[d] = inb[d] /\ peer'[d] = peer[d] /\ space'[d] = space[d],
             \A k \in Poll(c)' : k \in Poll(c) \/ \A f \in Fd : k \in interest[f] => e \in interest[f]
      PROVE  EdgesKept'
  <2>1. \A f \in Fd : Watched(f) => Watched(f)'
    BY <1>3, EdgeWatches
  <2>2. BacklogSeen'
    BY <1>3 DEF EdgesKept, BacklogSeen, Edge
  <2> QED  BY <1>3, <2>1, <2>2 DEF EdgesKept, Midway
<1>4. ASSUME NEW c \in Conn, Connect(c) PROVE EdgesKept'
  <2>1. /\ UNCHANGED <<inb, space, sock, interest, batch, pc, cur>> /\ rdl' = rdl \cup {ServerFd}
        /\ peer[c] = "idle" /\ peer' = [peer EXCEPT ![c] = "open"]
    BY <1>4 DEF Connect
  <2>2. \A f \in Fd : sock[f] # c
    BY <2>1 DEF TablesAgree, Bookkeeping
  <2>3. \A f \in Fd : Watched(f) => Watched(f)'
    <3>1. \A d \in Conn : d # c => peer'[d] = peer[d]
      BY <2>1 DEF TypeOK
    <3>2. \A f \in Fd : sock[f] # NoConn => sock[f] \in Conn /\ sock[f] # c
      BY <2>2 DEF TypeOK
    <3> QED  BY <2>1, <3>1, <3>2, WatchedStays
  <2>4. BacklogSeen'
    BY <2>1 DEF BacklogSeen
  <2> QED  BY <2>1, <2>3, <2>4 DEF EdgesKept, Midway
<1>5. ASSUME NEW c \in Conn, SendSegment(c) PROVE EdgesKept'
  <2>1. \A k \in Poll(c)' : k \in Poll(c) \/ k = "IN"
    BY <1>5 DEF SendSegment, Poll
  <2>2. \A d \in Conn \ {c} : inb'[d] = inb[d] /\ peer'[d] = peer[d] /\ space'[d] = space[d]
    BY <1>5 DEF SendSegment, TypeOK
  <2>3. Edge(c, "IN") /\ UNCHANGED <<sock, interest, loopVars, backlog, stranded>>
    BY <1>5 DEF SendSegment
  <2> QED  BY <1>3, <2>1, <2>2, <2>3
<1>6. ASSUME NEW c \in Conn, Drain(c) PROVE EdgesKept'
  <2>1. \A k \in Poll(c)' : k \in Poll(c) \/ k = "OUT"
    BY <1>6 DEF Drain, Poll
  <2>2. \A d \in Conn \ {c} : inb'[d] = inb[d] /\ peer'[d] = peer[d] /\ space'[d] = space[d]
    BY <1>6 DEF Drain, TypeOK
  <2>3. Edge(c, "OUT") /\ UNCHANGED <<sock, interest, loopVars, backlog, stranded>>
    BY <1>6 DEF Drain
  <2> QED  BY <1>3, <2>1, <2>2, <2>3
<1>7. ASSUME NEW c \in Conn, NEW how \in {"fin", "rst"}, HangUp(c, how) PROVE EdgesKept'
  <2>1. \A f \in Fd : interest[f] # {} => "HUP" \in interest[f]
    BY DEF EdgesKept
  <2>2. \A d \in Conn \ {c} : inb'[d] = inb[d] /\ peer'[d] = peer[d] /\ space'[d] = space[d]
    BY <1>7 DEF HangUp, TypeOK
  <2>3. Edge(c, "HUP") /\ UNCHANGED <<sock, interest, loopVars, backlog, stranded>>
    BY <1>7 DEF HangUp
  <2> QED  BY <1>3, <2>1, <2>2, <2>3
<1>8. ASSUME NEW fd \in Fd, Expire(fd) PROVE EdgesKept'
  BY <1>1, <1>8 DEF Expire, EdgesKept, BacklogSeen
<1>9. ASSUME NEW fd \in Fd, CloseExpired(fd) PROVE EdgesKept'
  <2>1. /\ user[fd] # NoConn /\ CloseConn(fd) /\ pc \notin Midway /\ pc # "accept"
        /\ UNCHANGED <<pc, cur, batch, stranded>>
    BY <1>9 DEF CloseExpired, TablesAgree, Midway
  <2>2. cur = NoFd
    BY <2>1 DEF EdgesKept
  <2> QED  BY <2>1, <2>2, CloseConnEdges
<1>10. CASE EpollWait
  <2>1. /\ batch' = Reported /\ batch = {} /\ pc = "wait" /\ pc' = "tick"
        /\ UNCHANGED <<clientVars, sock, interest, cur, stranded>>
    BY <1>10 DEF EpollWait, Bookkeeping
  <2>2. ASSUME NEW f \in Fd, Watched(f) PROVE Watched(f)'
    <3>1. Poll(sock[f])' = Poll(sock[f])
      BY <2>1 DEF Poll
    <3>2. SUFFICES ASSUME NEW k \in Poll(sock[f]) \cap interest[f]
                   PROVE  \E e \in Reported : e.fd = f /\ k \in e.ev
      BY <2>1, <3>1 DEF Watched, Covered
    <3> DEFINE e == [fd |-> f, ev |-> Poll(sock[f]) \cap interest[f], conn |-> sock[f]]
    <3>3. f \in rdl
      BY <2>1, <2>2 DEF Watched, Covered
    <3>4. e \in Reported
      BY <3>2, <3>3 DEF Reported
    <3> QED  BY <3>4
  <2>3. BacklogSeen'
    <3>1. SUFFICES ASSUME backlog \ stranded # {}, ServerFd \in rdl
                   PROVE  [fd |-> ServerFd, ev |-> {"IN"}, conn |-> NoConn] \in Reported
      BY <2>1 DEF EdgesKept, BacklogSeen
    <3>2. ServerFd \in {y \in {ServerFd} : y \in rdl /\ backlog # {}}
      BY <3>1
    <3> QED  BY <3>2 DEF Reported
  <2> QED  BY <2>1, <2>2, <2>3 DEF EdgesKept, Midway
<1>11. CASE TickDone \/ DispatchDone
  BY <1>1, <1>11 DEF TickDone, DispatchDone, EdgesKept, BacklogSeen, Midway
<1>12. CASE AcceptFails \/ AcceptDone
  BY <1>1, <1>12 DEF AcceptFails, AcceptDone, EdgesKept, BacklogSeen, Midway
<1>13. CASE SwapResults \/ ResultsDone
  BY <1>1, <1>13 DEF SwapResults, ResultsDone, EdgesKept, BacklogSeen, Midway
<1>14. CASE Pool
  <2>1. UNCHANGED <<peer, inb, space, backlog, sock, interest, batch, pc, cur, stranded>>
    BY <1>14 DEF Pool, Pop, BeginProcess, EndProcess, PushResult, WriteWakeup
  <2>2. rdl \subseteq rdl'
    BY <1>14 DEF Pool, Pop, BeginProcess, EndProcess, PushResult, WriteWakeup
  <2>3. \A f \in Fd : Watched(f) => Watched(f)'
    BY <2>1, <2>2, WatchedStays
  <2> QED  BY <2>1, <2>2, <2>3 DEF EdgesKept, BacklogSeen, Midway
<1>15. ASSUME NEW f \in Fd, pc \notin Midway
       PROVE  Watched(f) /\ cur = NoFd
  BY <1>15 DEF EdgesKept
<1>16. ASSUME NEW e \in batch, SkipEvent(e) \/ HandleListen(e) \/ DrainWakeup(e) PROVE EdgesKept'
  <2>1. /\ UNCHANGED <<peer, inb, space, backlog, sock, interest, rdl, cur, stranded>>
        /\ pc = "dispatch" /\ batch' = batch \ {e} /\ pc' \notin Midway
    BY <1>16 DEF SkipEvent, HandleListen, DrainWakeup, Taken, Midway
  <2>2. ASSUME NEW f \in Fd PROVE Watched(f)'
    <3>1. CASE e.fd = f
      <4>1. interest[f] = {}
        BY <1>16, <3>1 DEF SkipEvent, HandleListen, DrainWakeup, TablesAgree
      <4> QED  BY <2>1, <4>1 DEF Watched
    <3>2. CASE e.fd # f
      BY <1>15, <2>1, <3>2, WatchedStays DEF Midway
    <3> QED  BY <3>1, <3>2
  <2>3. BacklogSeen'
    <3>1. e.fd = ServerFd => pc' = "accept"
      BY <1>16 DEF SkipEvent, HandleListen, DrainWakeup
    <3> QED  BY <2>1, <3>1 DEF EdgesKept, BacklogSeen
  <2> QED  BY <2>1, <2>2, <2>3 DEF EdgesKept, Midway
<1>17. ASSUME NEW e \in batch, CloseOnHangUp(e) PROVE EdgesKept'
  <2>1. /\ e.fd \in Fd /\ user[e.fd] # NoConn /\ CloseConn(e.fd) /\ pc = "dispatch"
        /\ batch' = batch \ {e} /\ UNCHANGED <<pc, cur, stranded>>
    BY <1>17 DEF CloseOnHangUp, Taken
  <2>2. cur = NoFd /\ pc' \notin Midway
    BY <2>1 DEF EdgesKept, Midway
  <2> QED  BY <2>1, <2>2, CloseConnEdges
<1>18. ASSUME NEW e \in batch, HandleRead(e) PROVE EdgesKept'
  <2> DEFINE fd == e.fd
             c == user[fd]
  <2>1. /\ fd \in Fd /\ c # NoConn /\ pc = "dispatch" /\ batch' = batch \ {e} /\ "IN" \in e.ev
        /\ UNCHANGED <<peer, space, backlog, sock, stranded>>
    BY <1>18 DEF HandleRead, Taken
  <2>2. c = sock[fd] /\ Registered(fd) /\ fd \notin processing
    BY <2>1 DEF TablesAgree, Registered, NoEventWhileMarked
  <2>3. \A d \in Conn : d # c => inb'[d] = inb[d]
    BY <1>18 DEF HandleRead, TypeOK
  <2>4. /\ rdl \subseteq rdl' /\ \A f \in Fd \ {fd} : interest'[f] = interest[f]
        /\ cur' = fd /\ pc' \in {"close", "enqueue"}
        /\ pc' = "enqueue" => Watched(fd)'
        /\ interest'[fd] \in {interest[fd], kProcessEvent}
    <3>1. CASE ReadResult(conn[c], inb[c], peer[c]) # "DONE"
      BY <1>18, <3>1 DEF HandleRead
    <3>2. CASE ReadResult(conn[c], inb[c], peer[c]) = "DONE"
      <4>1. cur' = fd /\ ModFd(fd, kProcessEvent) /\ pc' = "enqueue"
        BY <1>18, <2>2, <3>2 DEF HandleRead
      <4>2. Poll(sock[fd])' \cap kProcessEvent \subseteq Poll(sock[fd])
        BY <1>0, <2>1 DEF Poll
      <4> QED  BY <2>1, <2>2, <4>1, <4>2, ModFdWatches
    <3> QED  BY <3>1, <3>2
  <2>5. ASSUME NEW f \in Fd, f # fd PROVE Watched(f)'
    <3>1. Watched(f)
      BY <1>15, <2>1 DEF Midway
    <3>2. sock[f] # NoConn => sock[f] \in Conn /\ sock[f] # c
      BY <2>1, <2>2, <2>5, OwnSocket DEF TypeOK
    <3> QED  BY <2>1, <2>3, <2>4, <2>5, <3>1, <3>2, WatchedStays
  <2>6. BacklogSeen'
    <3>1. e.fd # ServerFd /\ (ServerFd \in rdl => ServerFd \in rdl')
      BY <2>1, <2>4
    <3> QED  BY <2>1, <3>1 DEF EdgesKept, BacklogSeen
  <2>7. \A f \in Fd : interest'[f] # {} => "HUP" \in interest'[f]
    BY <1>0, <2>4 DEF EdgesKept
  <2> HIDE DEF fd
  <2> QED  BY <2>4, <2>5, <2>6, <2>7 DEF EdgesKept, Midway
<1>19. ASSUME NEW e \in batch, HandleWrite(e) PROVE EdgesKept'
  <2> DEFINE fd == e.fd
             c == user[fd]
  <2>1. /\ fd \in Fd /\ c \in Conn /\ c # NoConn /\ pc = "dispatch" /\ batch' = batch \ {e}
        /\ e.ev = {"OUT"} /\ UNCHANGED <<peer, inb, backlog, kernelVars, stranded>>
    BY <1>19 DEF HandleWrite, Taken, TypeOK
  <2>2. PICK w \in Write(conn[c], space[c], peer[c]) :
          /\ space' = [space EXCEPT ![c] = w.room]
          /\ pc' = CASE w.res = "DONE" -> "sent" [] w.res = "ERROR" -> "close"
                     [] OTHER -> "dispatch"
          /\ cur' = IF w.res = "AGAIN" THEN NoFd ELSE fd
    BY <1>19 DEF HandleWrite
  <2>3. w.res \in {"DONE", "AGAIN", "ERROR"} /\ (w.room => space[c])
        /\ (w.res = "AGAIN" => ~w.room /\ peer[c] # "rst")
    BY <2>1, WriteType, WriteRoom DEF TypeOK
  <2>4. \A d \in Conn : space'[d] => space[d]
    BY <2>1, <2>2, <2>3 DEF TypeOK
  <2>5. c = sock[fd]
    BY <2>1 DEF TablesAgree
  <2>6. ASSUME NEW f \in Fd, f # fd PROVE Watched(f)'
    <3>1. Watched(f)
      BY <1>15, <2>1 DEF Midway
    <3>2. sock[f] # NoConn => sock[f] \in Conn
      BY DEF TypeOK
    <3> QED  BY <2>1, <2>4, <2>6, <3>1, <3>2, WatchedStays
  <2>7. CASE w.res = "AGAIN"
    <3>1. ~space'[c] /\ peer'[c] # "rst" /\ pc' = "dispatch" /\ cur' = NoFd
      BY <2>1, <2>2, <2>3, <2>7 DEF TypeOK
    <3>2. "OUT" \notin Poll(sock[fd])' /\ \A k \in Poll(sock[fd])' : k \in Poll(sock[fd])
      BY <2>1, <2>4, <2>5, <3>1 DEF Poll
    <3>3. Watched(fd)
      BY <1>15, <2>1 DEF Midway
    <3>4. ASSUME NEW k \in Poll(sock[fd])' \cap interest'[fd] PROVE Covered(fd, k)'
      <4>1. k # "OUT" /\ Covered(fd, k)
        BY <2>1, <3>2, <3>3, <3>4 DEF Watched
      <4>2. CASE \E d \in batch : d.fd = fd /\ k \in d.ev
        BY <2>1, <4>1, <4>2 DEF Covered
      <4>3. CASE fd \in rdl
        BY <2>1, <4>3 DEF Covered
      <4> QED  BY <4>1, <4>2, <4>3 DEF Covered
    <3>5. Watched(fd)'
      BY <3>4 DEF Watched
    <3> HIDE DEF fd
    <3>6. BacklogSeen'
      BY <2>1 DEF EdgesKept, BacklogSeen, fd
    <3> QED  BY <2>1, <2>6, <3>1, <3>5, <3>6 DEF EdgesKept, Midway
  <2>8. CASE w.res # "AGAIN"
    <3>1. pc' \in {"sent", "close"} /\ cur' = fd
      BY <2>2, <2>3, <2>8
    <3> HIDE DEF fd
    <3>2. BacklogSeen'
      BY <2>1 DEF EdgesKept, BacklogSeen, fd
    <3> QED  BY <2>1, <2>6, <3>1, <3>2 DEF EdgesKept, Midway
  <2> QED  BY <2>7, <2>8
<1>20. ASSUME NEW c \in Conn, NEW fd \in Fd, AcceptOne(c, fd) PROVE EdgesKept'
  <2>1. /\ pc = "accept" /\ pc' = "accept" /\ c \in backlog /\ sock[fd] = NoConn
        /\ sock' = [sock EXCEPT ![fd] = c] /\ interest' = [interest EXCEPT ![fd] = kReadEvent]
        /\ rdl' = Rearmed(c, fd, kReadEvent) /\ UNCHANGED <<peer, inb, space, batch, cur>>
    BY <1>20 DEF AcceptOne, MoreToAccept
  <2>2. Watched(fd)'
    <3>1. sock'[fd] = c /\ interest'[fd] = kReadEvent
      BY <2>1 DEF TypeOK
    <3>2. Poll(sock[fd])' = Poll(c)
      BY <2>1, <3>1 DEF Poll
    <3> QED  BY <2>1, <3>1, <3>2, WatchedArmed DEF Rearmed
  <2>3. ASSUME NEW f \in Fd, f # fd PROVE Watched(f)'
    <3>1. Watched(f)
      BY <1>15, <2>1 DEF Midway
    <3>2. /\ sock'[f] = sock[f] /\ interest'[f] = interest[f] /\ rdl \subseteq rdl'
      BY <2>1, <2>3 DEF TypeOK, Rearmed
    <3> QED  BY <2>1, <3>1, <3>2, WatchedStays
  <2>4. \A f \in Fd : interest'[f] # {} => "HUP" \in interest'[f]
    BY <1>0, <2>1 DEF EdgesKept, TypeOK
  <2>5. BacklogSeen'
    BY <2>1 DEF BacklogSeen
  <2> QED  BY <1>15, <2>1, <2>2, <2>3, <2>4, <2>5 DEF EdgesKept, Midway
<1>21. ASSUME NEW c \in Conn, NEW fd \in Fd, AcceptNotAdded(c, fd) PROVE EdgesKept'
  <2>1. /\ pc = "accept" /\ c \in backlog /\ UNCHANGED <<space, kernelVars, loopVars>>
        /\ peer' = [peer EXCEPT ![c] = "gone"] /\ inb' = [inb EXCEPT ![c] = 0]
    BY <1>21 DEF AcceptNotAdded
  <2>2. ASSUME NEW f \in Fd PROVE Watched(f)'
    <3>1. Watched(f)
      BY <1>15, <2>1 DEF Midway
    <3>2. sock[f] # c
      BY <2>1 DEF TablesAgree, Bookkeeping
    <3>3. sock[f] # NoConn => sock[f] \in Conn
      BY DEF TypeOK
    <3>4. sock[f] # NoConn => peer'[sock[f]] = peer[sock[f]] /\ inb'[sock[f]] = inb[sock[f]]
      BY <2>1, <3>2, <3>3 DEF TypeOK
    <3> QED  BY <2>1, <3>1, <3>4, WatchedStays
  <2>3. BacklogSeen'
    BY <2>1 DEF BacklogSeen
  <2> QED  BY <2>1, <2>2, <2>3 DEF EdgesKept, Midway
<1>22. CASE Enqueue
  BY <1>1, <1>22 DEF Enqueue, EdgesKept, BacklogSeen, Midway
<1>23. CASE CloseCurrent
  <2>1. /\ pc \in {"close", "closeresult"} /\ cur \in Fd /\ user[cur] # NoConn /\ CloseConn(cur)
        /\ pc' \notin Midway /\ cur' = NoFd /\ UNCHANGED <<batch, stranded>>
    BY <1>23 DEF CloseCurrent, TablesAgree, Midway
  <2> QED  BY <2>1, CloseConnEdges
<1>24. CASE CheckKeepAlive
  BY <1>1, <1>24 DEF CheckKeepAlive, EdgesKept, BacklogSeen, Midway
<1>25. CASE ResetAndRead
  <2>1. PICK fd \in Fd : fd = cur
    BY <1>25 DEF ResetAndRead, TablesAgree, Midway
  <2>2. /\ pc = "reset" /\ Registered(fd) /\ ModFd(fd, kReadEvent)
        /\ pc' = "dispatch" /\ cur' = NoFd /\ UNCHANGED <<clientVars, sock, batch, stranded>>
    BY <1>25, <2>1 DEF ResetAndRead, TablesAgree, Midway, Registered
  <2>3. Poll(sock[fd])' \cap kReadEvent \subseteq Poll(sock[fd])
    BY <2>2 DEF Poll
  <2>4. /\ Watched(fd)' /\ rdl \subseteq rdl' /\ interest'[fd] = kReadEvent
        /\ \A f \in Fd \ {fd} : interest'[f] = interest[f]
    BY <2>1, <2>2, <2>3, ModFdWatches
  <2>5. ASSUME NEW f \in Fd, f # fd PROVE Watched(f)'
    BY <2>1, <2>2, <2>4, <2>5, WatchedStays DEF EdgesKept
  <2>6. BacklogSeen'
    BY <2>2, <2>4 DEF EdgesKept, BacklogSeen
  <2> QED  BY <1>0, <2>2, <2>4, <2>5, <2>6 DEF EdgesKept, Midway
<1>26. CASE ApplyResult
  <2> DEFINE r == Head(local)
             mask == IF r.ready THEN kWriteEvent ELSE kReadEvent
  <2>1. PICK fd \in Fd, m \in {kReadEvent, kWriteEvent} : fd = r.fd /\ m = mask
    <3>1. r \in Result
      BY <1>26 DEF ApplyResult, TypeOK
    <3> QED  BY <3>1 DEF Result
  <2>2. /\ pc = "results" /\ UNCHANGED <<clientVars, sock, batch, stranded>>
        /\ "HUP" \in m
    BY <1>0, <1>26, <2>1 DEF ApplyResult
  <2>3. pc' = "results" /\ cur' = NoFd
    BY <1>26, <2>1 DEF ApplyResult, TablesAgree, Registered
  <2>4. CASE user[fd] # NoConn
    <3>1. ModFd(fd, m) /\ Registered(fd)
      BY <1>26, <2>1, <2>4 DEF ApplyResult, TablesAgree, Registered
    <3>2. Poll(sock[fd])' \cap m \subseteq Poll(sock[fd])
      BY <2>2 DEF Poll
    <3>3. /\ Watched(fd)' /\ rdl \subseteq rdl' /\ interest'[fd] = m
          /\ \A f \in Fd \ {fd} : interest'[f] = interest[f]
      BY <2>1, <2>2, <3>1, <3>2, ModFdWatches
    <3>4. ASSUME NEW f \in Fd, f # fd PROVE Watched(f)'
      BY <1>15, <2>2, <3>3, <3>4, WatchedStays DEF Midway
    <3>5. BacklogSeen'
      BY <2>2, <3>3 DEF EdgesKept, BacklogSeen
    <3> QED  BY <2>2, <2>3, <3>3, <3>4, <3>5 DEF EdgesKept, Midway
  <2>5. CASE user[fd] = NoConn
    <3>1. UNCHANGED <<interest, rdl>>
      BY <1>26, <2>1, <2>5 DEF ApplyResult
    <3>2. BacklogSeen'
      BY <2>2, <2>3, <3>1 DEF EdgesKept, BacklogSeen
    <3>3. \A f \in Fd : f # cur
      BY <2>2 DEF EdgesKept, Midway
    <3> QED  BY <1>1, <2>2, <2>3, <3>1, <3>2, <3>3
  <2> QED  BY <2>4, <2>5
<1> QED
  BY <1>2, <1>4, <1>5, <1>6, <1>7, <1>8, <1>9, <1>10, <1>11, <1>12, <1>13, <1>14, <1>16, <1>17,
     <1>18, <1>19, <1>20, <1>21, <1>22, <1>23, <1>24, <1>25, <1>26 DEF Next, Client, Loop

(* Edge triggering loses nothing: what a descriptor's mask asks for and    *)
(* its socket has is on epoll's ready list, in the batch or the business   *)
(* of the handler at work, and so is a client waiting to be accepted       *)
(* that no failed accept() left behind.                                    *)
THEOREM EdgesNeverLost == Spec => []NoLostEdge
<1>1. Init => EdgesKept
  BY DEF Init, EdgesKept, Watched, BacklogSeen, Midway
<1>2. Tables /\ EdgesKept /\ [Next]_vars => EdgesKept'
  BY EdgesStep
<1>3. EdgesKept => NoLostEdge
  BY DEF EdgesKept, NoLostEdge, Watched, Covered, BacklogSeen
<1> QED  BY <1>1, <1>2, <1>3, TablesInvariant, PTL DEF Spec

-----------------------------------------------------------------------------
(* Input that has been read is shown to the parser.                        *)

(* EndProcess leaves the object and the worker with one outcome.           *)
LEMMA ProcessOutcome ==
  ASSUME NEW w \in Worker, EndProcess(w)
  PROVE  \E p \in Process(conn[wk[w].conn]) :
           /\ conn' = [conn EXCEPT ![wk[w].conn] = p.conn]
           /\ wk' = [wk EXCEPT ![w] = [wk[w] EXCEPT !.st = "processed", !.ready = p.ready]]
BY DEF EndProcess

(* What ReadIsParsed says of one descriptor.                               *)
Parsed(f) ==
  user[f] # NoConn /\ conn[user[f]].got # conn[user[f]].seen
    => Unparsed(f, user[f]) \/ (pc = "close" /\ cur = f)

(* It stays true while the object's input and its unparsed work do.        *)
LEMMA ParsedStays ==
  ASSUME NEW f \in Fd, Parsed(f), NEW c, user[f] = c, user'[f] = c,
         c # NoConn => conn'[c].got = conn[c].got /\ conn'[c].seen = conn[c].seen,
         Unparsed(f, c) => Unparsed(f, c)',
         pc = "close" /\ cur = f => pc' = "close" /\ cur' = f
  PROVE  Parsed(f)'
BY DEF Parsed

(* Nothing takes unparsed work away while tasks and workers stay the same  *)
(* and no connection is about to be queued.                                *)
LEMMA UnparsedStays ==
  ASSUME UNCHANGED <<tasks, wk>>, pc # "enqueue" \/ UNCHANGED <<pc, cur, user>>, NEW f, NEW c,
         Unparsed(f, c)
  PROVE  Unparsed(f, c)'
BY DEF Unparsed

(* write() leaves the input alone; process() shows all of it to the parser.*)
LEMMA WriteInput ==
  ASSUME NEW c \in ConnObject, NEW room \in BOOLEAN, NEW ps, NEW w \in Write(c, room, ps)
  PROVE  w.conn.got = c.got /\ w.conn.seen = c.seen
<1>1. \A n : Sent(c, n).got = c.got /\ Sent(c, n).seen = c.seen
  BY DEF Sent, ConnObject
<1>2. w.conn = c \/ \E n : w.conn = Sent(c, n)
  <2>1. CASE c.toSend = 0
    BY <2>1 DEF Write
  <2>2. CASE c.toSend # 0 /\ ps = "rst"
    BY <2>2 DEF Write
  <2>3. CASE c.toSend # 0 /\ ps # "rst" /\ ~room
    <3>1. w = [conn |-> c, res |-> "AGAIN", room |-> FALSE]
      BY <2>3, Zenon DEF Write
    <3> QED  BY <3>1
  <2>4. CASE c.toSend # 0 /\ ps # "rst" /\ room
    <3>1. CASE w \in {[conn |-> Sent(c, c.toSend), res |-> "DONE", room |-> r] : r \in BOOLEAN}
      BY <3>1
    <3>2. CASE w \in {[conn |-> Sent(c, n), res |-> "AGAIN", room |-> FALSE] :
                        n \in 1..(c.toSend - 1)}
      BY <3>2
    <3> QED  BY <2>4, <3>1, <3>2, Zenon DEF Write
  <2> QED  BY <2>1, <2>2, <2>3, <2>4
<1> QED  BY <1>1, <1>2

(* process() returns when nothing that was read is left unparsed.          *)
LEMMA ProcessInput ==
  ASSUME NEW c \in ConnObject, NEW p \in Process(c)
  PROVE  p.conn.got = p.conn.seen
<1> DEFINE d == Cleared(c)
<1>1. d \in ConnObject /\ d.got = d.seen
  BY ClearedType DEF Cleared, ConnObject
<1>2. CASE p \in Incomplete(c)
  <2>1. p = [conn |-> d, ready |-> FALSE]
    BY <1>2 DEF Incomplete
  <2> HIDE DEF d
  <2> QED  BY <1>1, <2>1
<1>3. CASE p \in BadRequest(c)
  <2>1. p = [conn |-> [d EXCEPT !.keepAlive = FALSE, !.toSend = 1], ready |-> TRUE]
    BY <1>3 DEF BadRequest
  <2> HIDE DEF d
  <2> QED  BY <1>1, <2>1 DEF ConnObject
<1>4. CASE p \in Unanswered(c)
  <2>1. PICK k \in BOOLEAN : p = [conn |-> [d EXCEPT !.keepAlive = k], ready |-> FALSE]
    BY <1>4 DEF Unanswered
  <2> HIDE DEF d
  <2> QED  BY <1>1, <2>1 DEF ConnObject
<1>5. CASE p \in Answered(c)
  <2>1. PICK k \in BOOLEAN, n \in 1..MaxResp :
          p = [conn |-> [d EXCEPT !.keepAlive = k, !.toSend = n], ready |-> TRUE]
    BY <1>5 DEF Answered
  <2> HIDE DEF d
  <2> QED  BY <1>1, <2>1 DEF ConnObject
<1> QED  BY <1>2, <1>3, <1>4, <1>5 DEF Process

(* CloseConn leaves ReadIsParsed true: the closed descriptor has no client. *)
LEMMA CloseConnParsed ==
  ASSUME TypeOK, TablesAgree, ReadIsParsed, NEW fd \in Fd, user[fd] # NoConn, CloseConn(fd),
         pc # "enqueue", pc = "close" => cur = fd
  PROVE  ReadIsParsed'
<1>1. /\ UNCHANGED <<tasks, wk>> /\ user' = [user EXCEPT ![fd] = NoConn]
      /\ conn' = [k \in Conn |-> IF k = user[fd] THEN Released(conn[k]) ELSE conn[k]]
  BY DEF CloseConn
<1>2. ASSUME NEW f \in Fd PROVE Parsed(f)'
  <2>1. CASE f = fd
    BY <1>1, <2>1 DEF Parsed, TypeOK
  <2>2. CASE f # fd
    <3>1. Parsed(f)
      BY DEF ReadIsParsed, Parsed
    <3>2. user'[f] = user[f]
      BY <1>1, <2>2 DEF TypeOK
    <3>3. user[f] # NoConn => user[f] \in Conn /\ user[f] # user[fd]
      BY <2>2 DEF TypeOK, TablesAgree
    <3>4. user[f] # NoConn => conn'[user[f]] = conn[user[f]]
      BY <1>1, <3>3
    <3>5. PICK c : c = user[f]
      OBVIOUS
    <3>6. Unparsed(f, c) => Unparsed(f, c)'
      BY <1>1 DEF Unparsed
    <3> QED  BY <2>2, <3>1, <3>2, <3>4, <3>5, <3>6, ParsedStays
  <2> QED  BY <2>1, <2>2
<1> QED  BY <1>2 DEF ReadIsParsed, Parsed

(* Every step keeps ReadIsParsed.                                          *)
LEMMA ParsedStep ==
  ASSUME Tables, ReadIsParsed, [Next]_vars
  PROVE  ReadIsParsed'
<1> USE ConnectionAssumption, WebServerAssumption DEF Tables
<1> USE DEF clientVars, kernelVars, loopVars, tableVars, poolVars, history
<1>1. \A f \in Fd : Parsed(f)
  BY DEF ReadIsParsed, Parsed
<1>2. ASSUME UNCHANGED user,
             \A c \in Conn : conn'[c].got = conn[c].got /\ conn'[c].seen = conn[c].seen,
             \A f \in Fd, c \in Conn : Unparsed(f, c) => Unparsed(f, c)',
             pc = "close" => pc' = "close" /\ cur' = cur
      PROVE  ReadIsParsed'
  <2>1. ASSUME NEW f \in Fd PROVE Parsed(f)'
    <3>1. CASE user[f] = NoConn
      BY <1>2, <3>1 DEF Parsed
    <3>2. CASE user[f] # NoConn
      <4>1. PICK c \in Conn : c = user[f]
        BY <3>2 DEF TypeOK
      <4> QED  BY <1>1, <1>2, <4>1, ParsedStays
    <3> QED  BY <3>1, <3>2
  <2> QED  BY <2>1 DEF ReadIsParsed, Parsed
<1>3. ASSUME UNCHANGED <<user, tasks, wk>>,
             \A c \in Conn : conn'[c].got = conn[c].got /\ conn'[c].seen = conn[c].seen,
             pc # "enqueue", pc = "close" => pc' = "close" /\ cur' = cur
      PROVE  ReadIsParsed'
  BY <1>2, <1>3, UnparsedStays
<1>4. CASE UNCHANGED vars \/ Client
  <2>1. UNCHANGED <<pc, cur, user, tasks, wk, conn>>
    BY <1>4 DEF vars, Client, Connect, SendSegment, Drain, HangUp, Expire
  <2> QED  BY <1>2, <2>1, UnparsedStays
<1>5. ASSUME NEW fd \in Fd, CloseExpired(fd) PROVE ReadIsParsed'
  <2>1. user[fd] # NoConn /\ CloseConn(fd) /\ pc \notin {"enqueue", "close"}
    BY <1>5 DEF CloseExpired, TablesAgree
  <2> QED  BY <2>1, CloseConnParsed
<1>6. CASE TickDone \/ EpollWait \/ DispatchDone \/ AcceptFails \/ AcceptDone \/ CheckKeepAlive
           \/ SwapResults \/ ApplyResult \/ ResultsDone
  <2>1. UNCHANGED <<user, tasks, wk, conn>> /\ pc \notin {"enqueue", "close"}
    BY <1>6 DEF TickDone, EpollWait, DispatchDone, AcceptFails, AcceptDone, CheckKeepAlive,
                SwapResults, ApplyResult, ResultsDone
  <2> QED  BY <1>3, <2>1
<1>7. ASSUME NEW e \in batch, SkipEvent(e) \/ HandleListen(e) \/ DrainWakeup(e) PROVE ReadIsParsed'
  <2>1. UNCHANGED <<user, tasks, wk, conn>> /\ pc \notin {"enqueue", "close"}
    BY <1>7 DEF SkipEvent, HandleListen, DrainWakeup, Taken
  <2> QED  BY <1>3, <2>1
<1>8. ASSUME NEW e \in batch, CloseOnHangUp(e) PROVE ReadIsParsed'
  <2>1. e.fd \in Fd /\ user[e.fd] # NoConn /\ CloseConn(e.fd) /\ pc = "dispatch"
    BY <1>8 DEF CloseOnHangUp, Taken
  <2> QED  BY <2>1, CloseConnParsed
<1>9. ASSUME NEW e \in batch, HandleRead(e) PROVE ReadIsParsed'
  <2>1. PICK fd \in Fd, c \in Conn : fd = e.fd /\ c = user[fd]
    BY <1>9 DEF HandleRead, TypeOK
  <2>2. /\ pc = "dispatch" /\ "IN" \in e.ev /\ UNCHANGED <<user, tasks, wk>>
        /\ conn' = [conn EXCEPT ![c] = AfterRead(conn[c], inb[c])]
    BY <1>9, <2>1 DEF HandleRead, Taken
  <2>3. Registered(fd) /\ fd \notin processing /\ c # NoConn
    BY <2>1, <2>2 DEF TablesAgree, Registered, NoEventWhileMarked
  <2>4. cur' = fd /\ pc' \in {"close", "enqueue"}
    <3>1. CASE ReadResult(conn[c], inb[c], peer[c]) # "DONE"
      BY <1>9, <2>1, <3>1 DEF HandleRead
    <3>2. CASE ReadResult(conn[c], inb[c], peer[c]) = "DONE"
      BY <1>9, <2>1, <2>3, <3>2 DEF HandleRead
    <3> QED  BY <3>1, <3>2
  <2>5. ASSUME NEW f \in Fd PROVE Parsed(f)'
    <3>1. CASE f = fd
      BY <2>1, <2>2, <2>4, <3>1 DEF Parsed, Unparsed
    <3>2. CASE f # fd /\ user[f] # NoConn
      <4>1. PICK d \in Conn : d = user[f] /\ d # c
        <5>1. user[f] \in Conn /\ conn[user[f]].fd = f /\ conn[c].fd = fd
          BY <2>1, <2>3, <3>2 DEF TypeOK, TablesAgree
        <5> QED  BY <3>2, <5>1
      <4>2. conn'[d] = conn[d]
        BY <2>2, <4>1 DEF TypeOK
      <4> QED  BY <1>1, <2>2, <4>1, <4>2, ParsedStays, UnparsedStays
    <3>3. CASE user[f] = NoConn
      BY <2>2, <3>3 DEF Parsed
    <3> QED  BY <3>1, <3>2, <3>3
  <2> QED  BY <2>5 DEF ReadIsParsed, Parsed
<1>10. ASSUME NEW e \in batch, HandleWrite(e) PROVE ReadIsParsed'
  <2>1. PICK c \in Conn : c = user[e.fd]
    BY <1>10 DEF HandleWrite, TypeOK
  <2>2. PICK w \in Write(conn[c], space[c], peer[c]) : conn' = [conn EXCEPT ![c] = w.conn]
    BY <1>10, <2>1 DEF HandleWrite
  <2>3. w.conn.got = conn[c].got /\ w.conn.seen = conn[c].seen
    BY <2>1, <2>2, WriteInput DEF TypeOK
  <2>4. \A d \in Conn : conn'[d].got = conn[d].got /\ conn'[d].seen = conn[d].seen
    BY <2>1, <2>2, <2>3 DEF TypeOK
  <2>5. UNCHANGED <<user, tasks, wk>> /\ pc = "dispatch"
    BY <1>10 DEF HandleWrite, Taken
  <2> QED  BY <1>3, <2>4, <2>5
<1>11. ASSUME NEW c \in Conn, NEW fd \in Fd, AcceptOne(c, fd) PROVE ReadIsParsed'
  <2>1. /\ pc = "accept" /\ pc' = "accept" /\ UNCHANGED <<tasks, wk>> /\ sock[fd] = NoConn
        /\ user' = [user EXCEPT ![fd] = c] /\ conn' = [conn EXCEPT ![c] = Opened(fd)]
        /\ c \in backlog
    BY <1>11 DEF AcceptOne, MoreToAccept
  <2>2. ASSUME NEW f \in Fd PROVE Parsed(f)'
    <3>1. CASE f = fd
      BY <2>1, <3>1 DEF Parsed, TypeOK, Opened, Unused
    <3>2. CASE f # fd /\ user[f] # NoConn
      <4>1. PICK d \in Conn : d = user[f] /\ d # c
        <5>1. user[f] \in Conn /\ conn[user[f]].fd = f /\ conn[c].fd = NoFd
          BY <2>1, <3>2 DEF TypeOK, TablesAgree, Bookkeeping
        <5> QED  BY <5>1
      <4>2. conn'[d] = conn[d] /\ user'[f] = d
        BY <2>1, <3>2, <4>1 DEF TypeOK
      <4>3. Unparsed(f, d) => Unparsed(f, d)'
        BY <2>1 DEF Unparsed
      <4> QED  BY <1>1, <2>1, <4>1, <4>2, <4>3, ParsedStays
    <3>3. CASE f # fd /\ user[f] = NoConn
      BY <2>1, <3>3 DEF Parsed, TypeOK
    <3> QED  BY <3>1, <3>2, <3>3
  <2> QED  BY <2>2 DEF ReadIsParsed, Parsed
<1>12. ASSUME NEW c \in Conn, NEW fd \in Fd, AcceptNotAdded(c, fd) PROVE ReadIsParsed'
  <2>1. UNCHANGED <<user, tasks, wk, conn>> /\ pc = "accept"
    BY <1>12 DEF AcceptNotAdded
  <2> QED  BY <1>3, <2>1
<1>13. CASE Enqueue
  <2>1. /\ pc = "enqueue" /\ UNCHANGED <<user, wk, conn>> /\ tasks \in Seq(Task)
        /\ tasks' = Append(tasks, [fd |-> cur, conn |-> user[cur]])
    BY <1>13 DEF Enqueue, TypeOK
  <2>2. ASSUME NEW f \in Fd, NEW c \in Conn, Unparsed(f, c) PROVE Unparsed(f, c)'
    <3>1. CASE cur = f /\ user[f] = c
      BY <2>1, <3>1, AppendAdds DEF Unparsed
    <3>2. CASE \E i \in DOMAIN tasks : tasks[i].fd = f /\ tasks[i].conn = c
      BY <2>1, <3>2, AppendKeeps DEF Unparsed
    <3> QED  BY <2>1, <2>2, <3>1, <3>2 DEF Unparsed
  <2> QED  BY <1>2, <2>1, <2>2
<1>14. CASE CloseCurrent
  <2>1. cur \in Fd /\ user[cur] # NoConn /\ CloseConn(cur) /\ pc # "enqueue"
    BY <1>14 DEF CloseCurrent, TablesAgree, Midway
  <2> QED  BY <2>1, CloseConnParsed
<1>15. CASE ResetAndRead
  <2>1. PICK c \in Conn : c = user[cur]
    BY <1>15 DEF ResetAndRead, TablesAgree, Midway, TypeOK
  <2>2. pc = "reset" /\ UNCHANGED <<user, tasks, wk>> /\ conn' = [conn EXCEPT ![c] = Rewound(conn[c])]
    BY <1>15, <2>1 DEF ResetAndRead
  <2>3. ASSUME NEW f \in Fd PROVE Parsed(f)'
    <3>1. CASE user[f] = NoConn
      BY <2>2, <3>1 DEF Parsed
    <3>2. CASE user[f] = c
      BY <2>2, <3>2 DEF Parsed, TypeOK, Rewound, Opened, Unused
    <3>3. CASE user[f] \notin {NoConn, c}
      <4>1. PICK d \in Conn : d = user[f] /\ d # c
        BY <3>3 DEF TypeOK
      <4>2. conn'[d] = conn[d]
        BY <2>2, <4>1 DEF TypeOK
      <4> QED  BY <1>1, <2>2, <4>1, <4>2, ParsedStays, UnparsedStays
    <3> QED  BY <3>1, <3>2, <3>3
  <2> QED  BY <2>3 DEF ReadIsParsed, Parsed
<1>16. ASSUME NEW w \in Worker, Pop(w) PROVE ReadIsParsed'
  <2>1. /\ tasks \in Seq(Task) /\ tasks # <<>> /\ tasks' = Tail(tasks) /\ wk[w].st = "idle"
        /\ UNCHANGED <<user, conn, pc, cur>>
    BY <1>16 DEF Pop, TypeOK
  <2>2. /\ wk'[w].st = "popped" /\ wk'[w].fd = tasks[1].fd /\ wk'[w].conn = tasks[1].conn
        /\ \A v \in Worker \ {w} : wk'[v] = wk[v]
    BY <1>16, <2>1 DEF Pop, TypeOK
  <2>3. ASSUME NEW f \in Fd, NEW c \in Conn, Unparsed(f, c) PROVE Unparsed(f, c)'
    <3>1. ASSUME NEW i \in DOMAIN tasks, tasks[i].fd = f, tasks[i].conn = c
          PROVE  Unparsed(f, c)'
      <4>1. CASE i = 1
        BY <2>2, <3>1, <4>1 DEF Unparsed
      <4>2. CASE i # 1
        BY <2>1, <3>1, <4>2, TailKeeps DEF Unparsed
      <4> QED  BY <4>1, <4>2
    <3>2. ASSUME NEW v \in Worker, wk[v].st \in {"popped", "processing"}, wk[v].fd = f, wk[v].conn = c
          PROVE  Unparsed(f, c)'
      BY <2>1, <2>2, <3>2 DEF Unparsed
    <3> QED  BY <2>1, <2>3, <3>1, <3>2 DEF Unparsed
  <2> QED  BY <1>2, <2>1, <2>3
<1>17. ASSUME NEW w \in Worker, BeginProcess(w) PROVE ReadIsParsed'
  <2>1. /\ UNCHANGED <<user, conn, pc, cur, tasks>>
        /\ wk' = [wk EXCEPT ![w] = [wk[w] EXCEPT !.st = "processing"]]
    BY <1>17 DEF BeginProcess
  <2>2. /\ wk'[w].st = "processing" /\ wk'[w].fd = wk[w].fd /\ wk'[w].conn = wk[w].conn
        /\ \A v \in Worker \ {w} : wk'[v] = wk[v]
    BY <2>1 DEF TypeOK, WorkerState
  <2>3. ASSUME NEW f \in Fd, NEW c \in Conn, Unparsed(f, c) PROVE Unparsed(f, c)'
    BY <2>1, <2>2, <2>3 DEF Unparsed
  <2> QED  BY <1>2, <2>1, <2>3
<1>18. ASSUME NEW w \in Worker, EndProcess(w) PROVE ReadIsParsed'
  <2>1. PICK c \in Conn : c = wk[w].conn
    BY <1>18 DEF EndProcess, Bookkeeping, Held
  <2>2. PICK p \in Process(conn[c]) :
          /\ conn' = [conn EXCEPT ![c] = p.conn]
          /\ wk' = [wk EXCEPT ![w] = [wk[w] EXCEPT !.st = "processed", !.ready = p.ready]]
    BY <1>18, <2>1, ProcessOutcome
  <2>3. UNCHANGED <<user, pc, cur, tasks>> /\ \A v \in Worker \ {w} : wk'[v] = wk[v]
    BY <1>18, <2>2 DEF EndProcess, TypeOK
  <2>4. ASSUME NEW f \in Fd PROVE Parsed(f)'
    <3>1. CASE user[f] = NoConn
      BY <2>3, <3>1 DEF Parsed
    <3>2. CASE user[f] = c
      BY <2>2, <2>3, <3>2, ProcessInput DEF Parsed, TypeOK
    <3>3. CASE user[f] \notin {NoConn, c}
      <4>1. PICK d \in Conn : d = user[f] /\ d # c
        BY <3>3 DEF TypeOK
      <4>2. conn'[d] = conn[d]
        BY <2>2, <4>1 DEF TypeOK
      <4>3. Unparsed(f, d) => Unparsed(f, d)'
        BY <2>1, <2>3, <4>1 DEF Unparsed
      <4> QED  BY <1>1, <2>3, <4>1, <4>2, <4>3, ParsedStays
    <3> QED  BY <3>1, <3>2, <3>3
  <2> QED  BY <2>4 DEF ReadIsParsed, Parsed
<1>19. ASSUME NEW w \in Worker, PushResult(w) \/ WriteWakeup(w) PROVE ReadIsParsed'
  <2>1. /\ UNCHANGED <<user, conn, pc, cur, tasks>> /\ wk[w].st \in {"processed", "pushed"}
        /\ \A v \in Worker \ {w} : wk'[v] = wk[v]
    BY <1>19 DEF PushResult, WriteWakeup, TypeOK
  <2>2. ASSUME NEW f \in Fd, NEW c \in Conn, Unparsed(f, c) PROVE Unparsed(f, c)'
    BY <2>1, <2>2 DEF Unparsed
  <2> QED  BY <1>2, <2>1, <2>2
<1> QED
  BY <1>4, <1>5, <1>6, <1>7, <1>8, <1>9, <1>10, <1>11, <1>12, <1>13, <1>14, <1>15, <1>16, <1>17,
     <1>18, <1>19 DEF Next, Loop, Pool

(* Input that handleRead took from a socket is shown to the parser: as long *)
(* as the connection is open, what it has buffered since its last parse has *)
(* a work item, unless the connection is being closed.                     *)
THEOREM InputIsParsed == Spec => []ReadIsParsed
<1>1. Init => ReadIsParsed
  BY DEF Init, ReadIsParsed
<1>2. Tables /\ ReadIsParsed /\ [Next]_vars => ReadIsParsed'
  BY ParsedStep
<1> QED  BY <1>1, <1>2, TablesInvariant, PTL DEF Spec

-----------------------------------------------------------------------------
(* One work item per connection.  Has(s, c): c has an item in the sequence *)
(* s; Once(s, c): it has no second one there.                              *)
Has(s, c)  == \E i \in DOMAIN s : s[i].conn = c
Once(s, c) == \A i, j \in DOMAIN s : s[i].conn = c /\ s[j].conn = c => i = j

(* An item appended to a sequence: what the sequence has, and has once.    *)
LEMMA AppendHas ==
  ASSUME NEW S, NEW s \in Seq(S), NEW x, NEW c
  PROVE  /\ Has(Append(s, x), c) => Has(s, c) \/ x.conn = c
         /\ Once(s, c) /\ (x.conn = c => ~Has(s, c)) => Once(Append(s, x), c)
<1>1. \A i \in DOMAIN Append(s, x) :
        \/ i \in DOMAIN s /\ Append(s, x)[i] = s[i]
        \/ i = Len(s) + 1 /\ Append(s, x)[i] = x
  OBVIOUS
<1>2. Has(Append(s, x), c) => Has(s, c) \/ x.conn = c
  BY <1>1 DEF Has
<1>3. ASSUME Once(s, c), x.conn = c => ~Has(s, c),
             NEW i \in DOMAIN Append(s, x), NEW j \in DOMAIN Append(s, x),
             Append(s, x)[i].conn = c, Append(s, x)[j].conn = c
      PROVE  i = j
  BY <1>1, <1>3 DEF Has, Once
<1> QED  BY <1>2, <1>3 DEF Once

(* Taking the first item off a sequence that has it once leaves none.      *)
LEMMA TailHas ==
  ASSUME NEW S, NEW s \in Seq(S), s # <<>>, NEW c
  PROVE  /\ Has(s, Head(s).conn)
         /\ Has(Tail(s), c) => Has(s, c)
         /\ Once(s, c) => Once(Tail(s), c)
         /\ Once(s, c) /\ Head(s).conn = c => ~Has(Tail(s), c)
<1>1. /\ 1 \in DOMAIN s /\ Head(s) = s[1]
      /\ \A i \in DOMAIN Tail(s) : i \in Nat \ {0} /\ i + 1 \in DOMAIN s /\ Tail(s)[i] = s[i + 1]
  OBVIOUS
<1>2. Has(s, Head(s).conn) /\ (Has(Tail(s), c) => Has(s, c))
  BY <1>1 DEF Has
<1>3. ASSUME Once(s, c), NEW i \in DOMAIN Tail(s), NEW j \in DOMAIN Tail(s),
             Tail(s)[i].conn = c, Tail(s)[j].conn = c
      PROVE  i = j
  <2>1. i + 1 = j + 1
    BY <1>1, <1>3 DEF Once
  <2> QED  BY <1>1, <2>1
<1>4. ASSUME Once(s, c), Head(s).conn = c, NEW i \in DOMAIN Tail(s), Tail(s)[i].conn = c
      PROVE  FALSE
  <2>1. i + 1 = 1
    BY <1>1, <1>4 DEF Once
  <2> QED  BY <1>1, <2>1
<1> QED  BY <1>2, <1>3, <1>4 DEF Once, Has

ToEnqueue(c) == pc = "enqueue" /\ user[cur] = c
AtWorker(c)  == \E w \in Worker : Held(w) /\ wk[w].conn = c
AtOneWorker(c) ==
  \A v, w \in Worker : Held(v) /\ wk[v].conn = c /\ Held(w) /\ wk[w].conn = c => v = w

(* The five places where a connection's work may be, and that it is in at  *)
(* most one of them, once.                                                 *)
HasWork(c) ==
  ToEnqueue(c) \/ Has(tasks, c) \/ AtWorker(c) \/ Has(completed, c) \/ Has(local, c)

Sole(c) ==
  /\ Once(tasks, c) /\ AtOneWorker(c) /\ Once(completed, c) /\ Once(local, c)
  /\ ToEnqueue(c) => ~Has(tasks, c) /\ ~AtWorker(c) /\ ~Has(completed, c) /\ ~Has(local, c)
  /\ Has(tasks, c) => ~AtWorker(c) /\ ~Has(completed, c) /\ ~Has(local, c)
  /\ AtWorker(c) => ~Has(completed, c) /\ ~Has(local, c)
  /\ Has(completed, c) => ~Has(local, c)

(* A work item belongs to a connection accepted before and never to be     *)
(* accepted again, under the number that connection has or had.            *)
Known(x) == conn[x.conn].fd \in {x.fd, NoFd} /\ peer[x.conn] # "idle" /\ x.conn \notin backlog

AllKnown(s) == \A i \in DOMAIN s : Known(s[i])

WorkIsKnown ==
  /\ AllKnown(tasks) /\ AllKnown(completed) /\ AllKnown(local)
  /\ \A w \in Worker : Held(w) => Known(wk[w])

(* As long as nothing meant for another reached it, a connection has one   *)
(* item at most, and while it has one it is marked or closed.              *)
Apart(c) == Sole(c) /\ (HasWork(c) => conn[c].fd = NoFd \/ conn[c].fd \in processing)

WorkApart == \A c \in Conn \ mixed : Apart(c)

-----------------------------------------------------------------------------
(* A connection that was accepted is never accepted again.                 *)
Accepted(c) == peer[c] # "idle" /\ c \notin backlog

(* Of every step: an accepted connection stays accepted, and its object    *)
(* keeps its descriptor or loses it for good.                              *)
LEMMA OncePerConnection ==
  ASSUME Tables, [Next]_vars, NEW c \in Conn, Accepted(c)
  PROVE  Accepted(c)' /\ conn'[c].fd \in {conn[c].fd, NoFd}
<1> USE ConnectionAssumption, WebServerAssumption DEF Tables, Accepted
<1> USE DEF clientVars, kernelVars, loopVars, tableVars, poolVars, history
<1> DEFINE Goal == Accepted(c)' /\ conn'[c].fd \in {conn[c].fd, NoFd}
<1>1. CASE UNCHANGED vars
  BY <1>1 DEF vars
<1>2. ASSUME NEW d \in Conn, Connect(d) \/ SendSegment(d) \/ Drain(d) PROVE Goal
  BY <1>2 DEF Connect, SendSegment, Drain, TypeOK
<1>3. ASSUME NEW d \in Conn, NEW how \in {"fin", "rst"}, HangUp(d, how) PROVE Goal
  BY <1>3 DEF HangUp, TypeOK
<1>4. ASSUME NEW fd \in Fd, Expire(fd) PROVE Goal
  BY <1>4 DEF Expire
<1>5. ASSUME NEW fd \in Fd, CloseConn(fd) PROVE Goal
  BY <1>5, ReleasedType DEF CloseConn, TypeOK
<1>6. ASSUME NEW fd \in Fd, CloseExpired(fd) PROVE Goal
  BY <1>5, <1>6 DEF CloseExpired
<1>7. CASE TickDone \/ EpollWait \/ DispatchDone \/ AcceptFails \/ AcceptDone \/ CheckKeepAlive
           \/ SwapResults \/ ApplyResult \/ ResultsDone \/ Enqueue
  BY <1>7 DEF TickDone, EpollWait, DispatchDone, AcceptFails, AcceptDone, CheckKeepAlive,
              SwapResults, ApplyResult, ResultsDone, Enqueue
<1>8. ASSUME NEW e \in batch, SkipEvent(e) \/ HandleListen(e) \/ DrainWakeup(e) PROVE Goal
  BY <1>8 DEF SkipEvent, HandleListen, DrainWakeup
<1>9. ASSUME NEW e \in batch, CloseOnHangUp(e) PROVE Goal
  BY <1>5, <1>9 DEF CloseOnHangUp
<1>10. ASSUME NEW e \in batch, HandleRead(e) PROVE Goal
  <2>1. PICK d \in Conn : d = user[e.fd]
    BY <1>10 DEF HandleRead, TypeOK
  <2>2. conn' = [conn EXCEPT ![d] = AfterRead(conn[d], inb[d])] /\ UNCHANGED <<peer, backlog>>
    BY <1>10, <2>1 DEF HandleRead
  <2>3. AfterRead(conn[d], inb[d]).fd = conn[d].fd
    BY <2>1, AfterReadType DEF TypeOK
  <2> QED  BY <2>1, <2>2, <2>3 DEF TypeOK
<1>11. ASSUME NEW e \in batch, HandleWrite(e) PROVE Goal
  <2>1. PICK d \in Conn : d = user[e.fd]
    BY <1>11 DEF HandleWrite, TypeOK
  <2>2. PICK w \in Write(conn[d], space[d], peer[d]) : conn' = [conn EXCEPT ![d] = w.conn]
    BY <1>11, <2>1 DEF HandleWrite
  <2>3. w.conn.fd = conn[d].fd /\ UNCHANGED <<peer, backlog>>
    BY <1>11, <2>1, <2>2, WriteType DEF TypeOK, HandleWrite
  <2> QED  BY <2>1, <2>2, <2>3 DEF TypeOK
<1>12. ASSUME NEW d \in Conn, NEW fd \in Fd, AcceptOne(d, fd) PROVE Goal
  BY <1>12 DEF AcceptOne, TypeOK
<1>13. ASSUME NEW d \in Conn, NEW fd \in Fd, AcceptNotAdded(d, fd) PROVE Goal
  BY <1>13 DEF AcceptNotAdded, TypeOK
<1>14. CASE CloseCurrent
  BY <1>5, <1>14 DEF CloseCurrent, TablesAgree, Midway
<1>15. CASE ResetAndRead
  <2>1. PICK d \in Conn : d = user[cur]
    BY <1>15 DEF ResetAndRead, TablesAgree, Midway, TypeOK
  <2>2. conn' = [conn EXCEPT ![d] = Rewound(conn[d])] /\ UNCHANGED <<peer, backlog>>
    BY <1>15, <2>1 DEF ResetAndRead
  <2> QED  BY <2>1, <2>2, RewoundType DEF TypeOK
<1>16. ASSUME NEW w \in Worker, Pop(w) \/ BeginProcess(w) \/ PushResult(w) \/ WriteWakeup(w) PROVE Goal
  BY <1>16 DEF Pop, BeginProcess, PushResult, WriteWakeup
<1>17. ASSUME NEW w \in Worker, EndProcess(w) PROVE Goal
  <2>1. PICK d \in Conn : d = wk[w].conn
    BY <1>17 DEF EndProcess, Bookkeeping, Held
  <2>2. PICK p \in Process(conn[d]) : conn' = [conn EXCEPT ![d] = p.conn]
    BY <1>17, <2>1 DEF EndProcess
  <2>3. p.conn.fd = conn[d].fd /\ UNCHANGED <<peer, backlog>>
    BY <1>17, <2>1, <2>2, ProcessType DEF TypeOK, EndProcess
  <2> QED  BY <2>1, <2>2, <2>3 DEF TypeOK
<1> QED
  BY <1>1, <1>2, <1>3, <1>4, <1>6, <1>7, <1>8, <1>9, <1>10, <1>11, <1>12, <1>13, <1>14, <1>15,
     <1>16, <1>17 DEF Next, Client, Loop, Pool

(* What is queued, completed or being applied names a connection.          *)
LEMMA WorkTypes ==
  ASSUME TypeOK
  PROVE  /\ \A i \in DOMAIN tasks : tasks[i].conn \in Conn
         /\ \A i \in DOMAIN completed : completed[i].conn \in Conn
         /\ \A i \in DOMAIN local : local[i].conn \in Conn
<1>1. tasks \in Seq(Task) /\ completed \in Seq(Result) /\ local \in Seq(Result)
  BY DEF TypeOK
<1>2. \A i \in DOMAIN tasks : tasks[i] \in Task
  BY <1>1
<1>3. \A i \in DOMAIN completed : completed[i] \in Result
  BY <1>1
<1>4. \A i \in DOMAIN local : local[i] \in Result
  BY <1>1
<1> QED  BY <1>2, <1>3, <1>4 DEF Task, Result

(* Every step keeps WorkIsKnown.                                           *)
LEMMA WorkKnownStep ==
  ASSUME Tables, WorkIsKnown, [Next]_vars
  PROVE  WorkIsKnown'
<1> USE DEF clientVars, kernelVars, loopVars, tableVars, poolVars, history
<1>0. TypeOK /\ Bookkeeping /\ TablesAgree
  BY DEF Tables
<1>1. \A x : x.conn \in Conn /\ Known(x) => Known(x)'
  <2>1. SUFFICES ASSUME NEW x, x.conn \in Conn, Known(x) PROVE Known(x)'
    OBVIOUS
  <2>2. Accepted(x.conn)' /\ conn'[x.conn].fd \in {conn[x.conn].fd, NoFd}
    BY <2>1, OncePerConnection DEF Known, Accepted
  <2> QED  BY <2>1, <2>2 DEF Known, Accepted
<1>2. \A x : x.conn \in Conn /\ (\/ \E i \in DOMAIN tasks : x = tasks[i]
                                 \/ \E i \in DOMAIN completed : x = completed[i]
                                 \/ \E i \in DOMAIN local : x = local[i])
         => Known(x)
  BY DEF WorkIsKnown, AllKnown
<1>3. UNCHANGED tasks => AllKnown(tasks)'
  BY <1>0, <1>1, WorkTypes DEF WorkIsKnown, AllKnown, Known
<1>4. UNCHANGED completed => AllKnown(completed)'
  BY <1>0, <1>1, WorkTypes DEF WorkIsKnown, AllKnown, Known
<1>5. UNCHANGED local => AllKnown(local)'
  BY <1>0, <1>1, WorkTypes DEF WorkIsKnown, AllKnown, Known
<1>6. ASSUME NEW w \in Worker, wk'[w] = wk[w], Held(w) PROVE Known(wk[w])'
  <2>1. PICK x : x = wk[w]
    OBVIOUS
  <2>2. Known(x) /\ x.conn \in Conn
    BY <1>0, <1>6, <2>1 DEF WorkIsKnown, Bookkeeping
  <2> QED  BY <1>1, <1>6, <2>1, <2>2 DEF Known
<1>7. UNCHANGED wk => \A w \in Worker : Held(w)' => Known(wk[w])'
  BY <1>6 DEF Held
<1>8. CASE UNCHANGED <<tasks, completed, local, wk>>
  BY <1>3, <1>4, <1>5, <1>7, <1>8 DEF WorkIsKnown
<1>9. CASE Enqueue
  <2>1. /\ tasks \in Seq(Task) /\ tasks' = Append(tasks, [fd |-> cur, conn |-> user[cur]])
        /\ cur \in Fd /\ user[cur] \in Conn /\ UNCHANGED <<completed, local, wk>>
    BY <1>0, <1>9 DEF Enqueue, TypeOK, TablesAgree, Midway
  <2>2. PICK x : x = [fd |-> cur, conn |-> user[cur]]
    OBVIOUS
  <2>3. Known(x) /\ x.conn \in Conn
    <3>1. conn[user[cur]].fd = cur /\ cur # NoFd
      BY <1>0, <2>1, ConnectionAssumption, WebServerAssumption DEF TablesAgree, TypeOK
    <3> QED  BY <1>0, <2>1, <2>2, <3>1 DEF Known, Bookkeeping
  <2>4. \A i \in DOMAIN tasks' : tasks'[i] = x \/ \E j \in DOMAIN tasks : tasks'[i] = tasks[j]
    BY <2>1, <2>2
  <2>5. AllKnown(tasks)'
    BY <1>0, <1>1, <1>2, <2>3, <2>4, WorkTypes DEF AllKnown, Known
  <2> QED  BY <1>4, <1>5, <1>7, <2>1, <2>5 DEF WorkIsKnown
<1>10. ASSUME NEW w \in Worker, Pop(w) PROVE WorkIsKnown'
  <2>1. /\ tasks \in Seq(Task) /\ tasks # <<>> /\ tasks' = Tail(tasks)
        /\ UNCHANGED <<completed, local>> /\ \A v \in Worker \ {w} : wk'[v] = wk[v]
    BY <1>0, <1>10 DEF Pop, TypeOK
  <2>2. 1 \in DOMAIN tasks /\ \A i \in DOMAIN tasks' : \E j \in DOMAIN tasks : tasks'[i] = tasks[j]
    BY <2>1
  <2>3. AllKnown(tasks)'
    BY <1>0, <1>1, <1>2, <2>2, WorkTypes DEF AllKnown, Known
  <2>4. Known(wk[w])'
    <3>1. PICK x : x = tasks[1]
      OBVIOUS
    <3>2. Known(x)' /\ x.conn \in Conn
      BY <1>0, <1>1, <1>2, <2>2, <3>1, WorkTypes
    <3>3. wk'[w].fd = x.fd /\ wk'[w].conn = x.conn
      BY <1>0, <1>10, <2>1, <3>1 DEF Pop, TypeOK
    <3> QED  BY <3>2, <3>3 DEF Known
  <2>5. \A v \in Worker : Held(v)' => Known(wk[v])'
    BY <1>6, <2>1, <2>4 DEF Held
  <2> QED  BY <1>4, <1>5, <2>1, <2>3, <2>5 DEF WorkIsKnown
<1>11. ASSUME NEW w \in Worker, BeginProcess(w) \/ EndProcess(w) PROVE WorkIsKnown'
  <2>1. /\ UNCHANGED <<tasks, completed, local>> /\ Held(w)
        /\ wk'[w].fd = wk[w].fd /\ wk'[w].conn = wk[w].conn
        /\ \A v \in Worker \ {w} : wk'[v] = wk[v]
    BY <1>0, <1>11 DEF BeginProcess, EndProcess, TypeOK, WorkerState, Held
  <2>2. Known(wk[w])'
    <3>1. PICK x : x = wk[w]
      OBVIOUS
    <3>2. Known(x)'
      BY <1>0, <1>1, <2>1, <3>1 DEF WorkIsKnown, Bookkeeping
    <3> QED  BY <2>1, <3>1, <3>2 DEF Known
  <2>3. \A v \in Worker : Held(v)' => Known(wk[v])'
    BY <1>6, <2>1, <2>2 DEF Held
  <2> QED  BY <1>3, <1>4, <1>5, <2>1, <2>3 DEF WorkIsKnown
<1>12. ASSUME NEW w \in Worker, PushResult(w) PROVE WorkIsKnown'
  <2>1. /\ UNCHANGED <<tasks, local>> /\ Held(w) /\ completed \in Seq(Result)
        /\ completed' = Append(completed, [fd |-> wk[w].fd, conn |-> wk[w].conn, ready |-> wk[w].ready])
        /\ wk'[w].st = "pushed" /\ \A v \in Worker \ {w} : wk'[v] = wk[v]
    BY <1>0, <1>12 DEF PushResult, TypeOK, Held, Idle
  <2>2. PICK x : x = [fd |-> wk[w].fd, conn |-> wk[w].conn, ready |-> wk[w].ready]
    OBVIOUS
  <2>3. Known(x) /\ x.conn \in Conn
    BY <1>0, <2>1, <2>2 DEF WorkIsKnown, Known, Bookkeeping
  <2>4. \A i \in DOMAIN completed' : completed'[i] = x \/ \E j \in DOMAIN completed : completed'[i] = completed[j]
    BY <2>1, <2>2
  <2>5. AllKnown(completed)'
    BY <1>0, <1>1, <1>2, <2>3, <2>4, WorkTypes DEF AllKnown, Known
  <2>6. \A v \in Worker : Held(v)' => Known(wk[v])'
    BY <1>6, <2>1 DEF Held
  <2> QED  BY <1>3, <1>5, <2>1, <2>5, <2>6 DEF WorkIsKnown
<1>13. ASSUME NEW w \in Worker, WriteWakeup(w) PROVE WorkIsKnown'
  <2>1. /\ UNCHANGED <<tasks, completed, local>>
        /\ wk'[w].st = "idle" /\ \A v \in Worker \ {w} : wk'[v] = wk[v]
    BY <1>0, <1>13 DEF WriteWakeup, TypeOK, Idle
  <2>2. \A v \in Worker : Held(v)' => Known(wk[v])'
    BY <1>6, <2>1 DEF Held
  <2> QED  BY <1>3, <1>4, <1>5, <2>1, <2>2 DEF WorkIsKnown
<1>14. CASE SwapResults
  <2>1. local' = completed /\ completed' = <<>> /\ UNCHANGED <<tasks, wk>>
    BY <1>14 DEF SwapResults
  <2>2. AllKnown(local)' /\ AllKnown(completed)'
    BY <1>0, <1>1, <1>2, <2>1, WorkTypes DEF AllKnown, Known
  <2> QED  BY <1>3, <1>7, <2>1, <2>2 DEF WorkIsKnown
<1>15. CASE ApplyResult
  <2>1. /\ local \in Seq(Result) /\ local # <<>> /\ local' = Tail(local)
        /\ UNCHANGED <<tasks, completed, wk>>
    BY <1>0, <1>15 DEF ApplyResult, TypeOK
  <2>2. \A i \in DOMAIN local' : \E j \in DOMAIN local : local'[i] = local[j]
    BY <2>1
  <2>3. AllKnown(local)'
    BY <1>0, <1>1, <1>2, <2>2, WorkTypes DEF AllKnown, Known
  <2> QED  BY <1>3, <1>4, <1>7, <2>1, <2>3 DEF WorkIsKnown
<1>16. CASE UNCHANGED vars \/ Client
  BY <1>8, <1>16 DEF vars, Client, Connect, SendSegment, Drain, HangUp, Expire
<1>17. ASSUME NEW fd \in Fd, CloseExpired(fd) PROVE WorkIsKnown'
  BY <1>8, <1>17 DEF CloseExpired, CloseConn
<1>18. CASE TickDone \/ EpollWait \/ DispatchDone \/ AcceptFails \/ AcceptDone \/ CheckKeepAlive
            \/ ResetAndRead \/ ResultsDone \/ CloseCurrent
  BY <1>8, <1>18 DEF TickDone, EpollWait, DispatchDone, AcceptFails, AcceptDone, CheckKeepAlive,
              ResetAndRead, ResultsDone, CloseCurrent, CloseConn
<1>19. ASSUME NEW e \in batch, SkipEvent(e) \/ CloseOnHangUp(e) \/ HandleListen(e) \/ HandleRead(e)
                              \/ HandleWrite(e) \/ DrainWakeup(e)
       PROVE  WorkIsKnown'
  BY <1>8, <1>19 DEF SkipEvent, CloseOnHangUp, CloseConn, HandleListen, HandleRead, HandleWrite, DrainWakeup
<1>20. ASSUME NEW c \in Conn, NEW fd \in Fd, AcceptOne(c, fd) \/ AcceptNotAdded(c, fd) PROVE WorkIsKnown'
  BY <1>8, <1>20 DEF AcceptOne, AcceptNotAdded
<1> QED
  BY <1>9, <1>10, <1>11, <1>12, <1>13, <1>14, <1>15, <1>16, <1>17, <1>18, <1>19, <1>20
     DEF Next, Loop, Pool

(* A step that puts no work anywhere it was not.                           *)
LEMMA SoleStays ==
  ASSUME UNCHANGED <<tasks, completed, local>>,
         \A w \in Worker : Held(w)' => Held(w) /\ wk'[w].conn = wk[w].conn,
         NEW c, ToEnqueue(c)' => ToEnqueue(c)
  PROVE  /\ Sole(c) => Sole(c)'
         /\ HasWork(c)' => HasWork(c)
<1>1. /\ Has(tasks, c)' = Has(tasks, c) /\ Once(tasks, c)' = Once(tasks, c)
      /\ Has(completed, c)' = Has(completed, c) /\ Once(completed, c)' = Once(completed, c)
      /\ Has(local, c)' = Has(local, c) /\ Once(local, c)' = Once(local, c)
  BY DEF Has, Once
<1>2. (AtWorker(c)' => AtWorker(c)) /\ (AtOneWorker(c) => AtOneWorker(c)')
  BY DEF AtWorker, AtOneWorker
<1> QED  BY <1>1, <1>2 DEF Sole, HasWork

(* Apart stays true while work stays where it is, no connection is opened  *)
(* and no descriptor unmarked.                                             *)
LEMMA ApartStays ==
  ASSUME NEW c \in Conn, Apart(c), Sole(c)', HasWork(c)' => HasWork(c),
         conn'[c].fd \in {conn[c].fd, NoFd},
         conn[c].fd \in processing => conn'[c].fd \in processing' \cup {NoFd}
  PROVE  Apart(c)'
BY DEF Apart

(* Enqueue moves the loop's own item to the queue.                         *)
LEMMA EnqueueSole ==
  ASSUME Tables, Enqueue, NEW c \in Conn, Sole(c)
  PROVE  Sole(c)' /\ (HasWork(c)' => HasWork(c))
<1> DEFINE x == [fd |-> cur, conn |-> user[cur]]
<1>1. /\ pc = "enqueue" /\ pc' = "dispatch" /\ UNCHANGED <<wk, completed, local>>
      /\ tasks \in Seq(Task) /\ tasks' = Append(tasks, x)
  BY DEF Enqueue, Tables, TypeOK, loopVars, poolVars
<1>2. /\ AtWorker(c)' = AtWorker(c) /\ AtOneWorker(c)' = AtOneWorker(c)
      /\ Has(completed, c)' = Has(completed, c) /\ Once(completed, c)' = Once(completed, c)
      /\ Has(local, c)' = Has(local, c) /\ Once(local, c)' = Once(local, c)
  BY <1>1 DEF AtWorker, AtOneWorker, Held, Has, Once
<1>3. ~ToEnqueue(c)' /\ (x.conn = c <=> ToEnqueue(c))
  BY <1>1 DEF ToEnqueue
<1>4. Has(tasks, c)' => Has(tasks, c) \/ ToEnqueue(c)
  <2>1. Has(Append(tasks, x), c) => Has(tasks, c) \/ x.conn = c
    BY <1>1, AppendHas
  <2> QED  BY <1>1, <1>3, <2>1 DEF Has
<1>5. Once(tasks, c)'
  <2>1. Once(Append(tasks, x), c)
    BY <1>1, <1>3, AppendHas DEF Sole
  <2> QED  BY <1>1, <2>1 DEF Once
<1> HIDE DEF x
<1> QED  BY <1>2, <1>3, <1>4, <1>5 DEF Sole, HasWork

(* Pop moves an item from the queue to a worker.                           *)
LEMMA PopSole ==
  ASSUME Tables, NEW w \in Worker, Pop(w), NEW c \in Conn, Sole(c)
  PROVE  Sole(c)' /\ (HasWork(c)' => HasWork(c))
<1>1. /\ tasks \in Seq(Task) /\ tasks # <<>> /\ tasks' = Tail(tasks)
      /\ UNCHANGED <<pc, cur, user, completed, local>> /\ ~Held(w)
  BY DEF Pop, Tables, TypeOK, loopVars, tableVars, Held
<1>2. wk'[w].conn = Head(tasks).conn /\ \A v \in Worker \ {w} : wk'[v] = wk[v]
  BY <1>1 DEF Pop, Tables, TypeOK
<1>3. /\ ToEnqueue(c)' = ToEnqueue(c)
      /\ Has(completed, c)' = Has(completed, c) /\ Once(completed, c)' = Once(completed, c)
      /\ Has(local, c)' = Has(local, c) /\ Once(local, c)' = Once(local, c)
  BY <1>1 DEF ToEnqueue, Has, Once
<1>4. /\ Has(tasks, c)' => Has(tasks, c)
      /\ Once(tasks, c)'
      /\ Head(tasks).conn = c => Has(tasks, c) /\ ~Has(tasks, c)'
  <2>1. /\ Has(tasks, Head(tasks).conn)
        /\ Has(Tail(tasks), c) => Has(tasks, c)
        /\ Once(tasks, c) => Once(Tail(tasks), c)
        /\ Once(tasks, c) /\ Head(tasks).conn = c => ~Has(Tail(tasks), c)
    BY <1>1, TailHas
  <2>2. Has(tasks, c)' = Has(Tail(tasks), c) /\ Once(tasks, c)' = Once(Tail(tasks), c)
    BY <1>1 DEF Has, Once
  <2> QED  BY <2>1, <2>2 DEF Sole
<1>5. AtWorker(c)' => AtWorker(c) \/ Head(tasks).conn = c
  BY <1>2 DEF AtWorker, Held
<1>6. AtOneWorker(c)'
  <2>1. CASE Head(tasks).conn = c
    <3>1. ~AtWorker(c)
      BY <1>4, <2>1 DEF Sole
    <3> QED  BY <1>2, <3>1 DEF AtWorker, AtOneWorker, Held
  <2>2. CASE Head(tasks).conn # c
    BY <1>2, <2>2 DEF AtOneWorker, Held, Sole
  <2> QED  BY <2>1, <2>2
<1> QED  BY <1>3, <1>4, <1>5, <1>6 DEF Sole, HasWork

(* PushResult moves an item from a worker to the completed list.           *)
LEMMA PushSole ==
  ASSUME Tables, NEW w \in Worker, PushResult(w), NEW c \in Conn, Sole(c)
  PROVE  Sole(c)' /\ (HasWork(c)' => HasWork(c))
<1> DEFINE x == [fd |-> wk[w].fd, conn |-> wk[w].conn, ready |-> wk[w].ready]
<1>1. /\ completed \in Seq(Result) /\ completed' = Append(completed, x)
      /\ UNCHANGED <<pc, cur, user, tasks, local>> /\ Held(w)
  BY DEF PushResult, Tables, TypeOK, loopVars, tableVars, Held
<1>2. wk'[w].st = "pushed" /\ \A v \in Worker \ {w} : wk'[v] = wk[v]
  BY DEF PushResult, Tables, TypeOK, Idle
<1>3. /\ ToEnqueue(c)' = ToEnqueue(c)
      /\ Has(tasks, c)' = Has(tasks, c) /\ Once(tasks, c)' = Once(tasks, c)
      /\ Has(local, c)' = Has(local, c) /\ Once(local, c)' = Once(local, c)
  BY <1>1 DEF ToEnqueue, Has, Once
<1>4. /\ AtWorker(c)' => AtWorker(c)
      /\ AtOneWorker(c)'
      /\ x.conn = c => AtWorker(c) /\ ~AtWorker(c)'
  BY <1>1, <1>2 DEF AtWorker, AtOneWorker, Held, Sole
<1>5. /\ Has(completed, c)' => Has(completed, c) \/ x.conn = c
      /\ Once(completed, c)'
  <2>1. /\ Has(Append(completed, x), c) => Has(completed, c) \/ x.conn = c
        /\ Once(completed, c) /\ (x.conn = c => ~Has(completed, c)) => Once(Append(completed, x), c)
    BY <1>1, AppendHas
  <2>2. /\ Has(completed, c)' = Has(Append(completed, x), c)
        /\ Once(completed, c)' = Once(Append(completed, x), c)
    BY <1>1 DEF Has, Once
  <2>3. x.conn = c => ~Has(completed, c)
    BY <1>4 DEF Sole
  <2> HIDE DEF x
  <2> QED  BY <2>1, <2>2, <2>3 DEF Sole
<1> HIDE DEF x
<1> QED  BY <1>3, <1>4, <1>5 DEF Sole, HasWork

(* SwapResults moves every completed item to the loop's local list.        *)
LEMMA SwapSole ==
  ASSUME Tables, SwapResults, NEW c \in Conn, Sole(c)
  PROVE  Sole(c)' /\ (HasWork(c)' => HasWork(c))
<1>1. /\ local = <<>> /\ local' = completed /\ completed' = <<>> /\ pc = "drained" /\ pc' = "results"
      /\ UNCHANGED <<cur, user, tasks, wk>>
  BY DEF Tables, Bookkeeping, SwapResults, tableVars
<1>2. /\ ~ToEnqueue(c)' /\ ~Has(completed, c)' /\ Once(completed, c)'
      /\ Has(tasks, c)' = Has(tasks, c) /\ Once(tasks, c)' = Once(tasks, c)
      /\ AtWorker(c)' = AtWorker(c) /\ AtOneWorker(c)' = AtOneWorker(c)
      /\ Has(local, c)' = Has(completed, c) /\ Once(local, c)' = Once(completed, c)
  BY <1>1 DEF ToEnqueue, Has, Once, AtWorker, AtOneWorker, Held
<1> QED  BY <1>2 DEF Sole, HasWork

(* Taking a result out ends the one item of its connection.                *)
LEMMA ApplySole ==
  ASSUME Tables, ApplyResult, NEW c \in Conn, Sole(c)
  PROVE  /\ Sole(c)' /\ (HasWork(c)' => HasWork(c))
         /\ Head(local).conn = c => ~HasWork(c)'
<1>1. /\ local \in Seq(Result) /\ local # <<>> /\ local' = Tail(local) /\ pc = "results"
      /\ UNCHANGED <<user, tasks, wk, completed>> /\ pc' \in {"results", "closeresult"}
  BY DEF Tables, TypeOK, ApplyResult, poolVars
<1>2. /\ ~ToEnqueue(c)' /\ Has(completed, c)' = Has(completed, c) /\ Once(completed, c)' = Once(completed, c)
      /\ Has(tasks, c)' = Has(tasks, c) /\ Once(tasks, c)' = Once(tasks, c)
      /\ AtWorker(c)' = AtWorker(c) /\ AtOneWorker(c)' = AtOneWorker(c)
      /\ Has(local, c)' = Has(Tail(local), c) /\ Once(local, c)' = Once(Tail(local), c)
  BY <1>1 DEF ToEnqueue, Has, Once, AtWorker, AtOneWorker, Held
<1>3. /\ Has(local, Head(local).conn)
      /\ Has(Tail(local), c) => Has(local, c)
      /\ Once(local, c) => Once(Tail(local), c)
      /\ Once(local, c) /\ Head(local).conn = c => ~Has(Tail(local), c)
  BY <1>1, TailHas
<1>4. ~ToEnqueue(c)
  BY <1>1 DEF ToEnqueue
<1> QED  BY <1>2, <1>3, <1>4 DEF Sole, HasWork

(* CloseConn leaves the items where they are and only gives up the mark.   *)
LEMMA CloseConnApart ==
  ASSUME Tables, WorkApart, NEW fd \in Fd, user[fd] # NoConn, CloseConn(fd), UNCHANGED local,
         pc' # "enqueue", mixed \subseteq mixed'
  PROVE  WorkApart'
<1>1. /\ UNCHANGED <<tasks, wk, completed>> /\ processing' = processing \ {fd}
      /\ conn' = [k \in Conn |-> IF k = user[fd] THEN Released(conn[k]) ELSE conn[k]]
  BY DEF CloseConn, Unmarked
<1>2. SUFFICES ASSUME NEW c \in Conn \ mixed PROVE Apart(c)'
  BY DEF WorkApart
<1>3. Apart(c)
  BY DEF WorkApart
<1>4. Sole(c)' /\ (HasWork(c)' => HasWork(c))
  BY <1>1, <1>3, SoleStays DEF Apart, ToEnqueue, Held
<1>5. CASE c = user[fd]
  <2>1. conn'[c].fd = NoFd
    BY <1>1, <1>5, ReleasedType DEF Tables, TypeOK
  <2> QED  BY <1>3, <1>4, <2>1, ApartStays
<1>6. CASE c # user[fd]
  <2>1. conn'[c] = conn[c]
    BY <1>1, <1>6
  <2>2. conn[c].fd = fd => c = user[fd]
    BY ConnectionAssumption DEF Tables, TablesAgree
  <2> QED  BY <1>1, <1>3, <1>4, <1>6, <2>1, <2>2, ApartStays
<1> QED  BY <1>5, <1>6

(* Every step keeps WorkApart.                                             *)
LEMMA ApartStep ==
  ASSUME Tables, WorkIsKnown, WorkApart, [Next]_vars
  PROVE  WorkApart'
<1> USE ConnectionAssumption, WebServerAssumption DEF Tables
<1> USE DEF clientVars, kernelVars, loopVars, tableVars, poolVars, history
<1>1. \A c \in Conn \ mixed : Apart(c) /\ Sole(c)
  BY DEF WorkApart, Apart
<1>2. ASSUME UNCHANGED processing, \A c \in Conn : conn'[c].fd = conn[c].fd, mixed \subseteq mixed',
             \A c \in Conn \ mixed : Sole(c)' /\ (HasWork(c)' => HasWork(c))
      PROVE  WorkApart'
  BY <1>1, <1>2, ApartStays DEF WorkApart
<1>3. ASSUME UNCHANGED <<tasks, wk, completed, local, processing>>, mixed \subseteq mixed',
             \A c \in Conn : conn'[c].fd = conn[c].fd,
             pc' = "enqueue" => UNCHANGED <<pc, cur, user>>
      PROVE  WorkApart'
  <2>1. ASSUME NEW c \in Conn \ mixed PROVE Sole(c)' /\ (HasWork(c)' => HasWork(c))
    BY <1>1, <1>3, SoleStays DEF ToEnqueue, Held
  <2> QED  BY <1>2, <1>3, <2>1
<1>4. CASE UNCHANGED vars \/ Client
  BY <1>3, <1>4 DEF vars, Client, Connect, SendSegment, Drain, HangUp, Expire
<1>5. ASSUME NEW fd \in Fd, CloseExpired(fd) PROVE WorkApart'
  <2>1. user[fd] # NoConn /\ CloseConn(fd) /\ UNCHANGED <<local, mixed, pc>> /\ pc # "enqueue"
    BY <1>5 DEF CloseExpired, TablesAgree
  <2> QED  BY <2>1, CloseConnApart
<1>6. CASE TickDone \/ EpollWait \/ DispatchDone \/ AcceptFails \/ AcceptDone \/ CheckKeepAlive
           \/ ResultsDone
  <2>1. UNCHANGED <<tasks, wk, completed, local, processing, mixed, conn>> /\ pc' # "enqueue"
    BY <1>6 DEF TickDone, EpollWait, DispatchDone, AcceptFails, AcceptDone, CheckKeepAlive, ResultsDone
  <2> QED  BY <1>3, <2>1
<1>7. ASSUME NEW e \in batch, SkipEvent(e) \/ HandleListen(e) \/ DrainWakeup(e) PROVE WorkApart'
  <2>1. UNCHANGED <<tasks, wk, completed, local, processing, mixed, conn>> /\ pc' # "enqueue"
    BY <1>7 DEF SkipEvent, HandleListen, DrainWakeup, Taken
  <2> QED  BY <1>3, <2>1
<1>8. ASSUME NEW e \in batch, CloseOnHangUp(e) PROVE WorkApart'
  <2>1. /\ e.fd \in Fd /\ user[e.fd] # NoConn /\ CloseConn(e.fd) /\ UNCHANGED local
        /\ pc' # "enqueue" /\ mixed \subseteq mixed'
    BY <1>8 DEF CloseOnHangUp, Taken, Mix
  <2> QED  BY <2>1, CloseConnApart
<1>9. ASSUME NEW e \in batch, HandleRead(e) PROVE WorkApart'
  <2>1. PICK fd \in Fd, c \in Conn : fd = e.fd /\ c = user[fd] /\ c # NoConn
    BY <1>9 DEF HandleRead, TypeOK
  <2>2. /\ pc = "dispatch" /\ "IN" \in e.ev /\ UNCHANGED <<user, tasks, wk, completed, local>>
        /\ conn' = [conn EXCEPT ![c] = AfterRead(conn[c], inb[c])] /\ mixed \subseteq mixed'
    BY <1>9, <2>1 DEF HandleRead, Taken, Mix
  <2>3. Registered(fd) /\ fd \notin processing /\ conn[c].fd = fd
    BY <2>1, <2>2 DEF TablesAgree, Registered, NoEventWhileMarked
  <2>4. \A d \in Conn : conn'[d].fd = conn[d].fd
    <3>1. AfterRead(conn[c], inb[c]).fd = conn[c].fd
      BY AfterReadType DEF TypeOK
    <3> QED  BY <2>2, <3>1 DEF TypeOK
  <2>5. CASE ReadResult(conn[c], inb[c], peer[c]) # "DONE"
    <3>1. pc' = "close" /\ UNCHANGED processing
      BY <1>9, <2>1, <2>5 DEF HandleRead
    <3> QED  BY <1>3, <2>2, <2>4, <3>1
  <2>6. CASE ReadResult(conn[c], inb[c], peer[c]) = "DONE"
    <3>1. pc' = "enqueue" /\ cur' = fd /\ processing' = processing \cup {fd}
      BY <1>9, <2>1, <2>3, <2>6 DEF HandleRead
    <3>2. ASSUME NEW d \in Conn \ mixed, d # c PROVE Apart(d)'
      <4>1. ~ToEnqueue(d)'
        BY <2>1, <2>2, <3>1, <3>2 DEF ToEnqueue
      <4>2. Sole(d)' /\ (HasWork(d)' => HasWork(d))
        BY <1>1, <2>2, <4>1, SoleStays DEF Held
      <4> QED  BY <1>1, <2>4, <3>1, <4>2, ApartStays
    <3>3. ASSUME c \notin mixed PROVE Apart(c)'
      <4>1. ~HasWork(c)
        BY <1>1, <2>3, <3>3 DEF Apart
      <4>2. /\ Has(tasks, c)' = Has(tasks, c) /\ Once(tasks, c)' = Once(tasks, c)
            /\ Has(completed, c)' = Has(completed, c) /\ Once(completed, c)' = Once(completed, c)
            /\ Has(local, c)' = Has(local, c) /\ Once(local, c)' = Once(local, c)
            /\ AtWorker(c)' = AtWorker(c) /\ AtOneWorker(c)' = AtOneWorker(c)
        BY <2>2 DEF Has, Once, AtWorker, AtOneWorker, Held
      <4>3. Sole(c)'
        BY <1>1, <3>3, <4>1, <4>2 DEF Sole, HasWork
      <4>4. conn'[c].fd \in processing'
        BY <2>3, <2>4, <3>1
      <4> QED  BY <4>3, <4>4 DEF Apart
    <3> QED  BY <2>2, <3>2, <3>3 DEF WorkApart
  <2> QED  BY <2>5, <2>6
<1>10. ASSUME NEW e \in batch, HandleWrite(e) PROVE WorkApart'
  <2>1. PICK c \in Conn : c = user[e.fd]
    BY <1>10 DEF HandleWrite, TypeOK
  <2>2. PICK w \in Write(conn[c], space[c], peer[c]) :
          /\ conn' = [conn EXCEPT ![c] = w.conn]
          /\ pc' = CASE w.res = "DONE" -> "sent" [] w.res = "ERROR" -> "close"
                     [] OTHER -> "dispatch"
    BY <1>10, <2>1 DEF HandleWrite
  <2>3. w.conn.fd = conn[c].fd /\ pc' # "enqueue"
    BY <2>1, <2>2, WriteType DEF TypeOK
  <2>4. \A d \in Conn : conn'[d].fd = conn[d].fd
    BY <2>1, <2>2, <2>3 DEF TypeOK
  <2>5. UNCHANGED <<tasks, wk, completed, local, processing>> /\ mixed \subseteq mixed'
    BY <1>10 DEF HandleWrite, Mix
  <2> QED  BY <1>3, <2>3, <2>4, <2>5
<1>11. ASSUME NEW c \in Conn, NEW fd \in Fd, AcceptOne(c, fd) PROVE WorkApart'
  <2>1. /\ c \in backlog /\ pc' = "accept" /\ conn' = [conn EXCEPT ![c] = Opened(fd)]
        /\ UNCHANGED <<tasks, wk, completed, local, processing, mixed>>
    BY <1>11 DEF AcceptOne, MoreToAccept
  <2>2. ASSUME NEW d \in Conn \ mixed PROVE Apart(d)'
    <3>1. Sole(d)' /\ (HasWork(d)' => HasWork(d))
      BY <1>1, <2>1, SoleStays DEF Held, ToEnqueue
    <3>2. CASE d # c
      <4>1. conn'[d] = conn[d]
        BY <2>1, <3>2 DEF TypeOK
      <4> QED  BY <1>1, <2>1, <3>1, <4>1, ApartStays
    <3>3. CASE d = c
      <4>1. ~HasWork(d)'
        BY <2>1, <3>3 DEF HasWork, ToEnqueue, Has, AtWorker, Held, WorkIsKnown, AllKnown, Known
      <4> QED  BY <3>1, <4>1 DEF Apart
    <3> QED  BY <3>2, <3>3
  <2> QED  BY <2>1, <2>2 DEF WorkApart
<1>12. ASSUME NEW c \in Conn, NEW fd \in Fd, AcceptNotAdded(c, fd) PROVE WorkApart'
  BY <1>3, <1>12 DEF AcceptNotAdded
<1>13. CASE Enqueue
  <2>1. UNCHANGED <<processing, conn, mixed>>
    BY <1>13 DEF Enqueue
  <2> QED  BY <1>1, <1>2, <1>13, <2>1, EnqueueSole
<1>14. CASE CloseCurrent
  <2>1. /\ cur \in Fd /\ user[cur] # NoConn /\ CloseConn(cur) /\ UNCHANGED <<local, mixed>>
        /\ pc' # "enqueue"
    BY <1>14 DEF CloseCurrent, TablesAgree, Midway
  <2> QED  BY <2>1, CloseConnApart
<1>15. CASE ResetAndRead
  <2>1. PICK c \in Conn : c = user[cur]
    BY <1>15 DEF ResetAndRead, TablesAgree, Midway, TypeOK
  <2>2. conn' = [conn EXCEPT ![c] = Rewound(conn[c])]
    BY <1>15, <2>1 DEF ResetAndRead
  <2>3. \A d \in Conn : conn'[d].fd = conn[d].fd
    BY <2>2, RewoundType DEF TypeOK
  <2>4. UNCHANGED <<tasks, wk, completed, local, processing, mixed>> /\ pc' # "enqueue"
    BY <1>15 DEF ResetAndRead
  <2> QED  BY <1>3, <2>3, <2>4
<1>16. CASE SwapResults
  <2>1. UNCHANGED <<processing, conn, mixed>>
    BY <1>16 DEF SwapResults
  <2> QED  BY <1>1, <1>2, <1>16, <2>1, SwapSole
<1>17. CASE ApplyResult
  <2>1. PICK r \in Result : r = Head(local)
    BY <1>17 DEF ApplyResult, TypeOK
  <2>2. /\ processing' = processing \ {r.fd} /\ UNCHANGED conn
        /\ mixed' = IF user[r.fd] \in {NoConn, r.conn} THEN mixed ELSE mixed \cup {user[r.fd]}
    BY <1>17, <2>1 DEF ApplyResult, Unmarked, Mix
  <2>3. ASSUME NEW c \in Conn \ mixed' PROVE Apart(c)'
    <3>1. Apart(c) /\ Sole(c) /\ c \notin mixed
      BY <1>1, <2>2, <2>3
    <3>2. Sole(c)' /\ (HasWork(c)' => HasWork(c)) /\ (r.conn = c => ~HasWork(c)')
      BY <1>17, <2>1, <3>1, ApplySole
    <3>3. CASE r.conn = c
      BY <3>2, <3>3 DEF Apart
    <3>4. CASE r.conn # c
      <4>1. conn[c].fd # r.fd
        <5>1. SUFFICES ASSUME conn[c].fd = r.fd PROVE FALSE
          OBVIOUS
        <5>2. r.fd \in Fd
          BY <2>1 DEF Result
        <5>3. user[r.fd] = c
          BY <5>1, <5>2 DEF TablesAgree
        <5> QED  BY <2>2, <2>3, <3>4, <5>3
      <4> QED  BY <2>2, <3>1, <3>2, <4>1, ApartStays
    <3> QED  BY <3>3, <3>4
  <2> QED  BY <2>3 DEF WorkApart
<1>18. ASSUME NEW w \in Worker, Pop(w) PROVE WorkApart'
  <2>1. UNCHANGED <<processing, conn, mixed>>
    BY <1>18 DEF Pop
  <2> QED  BY <1>1, <1>2, <1>18, <2>1, PopSole
<1>19. ASSUME NEW w \in Worker, BeginProcess(w) \/ EndProcess(w) \/ WriteWakeup(w) PROVE WorkApart'
  <2>1. /\ UNCHANGED <<tasks, completed, local, pc, cur, user, processing, mixed>>
        /\ \A v \in Worker : Held(v)' => Held(v) /\ wk'[v].conn = wk[v].conn
    <3>1. CASE BeginProcess(w)
      BY <3>1 DEF BeginProcess, Held, TypeOK, WorkerState
    <3>2. CASE EndProcess(w)
      BY <3>2 DEF EndProcess, Held, TypeOK, WorkerState
    <3>3. CASE WriteWakeup(w)
      BY <3>3 DEF WriteWakeup, Held, TypeOK, Idle
    <3> QED  BY <1>19, <3>1, <3>2, <3>3
  <2>2. \A c \in Conn : conn'[c].fd = conn[c].fd
    <3>1. CASE BeginProcess(w) \/ WriteWakeup(w)
      BY <3>1 DEF BeginProcess, WriteWakeup
    <3>2. CASE EndProcess(w)
      <4>1. PICK d \in Conn : d = wk[w].conn
        BY <3>2 DEF EndProcess, Bookkeeping, Held
      <4>2. PICK p \in Process(conn[d]) : conn' = [conn EXCEPT ![d] = p.conn]
        BY <3>2, <4>1 DEF EndProcess
      <4>3. p.conn.fd = conn[d].fd
        BY <4>1, <4>2, ProcessType DEF TypeOK
      <4> QED  BY <4>1, <4>2, <4>3 DEF TypeOK
    <3> QED  BY <1>19, <3>1, <3>2
  <2>3. ASSUME NEW c \in Conn \ mixed PROVE Sole(c)' /\ (HasWork(c)' => HasWork(c))
    BY <1>1, <2>1, SoleStays DEF ToEnqueue
  <2> QED  BY <1>2, <2>1, <2>2, <2>3
<1>20. ASSUME NEW w \in Worker, PushResult(w) PROVE WorkApart'
  <2>1. UNCHANGED <<processing, conn, mixed>>
    BY <1>20 DEF PushResult
  <2> QED  BY <1>1, <1>2, <1>20, <2>1, PushSole
<1> QED
  BY <1>4, <1>5, <1>6, <1>7, <1>8, <1>9, <1>10, <1>11, <1>12, <1>13, <1>14, <1>15, <1>16, <1>17,
     <1>18, <1>19, <1>20 DEF Next, Loop, Pool

(* The two strengthenings together.                                        *)
WorkInvariant == WorkIsKnown /\ WorkApart

(* In every behaviour the queue, the workers and the result lists name     *)
(* accepted connections only, and no connection outside mixed has two work *)
(* items: a worker never meets another one, or the loop, on its object.    *)
THEOREM WorkStaysApart == Spec => []WorkInvariant
<1>1. Init => WorkInvariant
  <2>1. ASSUME Init, NEW c \in Conn PROVE Apart(c)
    BY <2>1 DEF Init, Apart, Sole, HasWork, ToEnqueue, Has, Once, AtWorker, AtOneWorker, Held, Idle
  <2>2. ASSUME Init PROVE WorkIsKnown
    BY <2>2 DEF Init, WorkIsKnown, AllKnown, Held, Idle
  <2> QED  BY <2>1, <2>2 DEF WorkInvariant, WorkApart
<1>2. Tables /\ WorkInvariant /\ [Next]_vars => WorkInvariant'
  BY WorkKnownStep, ApartStep DEF WorkInvariant
<1> QED  BY <1>1, <1>2, TablesInvariant, PTL DEF Spec

(* A set that has at most one element has cardinality 0 or 1.              *)
LEMMA CardinalityOfOne ==
  ASSUME NEW S, \A x, y \in S : x = y
  PROVE  Cardinality(S) = IF S = {} THEN 0 ELSE 1
<1>1. CASE S = {}
  BY <1>1, FS_EmptySet
<1>2. CASE S # {}
  <2>1. PICK x \in S : TRUE
    BY <1>2
  <2>2. S = {x}
    BY <2>1
  <2> QED  BY <1>2, <2>2, FS_Singleton
<1> QED  BY <1>1, <1>2

(* As long as no event or result of an earlier owner of its number reached *)
(* it, a connection has at most one work item, wherever it is.             *)
THEOREM WorkIsSole == Spec => []SoleWorkItem
<1>1. WorkApart => SoleWorkItem
  <2> SUFFICES ASSUME WorkApart, NEW c \in Conn \ mixed PROVE WorkItems(c) <= 1
    BY DEF SoleWorkItem
  <2> DEFINE T == {i \in DOMAIN tasks : tasks[i].conn = c}
             W == {w \in Worker : Held(w) /\ wk[w].conn = c}
             C == {i \in DOMAIN completed : completed[i].conn = c}
             L == {i \in DOMAIN local : local[i].conn = c}
  <2>1. Sole(c)
    BY DEF WorkApart, Apart
  <2>2. /\ \A x, y \in T : x = y
        /\ \A x, y \in W : x = y
        /\ \A x, y \in C : x = y
        /\ \A x, y \in L : x = y
    BY <2>1 DEF Sole, Once, AtOneWorker
  <2>3. /\ T # {} <=> Has(tasks, c)
        /\ W # {} <=> AtWorker(c)
        /\ C # {} <=> Has(completed, c)
        /\ L # {} <=> Has(local, c)
    BY DEF Has, AtWorker
  <2>4. WorkItems(c) = (IF ToEnqueue(c) THEN 1 ELSE 0) + Cardinality(T) + Cardinality(W)
                       + Cardinality(C) + Cardinality(L)
    BY DEF WorkItems, ToEnqueue
  <2> HIDE DEF T, W, C, L
  <2>5. /\ Cardinality(T) = IF Has(tasks, c) THEN 1 ELSE 0
        /\ Cardinality(W) = IF AtWorker(c) THEN 1 ELSE 0
        /\ Cardinality(C) = IF Has(completed, c) THEN 1 ELSE 0
        /\ Cardinality(L) = IF Has(local, c) THEN 1 ELSE 0
    BY <2>2, <2>3, CardinalityOfOne
  <2> QED  BY <2>1, <2>4, <2>5 DEF Sole
<1> QED  BY <1>1, WorkStaysApart, PTL DEF WorkInvariant

(* While such a connection has work in flight its descriptor is deaf, and  *)
(* the loop neither reads, nor writes, nor rewinds it (WebServer.cpp:      *)
(* 201-211).                                                               *)
THEOREM LoopStaysOff == Spec => []LoopKeepsOff
<1>1. Tables /\ WorkApart => LoopKeepsOff
  <2> SUFFICES ASSUME Tables, WorkApart, NEW f \in Fd, user[f] # NoConn, user[f] \notin mixed,
                      InFlight(f, user[f])
               PROVE  interest[f] = kProcessEvent /\ ~(pc \in {"sent", "reset"} /\ cur = f)
    BY DEF LoopKeepsOff
  <2>1. PICK c \in Conn : c = user[f]
    BY DEF Tables, TypeOK
  <2>2. HasWork(c)
    BY <2>1 DEF HasWork, InFlight, Unparsed, ToEnqueue, Has, AtWorker, Held
  <2>3. conn[c].fd = f /\ f # NoFd
    BY <2>1, ConnectionAssumption DEF Tables, TablesAgree
  <2>4. f \in processing
    BY <2>1, <2>2, <2>3 DEF WorkApart, Apart
  <2> QED  BY <2>4 DEF Tables, MarkedIffDeaf, Bookkeeping
<1> QED  BY <1>1, WorkStaysApart, TablesInvariant, PTL DEF WorkInvariant

-----------------------------------------------------------------------------
(* A response is reported as sent only when there was one.                 *)
Prepared(c) == conn[c].toSend > 0 \/ conn[c].haveSent > 0

AllPrepared(s) ==
  \A i \in DOMAIN s : s[i].ready /\ s[i].conn \notin mixed => Prepared(s[i].conn)

(* Whatever may lead the loop to handleWrite for a connection nothing of   *)
(* another reached, namely a mask with EPOLLOUT, an event collected under  *)
(* it or a result that will set it, the connection has a response.         *)
Responses ==
  /\ \A f \in Fd : "OUT" \in interest[f] /\ user[f] \notin mixed => Prepared(user[f])
  /\ \A e \in batch : "OUT" \in e.ev /\ e.conn = user[e.fd] /\ e.conn \notin mixed
                        => Prepared(e.conn)
  /\ \A w \in Worker : wk[w].st = "processed" /\ wk[w].ready /\ wk[w].conn \notin mixed
                         => Prepared(wk[w].conn)
  /\ AllPrepared(completed) /\ AllPrepared(local)
  /\ SentMeansSentUnmixed

(* An event is of a connection accepted before; the event a handler took   *)
(* was the only one of its descriptor.                                     *)
EventsAreKnown ==
  /\ \A e \in batch : e.conn # NoConn => Accepted(e.conn)
  /\ \A e \in batch : "OUT" \in e.ev => e.fd \in Fd /\ e.conn \in Conn
  /\ pc \in {"sent", "reset"} => \A e \in batch : e.fd # cur

(* What write() and process() leave to send.                               *)
LEMMA WritePrepared ==
  ASSUME NEW c \in ConnObject, NEW room \in BOOLEAN, NEW ps, NEW w \in Write(c, room, ps),
         c.toSend > 0 \/ c.haveSent > 0
  PROVE  /\ w.conn.toSend > 0 \/ w.conn.haveSent > 0
         /\ w.res = "DONE" => w.conn.haveSent > 0
<1>1. c.toSend \in Nat /\ c.haveSent \in Nat
  BY DEF ConnObject
<1>2. \A n \in Nat : Sent(c, n).haveSent = c.haveSent + n /\ Sent(c, n).toSend = c.toSend - n
  BY DEF Sent, ConnObject
<1>3. CASE c.toSend = 0
  BY <1>1, <1>3 DEF Write
<1>4. CASE c.toSend # 0 /\ ps = "rst"
  BY <1>1, <1>4 DEF Write
<1>5. CASE c.toSend # 0 /\ ps # "rst" /\ ~room
  <2>1. w = [conn |-> c, res |-> "AGAIN", room |-> FALSE]
    BY <1>5, Zenon DEF Write
  <2>2. w.conn = c /\ w.res = "AGAIN"
    BY <2>1
  <2> QED  BY <2>2
<1>6. CASE c.toSend # 0 /\ ps # "rst" /\ room
  <2>1. CASE w \in {[conn |-> Sent(c, c.toSend), res |-> "DONE", room |-> r] : r \in BOOLEAN}
    <3>1. w.conn = Sent(c, c.toSend)
      BY <2>1
    <3> QED  BY <1>1, <1>2, <1>6, <3>1
  <2>2. CASE w \in {[conn |-> Sent(c, n), res |-> "AGAIN", room |-> FALSE] :
                      n \in 1..(c.toSend - 1)}
    <3>1. PICK n \in 1..(c.toSend - 1) : w.conn = Sent(c, n) /\ w.res = "AGAIN"
      BY <2>2
    <3> QED  BY <1>1, <1>2, <3>1
  <2> QED  BY <1>6, <2>1, <2>2, Zenon DEF Write
<1> QED  BY <1>3, <1>4, <1>5, <1>6

(* process() reports ready only with an answer in the write buffer.        *)
LEMMA ProcessPrepared ==
  ASSUME NEW c \in ConnObject, NEW p \in Process(c)
  PROVE  p.ready => p.conn.toSend > 0
<1> DEFINE d == Cleared(c)
<1>1. d \in ConnObject
  BY ClearedType
<1>2. CASE p \in Incomplete(c) \cup Unanswered(c)
  <2>1. p.ready = FALSE
    BY <1>2 DEF Incomplete, Unanswered
  <2> QED  BY <2>1
<1>3. CASE p \in BadRequest(c)
  <2>1. p = [conn |-> [d EXCEPT !.keepAlive = FALSE, !.toSend = 1], ready |-> TRUE]
    BY <1>3 DEF BadRequest
  <2>2. [d EXCEPT !.keepAlive = FALSE, !.toSend = 1].toSend = 1
    BY <1>1 DEF ConnObject
  <2> HIDE DEF d
  <2>3. p.conn = [d EXCEPT !.keepAlive = FALSE, !.toSend = 1]
    BY <2>1
  <2>4. p.conn.toSend = 1
    BY <2>2, <2>3, Zenon
  <2> QED  BY <2>4
<1>4. CASE p \in Answered(c)
  <2>1. PICK k \in BOOLEAN, n \in 1..MaxResp :
          p = [conn |-> [d EXCEPT !.keepAlive = k, !.toSend = n], ready |-> TRUE]
    BY <1>4 DEF Answered
  <2>2. [d EXCEPT !.keepAlive = k, !.toSend = n].toSend = n /\ n > 0
    BY <1>1, ConnectionAssumption DEF ConnObject
  <2> HIDE DEF d
  <2> QED  BY <2>1, <2>2
<1> QED  BY <1>2, <1>3, <1>4 DEF Process

(* Every step keeps EventsAreKnown.                                        *)
LEMMA EventsStep ==
  ASSUME Tables, EventsAreKnown, [Next]_vars
  PROVE  EventsAreKnown'
<1> USE ConnectionAssumption, WebServerAssumption DEF Tables
<1> USE DEF clientVars, kernelVars, loopVars, tableVars, poolVars, history
<1>1. \A c \in Conn : Accepted(c) => Accepted(c)'
  BY OncePerConnection
<1>2. ASSUME batch' \subseteq batch,
             pc' \in {"sent", "reset"} => \A e \in batch' : e.fd # cur'
      PROVE  EventsAreKnown'
  <2>1. \A e \in batch : e.conn \in Conn \cup {NoConn}
    BY DEF TypeOK, Event
  <2> QED  BY <1>1, <1>2, <2>1 DEF EventsAreKnown
<1>3. CASE UNCHANGED vars \/ Client
  <2>1. UNCHANGED <<pc, cur, batch>>
    BY <1>3 DEF vars, Client, Connect, SendSegment, Drain, HangUp, Expire
  <2> QED  BY <1>2, <2>1 DEF EventsAreKnown
<1>4. ASSUME NEW fd \in Fd, CloseExpired(fd) PROVE EventsAreKnown'
  BY <1>2, <1>4 DEF CloseExpired
<1>5. CASE TickDone \/ DispatchDone \/ AcceptFails \/ AcceptDone \/ SwapResults \/ ApplyResult
           \/ ResultsDone \/ Enqueue \/ CloseCurrent \/ ResetAndRead
  <2>1. UNCHANGED batch /\ pc' \notin {"sent", "reset"}
    BY <1>5 DEF TickDone, DispatchDone, AcceptFails, AcceptDone, SwapResults, ApplyResult,
                ResultsDone, Enqueue, CloseCurrent, ResetAndRead
  <2> QED  BY <1>2, <2>1
<1>6. CASE EpollWait
  <2>1. batch' = Reported /\ pc' = "tick"
    BY <1>6 DEF EpollWait
  <2>2. ASSUME NEW e \in Reported
        PROVE  /\ e.conn # NoConn => Accepted(e.conn)
               /\ "OUT" \in e.ev => e.fd \in Fd /\ e.conn \in Conn
    <3>1. CASE e.conn = NoConn /\ e.ev = {"IN"}
      BY <3>1
    <3>2. CASE \E f \in Fd : e = [fd |-> f, ev |-> Poll(sock[f]) \cap interest[f], conn |-> sock[f]]
                              /\ e.ev # {}
      <4>1. PICK f \in Fd : e = [fd |-> f, ev |-> Poll(sock[f]) \cap interest[f], conn |-> sock[f]]
                              /\ e.ev # {}
        BY <3>2
      <4>2. sock[f] \in Conn
        BY <4>1 DEF Poll, TypeOK
      <4>3. Accepted(sock[f])
        BY <4>2 DEF TablesAgree, Bookkeeping, Accepted
      <4> QED  BY <4>1, <4>2, <4>3
    <3> QED  BY <3>1, <3>2 DEF Reported
  <2>3. UNCHANGED <<peer, backlog>>
    BY <1>6 DEF EpollWait
  <2> QED  BY <2>1, <2>2, <2>3 DEF EventsAreKnown, Accepted
<1>7. ASSUME NEW e \in batch, SkipEvent(e) \/ HandleListen(e) \/ DrainWakeup(e) \/ HandleRead(e)
                              \/ CloseOnHangUp(e)
      PROVE  EventsAreKnown'
  <2>1. batch' \subseteq batch /\ pc' \notin {"sent", "reset"}
    BY <1>7 DEF SkipEvent, HandleListen, DrainWakeup, HandleRead, CloseOnHangUp, Taken
  <2> QED  BY <1>2, <2>1
<1>8. ASSUME NEW e \in batch, HandleWrite(e) PROVE EventsAreKnown'
  <2>1. batch' = batch \ {e} /\ (pc' = "sent" => cur' = e.fd) /\ pc' # "reset"
    BY <1>8 DEF HandleWrite, Taken
  <2>2. \A d \in batch' : d.fd # e.fd
    BY <2>1 DEF Bookkeeping
  <2> QED  BY <1>2, <2>1, <2>2
<1>9. ASSUME NEW c \in Conn, NEW fd \in Fd, AcceptOne(c, fd) \/ AcceptNotAdded(c, fd)
      PROVE  EventsAreKnown'
  <2>1. UNCHANGED batch /\ pc' \notin {"sent", "reset"}
    BY <1>9 DEF AcceptOne, AcceptNotAdded, MoreToAccept
  <2> QED  BY <1>2, <2>1
<1>10. CASE CheckKeepAlive
  <2>1. UNCHANGED <<batch, cur>> /\ pc = "sent"
    BY <1>10 DEF CheckKeepAlive
  <2> QED  BY <1>2, <2>1 DEF EventsAreKnown
<1>11. CASE Pool
  <2>1. UNCHANGED <<pc, cur, batch>>
    BY <1>11 DEF Pool, Pop, BeginProcess, EndProcess, PushResult, WriteWakeup
  <2> QED  BY <1>2, <2>1 DEF EventsAreKnown
<1> QED
  BY <1>3, <1>4, <1>5, <1>6, <1>7, <1>8, <1>9, <1>10, <1>11 DEF Next, Loop

(* A connection with a response still has one after the step.              *)
Keeps(c) ==
  conn[c].toSend > 0 \/ conn[c].haveSent > 0
    => conn'[c].toSend > 0 \/ conn'[c].haveSent > 0

(* The parts of Responses, each under what keeps it true.                  *)
LEMMA MasksStay ==
  ASSUME Responses, mixed \subseteq mixed',
         \A f \in Fd : "OUT" \in interest'[f] /\ user'[f] \notin mixed'
           => "OUT" \in interest[f] /\ user'[f] = user[f] /\ Keeps(user[f])
  PROVE  \A f \in Fd : "OUT" \in interest'[f] /\ user'[f] \notin mixed' => Prepared(user[f])'
BY DEF Responses, Prepared, Keeps

(* What Responses says of the batch survives a step that keeps the         *)
(* objects its EPOLLOUT events belong to.                                  *)
LEMMA EventsStay ==
  ASSUME Responses, mixed \subseteq mixed', batch' \subseteq batch,
         \A e \in batch' : "OUT" \in e.ev /\ e.conn = user'[e.fd] /\ e.conn \notin mixed'
           => e.conn = user[e.fd] /\ Keeps(e.conn)
  PROVE  \A e \in batch' : "OUT" \in e.ev /\ e.conn = user'[e.fd] /\ e.conn \notin mixed'
           => Prepared(e.conn)'
BY DEF Responses, Prepared, Keeps

(* The same for the completed results.                                     *)
LEMMA ResultsStay ==
  ASSUME TypeOK, Responses, mixed \subseteq mixed', UNCHANGED <<completed, local>>,
         \A c \in Conn \ mixed' : Has(completed, c) \/ Has(local, c) => Keeps(c)
  PROVE  AllPrepared(completed)' /\ AllPrepared(local)'
<1>1. ASSUME NEW i \in DOMAIN completed, completed[i].ready, completed[i].conn \notin mixed'
      PROVE  Prepared(completed[i].conn)'
  <2>1. Prepared(completed[i].conn) /\ Has(completed, completed[i].conn) /\ completed[i].conn \in Conn
    BY <1>1, WorkTypes DEF Responses, AllPrepared, Has
  <2> QED  BY <1>1, <2>1 DEF Prepared, Keeps
<1>2. ASSUME NEW i \in DOMAIN local, local[i].ready, local[i].conn \notin mixed'
      PROVE  Prepared(local[i].conn)'
  <2>1. Prepared(local[i].conn) /\ Has(local, local[i].conn) /\ local[i].conn \in Conn
    BY <1>2, WorkTypes DEF Responses, AllPrepared, Has
  <2> QED  BY <1>2, <2>1 DEF Prepared, Keeps
<1> QED  BY <1>1, <1>2 DEF AllPrepared

(* The same for the workers.                                               *)
LEMMA WorkersStay ==
  ASSUME Responses, Bookkeeping, mixed \subseteq mixed',
         \A w \in Worker : wk'[w].st = "processed" => wk'[w] = wk[w],
         \A c \in Conn \ mixed' : AtWorker(c) => Keeps(c)
  PROVE  \A w \in Worker : wk'[w].st = "processed" /\ wk'[w].ready /\ wk'[w].conn \notin mixed'
           => Prepared(wk[w].conn)'
<1>1. ASSUME NEW w \in Worker, wk'[w].st = "processed", wk'[w].ready, wk'[w].conn \notin mixed'
      PROVE  Prepared(wk[w].conn)'
  <2>1. wk'[w] = wk[w] /\ Held(w) /\ wk[w].conn \in Conn
    BY <1>1 DEF Held, Bookkeeping
  <2>2. Prepared(wk[w].conn) /\ Keeps(wk[w].conn)
    BY <1>1, <2>1 DEF Responses, AtWorker
  <2> QED  BY <2>1, <2>2 DEF Prepared, Keeps
<1> QED  BY <1>1

(* A step that changes no response, registers no interest in output and    *)
(* produces no result.                                                     *)
LEMMA ResponsesStay ==
  ASSUME Tables, EventsAreKnown, Responses, mixed \subseteq mixed', UNCHANGED <<completed, local>>,
         \A w \in Worker : wk'[w].st = "processed" => wk'[w] = wk[w],
         batch' \subseteq batch,
         \A c \in Conn : conn'[c].toSend = conn[c].toSend /\ conn'[c].haveSent = conn[c].haveSent,
         \A f \in Fd : user'[f] \in {user[f], NoConn},
         \A f \in Fd : "OUT" \in interest'[f] => "OUT" \in interest[f] /\ user'[f] = user[f],
         SentMeansSentUnmixed'
  PROVE  Responses'
<1>1. \A c \in Conn : Keeps(c)
  BY DEF Keeps
<1>2. \A f \in Fd : "OUT" \in interest[f] => user[f] \in Conn
  BY DEF Tables, TypeOK, TablesAgree
<1>3. \A e \in batch : "OUT" \in e.ev => e.fd \in Fd /\ e.conn \in Conn /\ e.conn # NoConn
  BY WebServerAssumption DEF EventsAreKnown
<1>4. \A f \in Fd : "OUT" \in interest'[f] /\ user'[f] \notin mixed' => Prepared(user[f])'
  BY <1>1, <1>2, MasksStay
<1>5. \A e \in batch' : "OUT" \in e.ev /\ e.conn = user'[e.fd] /\ e.conn \notin mixed'
           => Prepared(e.conn)'
  BY <1>1, <1>3, EventsStay
<1>6. AllPrepared(completed)' /\ AllPrepared(local)'
  BY <1>1, ResultsStay DEF Tables
<1>7. \A w \in Worker : wk'[w].st = "processed" /\ wk'[w].ready /\ wk'[w].conn \notin mixed'
           => Prepared(wk[w].conn)'
  BY <1>1, WorkersStay DEF Tables
<1> QED  BY <1>4, <1>5, <1>6, <1>7 DEF Responses

(* CloseConn keeps Responses: the closed descriptor's mask is empty, and no *)
(* EPOLLOUT is dispatched to it.                                           *)
LEMMA CloseConnResponses ==
  ASSUME Tables, EventsAreKnown, Responses, mixed \subseteq mixed', NEW fd \in Fd, CloseConn(fd),
         batch' \subseteq batch, UNCHANGED local, pc' # "sent"
  PROVE  Responses'
<1>1. /\ UNCHANGED <<completed, wk>> /\ user' = [user EXCEPT ![fd] = NoConn]
      /\ interest' = [interest EXCEPT ![fd] = {}]
      /\ conn' = [k \in Conn |-> IF k = user[fd] THEN Released(conn[k]) ELSE conn[k]]
  BY DEF CloseConn
<1>2. \A c \in Conn : conn'[c].toSend = conn[c].toSend /\ conn'[c].haveSent = conn[c].haveSent
  BY <1>1 DEF Released, Tables, TypeOK, ConnObject
<1>3. \A f \in Fd : "OUT" \in interest'[f] => "OUT" \in interest[f] /\ user'[f] = user[f]
  BY <1>1 DEF Tables, TypeOK
<1>4. \A f \in Fd : user'[f] \in {user[f], NoConn}
  BY <1>1 DEF Tables, TypeOK
<1> QED  BY <1>1, <1>2, <1>3, <1>4, ResponsesStay DEF SentMeansSentUnmixed

(* Every step keeps Responses.                                             *)
LEMMA ResponsesStep ==
  ASSUME Tables, WorkInvariant, EventsAreKnown, Responses, [Next]_vars
  PROVE  Responses'
<1> USE ConnectionAssumption, WebServerAssumption DEF Tables
<1> USE DEF clientVars, kernelVars, loopVars, tableVars, poolVars, history
<1>0. "OUT" \notin kReadEvent /\ "OUT" \notin kProcessEvent
  BY DEF kReadEvent, kProcessEvent
<1>1. ASSUME UNCHANGED <<completed, local, conn, user, interest, mixed>>, batch' \subseteq batch,
             \A w \in Worker : wk'[w].st = "processed" => wk'[w] = wk[w],
             pc' = "sent" => UNCHANGED <<pc, cur>>
      PROVE  Responses'
  <2>1. SentMeansSentUnmixed'
    BY <1>1 DEF Responses, SentMeansSentUnmixed
  <2> QED  BY <1>1, <2>1, ResponsesStay
<1>2. CASE UNCHANGED vars \/ Client
  BY <1>1, <1>2 DEF vars, Client, Connect, SendSegment, Drain, HangUp, Expire
<1>3. ASSUME NEW fd \in Fd, CloseExpired(fd) PROVE Responses'
  BY <1>3, CloseConnResponses DEF CloseExpired
<1>4. CASE TickDone \/ DispatchDone \/ AcceptFails \/ AcceptDone \/ CheckKeepAlive \/ ResultsDone
           \/ Enqueue
  <2>1. UNCHANGED <<completed, local, conn, user, interest, mixed, batch, wk>> /\ pc' # "sent"
    BY <1>4 DEF TickDone, DispatchDone, AcceptFails, AcceptDone, CheckKeepAlive, ResultsDone, Enqueue
  <2> QED  BY <1>1, <2>1
<1>5. CASE EpollWait
  <2>1. /\ batch' = Reported /\ pc' = "tick"
        /\ UNCHANGED <<completed, local, conn, user, interest, mixed, wk>>
    BY <1>5 DEF EpollWait
  <2>2. ASSUME NEW e \in Reported, "OUT" \in e.ev, e.conn \notin mixed PROVE Prepared(e.conn)
    <3>1. PICK f \in Fd : e = [fd |-> f, ev |-> Poll(sock[f]) \cap interest[f], conn |-> sock[f]]
      BY <2>2 DEF Reported
    <3>2. "OUT" \in interest[f] /\ e.conn = user[f]
      BY <2>2, <3>1 DEF TablesAgree
    <3> QED  BY <2>2, <3>2 DEF Responses
  <2>3. \A c \in Conn : Keeps(c)
    BY <2>1 DEF Keeps
  <2>4. /\ \A e \in batch' : "OUT" \in e.ev /\ e.conn = user'[e.fd] /\ e.conn \notin mixed'
             => Prepared(e.conn)'
        /\ \A f \in Fd : "OUT" \in interest'[f] /\ user'[f] \notin mixed' => Prepared(user[f])'
    BY <2>1, <2>2 DEF Responses, Prepared
  <2>5. AllPrepared(completed)' /\ AllPrepared(local)'
    BY <2>1, <2>3, ResultsStay
  <2> QED  BY <2>1, <2>4, <2>5 DEF Responses, Prepared, SentMeansSentUnmixed
<1>6. ASSUME NEW e \in batch, SkipEvent(e) \/ HandleListen(e) \/ DrainWakeup(e) PROVE Responses'
  <2>1. /\ UNCHANGED <<completed, local, conn, user, interest, mixed, wk>> /\ pc' # "sent"
        /\ batch' \subseteq batch
    BY <1>6 DEF SkipEvent, HandleListen, DrainWakeup, Taken
  <2> QED  BY <1>1, <2>1
<1>7. ASSUME NEW e \in batch, CloseOnHangUp(e) PROVE Responses'
  <2>1. /\ e.fd \in Fd /\ CloseConn(e.fd) /\ mixed \subseteq mixed' /\ batch' \subseteq batch
        /\ UNCHANGED local /\ pc' # "sent"
    BY <1>7 DEF CloseOnHangUp, Taken, Mix
  <2> QED  BY <2>1, CloseConnResponses
<1>8. ASSUME NEW e \in batch, HandleRead(e) PROVE Responses'
  <2>1. PICK fd \in Fd, c \in Conn : fd = e.fd /\ c = user[fd] /\ c # NoConn
    BY <1>8 DEF HandleRead, TypeOK
  <2>2. /\ pc = "dispatch" /\ UNCHANGED <<user, wk, completed, local>> /\ batch' \subseteq batch
        /\ conn' = [conn EXCEPT ![c] = AfterRead(conn[c], inb[c])] /\ mixed \subseteq mixed'
        /\ Registered(fd)
    BY <1>8, <2>1 DEF HandleRead, Taken, Mix, TablesAgree, Registered
  <2>3. \A d \in Conn : conn'[d].toSend = conn[d].toSend /\ conn'[d].haveSent = conn[d].haveSent
    <3>1. AfterRead(conn[c], inb[c]).toSend = conn[c].toSend
          /\ AfterRead(conn[c], inb[c]).haveSent = conn[c].haveSent
      BY DEF AfterRead, TypeOK, ConnObject
    <3> QED  BY <2>2, <3>1 DEF TypeOK
  <2>4. pc' # "sent" /\ \A f \in Fd : "OUT" \in interest'[f] => "OUT" \in interest[f]
    <3>1. CASE ReadResult(conn[c], inb[c], peer[c]) # "DONE" \/ fd \in processing
      BY <1>8, <2>1, <2>2, <3>1 DEF HandleRead
    <3>2. CASE ReadResult(conn[c], inb[c], peer[c]) = "DONE" /\ fd \notin processing
      <4>1. pc' = "enqueue" /\ ModFd(fd, kProcessEvent)
        BY <1>8, <2>1, <2>2, <3>2 DEF HandleRead
      <4> QED  BY <1>0, <2>2, <4>1, ModFdMask
    <3> QED  BY <3>1, <3>2
  <2> QED  BY <2>2, <2>3, <2>4, ResponsesStay DEF SentMeansSentUnmixed
<1>9. ASSUME NEW e \in batch, HandleWrite(e) PROVE Responses'
  <2>1. PICK fd \in Fd, c \in Conn : fd = e.fd /\ c = user[fd] /\ c # NoConn
    BY <1>9 DEF HandleWrite, TypeOK
  <2>2. /\ UNCHANGED <<user, interest, wk, completed, local>> /\ batch' \subseteq batch
        /\ e.ev = {"OUT"} /\ mixed' = IF c = e.conn THEN mixed ELSE mixed \cup {c}
    BY <1>9, <2>1 DEF HandleWrite, Taken, Mix
  <2>3. PICK w \in Write(conn[c], space[c], peer[c]) :
          /\ conn' = [conn EXCEPT ![c] = w.conn]
          /\ pc' = CASE w.res = "DONE" -> "sent" [] w.res = "ERROR" -> "close"
                     [] OTHER -> "dispatch"
          /\ cur' = IF w.res = "AGAIN" THEN NoFd ELSE fd
    BY <1>9, <2>1 DEF HandleWrite
  <2>4. ASSUME c \notin mixed'
        PROVE  /\ w.conn.toSend > 0 \/ w.conn.haveSent > 0
               /\ w.res = "DONE" => w.conn.haveSent > 0
    <3>1. Prepared(c)
      BY <2>1, <2>2, <2>4 DEF Responses
    <3> QED  BY <3>1, WritePrepared DEF Prepared, TypeOK
  <2>5. conn'[c] = w.conn /\ \A d \in Conn : d # c => conn'[d] = conn[d]
    BY <2>1, <2>3 DEF TypeOK
  <2>6. \A d \in Conn \ mixed' : Keeps(d)
    BY <2>4, <2>5 DEF Keeps
  <2>7. SentMeansSentUnmixed'
    <3>1. SUFFICES ASSUME pc' = "sent", user'[cur'] \notin mixed' PROVE conn'[user'[cur']].haveSent > 0
      BY DEF SentMeansSentUnmixed
    <3>2. w.res = "DONE"
      BY <2>1, <2>3, <3>1, WriteType DEF TypeOK
    <3>3. user'[cur'] = c
      BY <2>1, <2>2, <2>3, <3>2
    <3> QED  BY <2>4, <2>5, <3>1, <3>2, <3>3
  <2>8. \A f \in Fd : "OUT" \in interest[f] => user[f] \in Conn
    BY DEF TypeOK, TablesAgree
  <2>9. mixed \subseteq mixed'
    BY <2>2
  <2>10. \A f \in Fd : "OUT" \in interest'[f] /\ user'[f] \notin mixed' => Prepared(user[f])'
    BY <2>2, <2>6, <2>8, <2>9, MasksStay
  <2>11. \A d \in batch' : "OUT" \in d.ev /\ d.conn = user'[d.fd] /\ d.conn \notin mixed'
           => Prepared(d.conn)'
    BY <2>2, <2>6, <2>9, EventsStay DEF EventsAreKnown
  <2>12. AllPrepared(completed)' /\ AllPrepared(local)'
    BY <2>2, <2>6, <2>9, ResultsStay
  <2>13. \A v \in Worker : wk'[v].st = "processed" /\ wk'[v].ready /\ wk'[v].conn \notin mixed'
           => Prepared(wk[v].conn)'
    BY <2>2, <2>6, <2>9, WorkersStay
  <2> QED  BY <2>7, <2>10, <2>11, <2>12, <2>13 DEF Responses
<1>10. ASSUME NEW c \in Conn, NEW fd \in Fd, AcceptOne(c, fd) PROVE Responses'
  <2>1. /\ c \in backlog /\ sock[fd] = NoConn /\ pc' = "accept" /\ conn' = [conn EXCEPT ![c] = Opened(fd)]
        /\ user' = [user EXCEPT ![fd] = c] /\ interest' = [interest EXCEPT ![fd] = kReadEvent]
        /\ UNCHANGED <<wk, completed, local, batch, mixed>>
    BY <1>10 DEF AcceptOne, MoreToAccept
  <2>2. \A d \in Conn : d # c => Keeps(d)
    BY <2>1 DEF Keeps, TypeOK
  <2>3. \A f \in Fd : "OUT" \in interest'[f]
          => "OUT" \in interest[f] /\ user'[f] = user[f] /\ user[f] \in Conn /\ user[f] # c
    <3>1. ASSUME NEW f \in Fd, "OUT" \in interest'[f]
          PROVE  "OUT" \in interest[f] /\ user'[f] = user[f] /\ user[f] \in Conn /\ user[f] # c
      <4>1. f # fd
        BY <1>0, <2>1, <3>1 DEF TypeOK
      <4>2. "OUT" \in interest[f] /\ user'[f] = user[f] /\ user[f] \in Conn
        BY <2>1, <3>1, <4>1 DEF TypeOK, TablesAgree
      <4>3. conn[user[f]].fd = f /\ conn[c].fd = NoFd
        BY <2>1, <4>2 DEF TablesAgree, Bookkeeping
      <4> QED  BY <4>2, <4>3
    <3> QED  BY <3>1
  <2>4. \A f \in Fd : "OUT" \in interest'[f] /\ user'[f] \notin mixed' => Prepared(user[f])'
    BY <2>1, <2>2, <2>3, MasksStay
  <2>5. \A e \in batch' : "OUT" \in e.ev /\ e.conn = user'[e.fd] /\ e.conn \notin mixed'
           => Prepared(e.conn)'
    <3>1. \A e \in batch : "OUT" \in e.ev => e.fd \in Fd /\ e.conn \in Conn /\ e.conn # c
      BY <2>1 DEF EventsAreKnown, Accepted
    <3>2. \A e \in batch : "OUT" \in e.ev /\ e.conn = user'[e.fd] => e.conn = user[e.fd]
      BY <2>1, <3>1 DEF TypeOK
    <3> QED  BY <2>1, <2>2, <3>1, <3>2, EventsStay
  <2>6. ~Has(completed, c) /\ ~Has(local, c) /\ ~AtWorker(c)
    BY <2>1 DEF Has, AtWorker, WorkInvariant, WorkIsKnown, AllKnown, Known
  <2>7. AllPrepared(completed)' /\ AllPrepared(local)'
    <3>1. \A d \in Conn \ mixed' : Has(completed, d) \/ Has(local, d) => Keeps(d)
      BY <2>2, <2>6
    <3> QED  BY <2>1, <3>1, ResultsStay
  <2>8. \A v \in Worker : wk'[v].st = "processed" /\ wk'[v].ready /\ wk'[v].conn \notin mixed'
           => Prepared(wk[v].conn)'
    <3>1. \A d \in Conn \ mixed' : AtWorker(d) => Keeps(d)
      BY <2>2, <2>6
    <3> QED  BY <2>1, <3>1, WorkersStay
  <2> QED  BY <2>1, <2>4, <2>5, <2>7, <2>8 DEF Responses, SentMeansSentUnmixed
<1>11. ASSUME NEW c \in Conn, NEW fd \in Fd, AcceptNotAdded(c, fd) PROVE Responses'
  <2>1. UNCHANGED <<completed, local, conn, user, interest, mixed, batch, wk, pc, cur>>
    BY <1>11 DEF AcceptNotAdded
  <2> QED  BY <1>1, <2>1
<1>12. CASE CloseCurrent
  BY <1>12, CloseConnResponses DEF CloseCurrent, TablesAgree, Midway
<1>13. CASE ResetAndRead
  <2>1. PICK fd \in Fd, c \in Conn : fd = cur /\ c = user[fd]
    BY <1>13 DEF ResetAndRead, TablesAgree, Midway, TypeOK
  <2>2. /\ pc = "reset" /\ pc' \in {"dispatch", "close"} /\ ModFd(fd, kReadEvent)
        /\ conn' = [conn EXCEPT ![c] = Rewound(conn[c])]
        /\ UNCHANGED <<user, wk, completed, local, batch, mixed, processing>>
    BY <1>13, <2>1 DEF ResetAndRead
  <2>3. /\ \A d \in Conn : d # c => Keeps(d)
        /\ \A f \in Fd : "OUT" \in interest[f] => user[f] \in Conn
    BY <2>2 DEF Keeps, TypeOK, TablesAgree
  <2>4. Registered(fd) /\ conn[c].fd = fd /\ fd \notin processing
    BY <2>1, <2>2 DEF TablesAgree, Registered, Bookkeeping
  <2>5. \A f \in Fd : "OUT" \in interest'[f] => "OUT" \in interest[f] /\ f # fd
    BY <1>0, <2>2, <2>4, ModFdMask
  <2>6. \A f \in Fd : user[f] = c => f = fd
    BY <2>4 DEF TablesAgree
  <2>7. \A f \in Fd : "OUT" \in interest'[f] /\ user'[f] \notin mixed' => Prepared(user[f])'
    BY <2>2, <2>3, <2>5, <2>6, MasksStay
  <2>8. \A e \in batch' : "OUT" \in e.ev /\ e.conn = user'[e.fd] /\ e.conn \notin mixed'
           => Prepared(e.conn)'
    <3>1. \A e \in batch : "OUT" \in e.ev => e.fd \in Fd /\ e.conn \in Conn /\ e.fd # fd
      BY <2>1, <2>2 DEF EventsAreKnown
    <3> QED  BY <2>2, <2>3, <2>6, <3>1, EventsStay
  <2>9. ASSUME c \notin mixed PROVE ~HasWork(c)
    BY <2>4, <2>9 DEF WorkInvariant, WorkApart, Apart
  <2>10. \A d \in Conn \ mixed' : Has(completed, d) \/ Has(local, d) \/ AtWorker(d) => Keeps(d)
    BY <2>2, <2>3, <2>9 DEF HasWork
  <2>11. AllPrepared(completed)' /\ AllPrepared(local)'
    BY <2>2, <2>10, ResultsStay
  <2>12. \A v \in Worker : wk'[v].st = "processed" /\ wk'[v].ready /\ wk'[v].conn \notin mixed'
           => Prepared(wk[v].conn)'
    BY <2>2, <2>10, WorkersStay
  <2> QED  BY <2>2, <2>7, <2>8, <2>11, <2>12 DEF Responses, SentMeansSentUnmixed
<1>14. CASE SwapResults
  <2>1. /\ pc' = "results" /\ local' = completed /\ completed' = <<>>
        /\ UNCHANGED <<conn, user, interest, mixed, batch, wk>>
    BY <1>14 DEF SwapResults
  <2>2. AllPrepared(completed)' /\ AllPrepared(local)'
    BY <2>1 DEF Responses, AllPrepared, Prepared
  <2> QED  BY <2>1, <2>2 DEF Responses, Prepared, SentMeansSentUnmixed
<1>15. CASE ApplyResult
  <2>1. PICK r \in Result : r = Head(local)
    BY <1>15 DEF ApplyResult, TypeOK
  <2>2. /\ pc' \in {"results", "closeresult"} /\ local' = Tail(local) /\ local # <<>>
        /\ local \in Seq(Result)
        /\ UNCHANGED <<conn, user, batch, wk, completed>> /\ mixed \subseteq mixed'
        /\ user[r.fd] \notin {NoConn, r.conn} => user[r.fd] \in mixed'
    BY <1>15, <2>1 DEF ApplyResult, Mix, TypeOK
  <2>3. r.ready /\ r.conn \notin mixed => Prepared(r.conn)
    <3>1. 1 \in DOMAIN local /\ r = local[1]
      BY <2>1, <2>2
    <3> QED  BY <3>1 DEF Responses, AllPrepared
  <2>4. AllPrepared(local)' /\ AllPrepared(completed)'
    <3>1. \A i \in DOMAIN local' : \E j \in DOMAIN local : local'[i] = local[j]
      BY <2>2
    <3> QED  BY <2>2, <3>1 DEF Responses, AllPrepared, Prepared
  <2>5. \A f \in Fd : "OUT" \in interest'[f] /\ user'[f] \notin mixed' => Prepared(user[f])'
    <3>1. CASE user[r.fd] = NoConn
      <4>1. UNCHANGED interest
        BY <1>15, <2>1, <3>1 DEF ApplyResult
      <4> QED  BY <2>2, <4>1 DEF Responses, Prepared
    <3>2. CASE user[r.fd] # NoConn
      <4>1. PICK m : m = IF r.ready THEN kWriteEvent ELSE kReadEvent
        OBVIOUS
      <4>2. r.fd \in Fd /\ Registered(r.fd) /\ ModFd(r.fd, m)
        BY <1>15, <2>1, <3>2, <4>1 DEF ApplyResult, TablesAgree, Registered, Result
      <4>3. \A f \in Fd : interest'[f] = IF f = r.fd THEN m ELSE interest[f]
        BY <4>2, ModFdMask
      <4>4. "OUT" \in m => r.ready
        BY <1>0, <4>1
      <4>5. ASSUME "OUT" \in interest'[r.fd], user[r.fd] \notin mixed' PROVE Prepared(user[r.fd])
        BY <2>2, <2>3, <3>2, <4>2, <4>3, <4>4, <4>5
      <4> QED  BY <2>2, <4>3, <4>5 DEF Responses, Prepared
    <3> QED  BY <3>1, <3>2
  <2>6. /\ \A e \in batch' : "OUT" \in e.ev /\ e.conn = user'[e.fd] /\ e.conn \notin mixed'
             => Prepared(e.conn)'
        /\ \A v \in Worker : wk'[v].st = "processed" /\ wk'[v].ready /\ wk'[v].conn \notin mixed'
             => Prepared(wk[v].conn)'
    BY <2>2 DEF Responses, Prepared
  <2> QED  BY <2>2, <2>4, <2>5, <2>6 DEF Responses, SentMeansSentUnmixed
<1>16. ASSUME NEW w \in Worker, Pop(w) \/ BeginProcess(w) \/ WriteWakeup(w) PROVE Responses'
  <2>1. UNCHANGED <<completed, local, conn, user, interest, mixed, batch, pc, cur>>
    BY <1>16 DEF Pop, BeginProcess, WriteWakeup
  <2>2. wk'[w].st # "processed" /\ \A v \in Worker \ {w} : wk'[v] = wk[v]
    <3>1. CASE Pop(w)
      BY <3>1 DEF Pop, TypeOK
    <3>2. CASE BeginProcess(w)
      BY <3>2 DEF BeginProcess, TypeOK, WorkerState
    <3>3. CASE WriteWakeup(w)
      BY <3>3 DEF WriteWakeup, TypeOK, Idle
    <3> QED  BY <1>16, <3>1, <3>2, <3>3
  <2> QED  BY <1>1, <2>1, <2>2
<1>17. ASSUME NEW w \in Worker, PushResult(w) PROVE Responses'
  <2>1. PICK x : x = [fd |-> wk[w].fd, conn |-> wk[w].conn, ready |-> wk[w].ready]
    OBVIOUS
  <2>2. /\ completed' = Append(completed, x) /\ completed \in Seq(Result)
        /\ UNCHANGED <<local, conn, user, interest, mixed, batch, pc, cur>>
        /\ wk[w].st = "processed" /\ wk'[w].st = "pushed" /\ \A v \in Worker \ {w} : wk'[v] = wk[v]
    BY <1>17, <2>1 DEF PushResult, TypeOK, Idle
  <2>3. x.ready /\ x.conn \notin mixed => Prepared(x.conn)
    BY <2>1, <2>2 DEF Responses
  <2>4. AllPrepared(completed)'
    <3>1. \A i \in DOMAIN completed' : completed'[i] = x \/ \E j \in DOMAIN completed : completed'[i] = completed[j]
      BY <2>2
    <3> QED  BY <2>2, <2>3, <3>1 DEF Responses, AllPrepared, Prepared
  <2>5. AllPrepared(local)'
    BY <2>2 DEF Responses, AllPrepared, Prepared
  <2> QED  BY <2>2, <2>4, <2>5 DEF Responses, Prepared, SentMeansSentUnmixed
<1>18. ASSUME NEW w \in Worker, EndProcess(w) PROVE Responses'
  <2>1. PICK c \in Conn : c = wk[w].conn
    BY <1>18 DEF EndProcess, Bookkeeping, Held
  <2>2. PICK p \in Process(conn[c]) :
          /\ conn' = [conn EXCEPT ![c] = p.conn]
          /\ wk' = [wk EXCEPT ![w] = [wk[w] EXCEPT !.st = "processed", !.ready = p.ready]]
    BY <1>18, <2>1, ProcessOutcome
  <2>3. /\ UNCHANGED <<completed, local, user, interest, mixed, batch, pc, cur, processing>>
        /\ Held(w) /\ \A v \in Worker \ {w} : wk'[v] = wk[v]
        /\ wk'[w].conn = c /\ wk'[w].ready = p.ready
    <3>1. UNCHANGED <<completed, local, user, interest, mixed, batch, pc, cur, processing>>
      BY <1>18 DEF EndProcess, clientVars, kernelVars, loopVars, tableVars, history
    <3>2. Held(w)
      BY <1>18 DEF EndProcess, Held
    <3>3. wk \in [Worker -> WorkerState] /\ wk[w] \in WorkerState
      BY DEF TypeOK
    <3>4. \A v \in Worker \ {w} : wk'[v] = wk[v]
      BY <2>2, <3>3
    <3>5. wk'[w] = [wk[w] EXCEPT !.st = "processed", !.ready = p.ready]
      BY <2>2, <3>3
    <3>6. wk'[w].conn = wk[w].conn /\ wk'[w].ready = p.ready
      BY <3>3, <3>5 DEF WorkerState
    <3> QED  BY <2>1, <3>1, <3>2, <3>4, <3>6
  <2>4. conn'[c] = p.conn /\ \A d \in Conn : d # c => conn'[d] = conn[d] /\ Keeps(d)
    BY <2>2 DEF Keeps, TypeOK
  <2>5. p.ready => Prepared(c)'
    BY <2>2, <2>4, ProcessPrepared DEF Prepared, TypeOK
  <2>6. ASSUME c \notin mixed
        PROVE  /\ \A f \in Fd : user[f] = c => f \in processing
               /\ ~Has(completed, c) /\ ~Has(local, c)
               /\ \A v \in Worker : Held(v) /\ wk[v].conn = c => v = w
    <3>1. Sole(c) /\ AtWorker(c) /\ (conn[c].fd = NoFd \/ conn[c].fd \in processing)
      BY <2>1, <2>3, <2>6 DEF WorkInvariant, WorkApart, Apart, HasWork, AtWorker
    <3>2. \A f \in Fd : user[f] = c => f \in processing
      BY <3>1, <2>1 DEF TablesAgree
    <3> QED  BY <2>1, <2>3, <3>1, <3>2 DEF Sole, AtOneWorker
  <2>7. \A f \in Fd : "OUT" \in interest[f] => f \notin processing /\ user[f] \in Conn
    BY <1>0 DEF MarkedIffDeaf, TypeOK, TablesAgree
  <2>8. \A f \in Fd : "OUT" \in interest'[f] /\ user'[f] \notin mixed' => Prepared(user[f])'
    BY <2>3, <2>4, <2>6, <2>7, MasksStay
  <2>9. \A e \in batch' : "OUT" \in e.ev /\ e.conn = user'[e.fd] /\ e.conn \notin mixed'
           => Prepared(e.conn)'
    <3>1. \A e \in batch : "OUT" \in e.ev => e.fd \in Fd /\ e.conn \in Conn /\ e.fd \notin processing
      BY DEF EventsAreKnown, NoEventWhileMarked
    <3> QED  BY <2>3, <2>4, <2>6, <3>1, EventsStay
  <2>10. AllPrepared(completed)' /\ AllPrepared(local)'
    <3>1. \A d \in Conn \ mixed' : Has(completed, d) \/ Has(local, d) => Keeps(d)
      BY <2>3, <2>4, <2>6
    <3> QED  BY <2>3, <3>1, ResultsStay
  <2>11. ASSUME NEW v \in Worker, wk'[v].st = "processed", wk'[v].ready, wk'[v].conn \notin mixed'
         PROVE  Prepared(wk[v].conn)'
    <3>1. CASE v = w
      BY <2>3, <2>5, <2>11, <3>1 DEF Prepared
    <3>2. CASE v # w
      <4>1. wk'[v] = wk[v] /\ Held(v) /\ wk[v].conn \in Conn /\ Prepared(wk[v].conn)
        BY <2>3, <2>11, <3>2 DEF Held, Bookkeeping, Responses
      <4>2. wk[v].conn # c
        BY <2>3, <2>6, <2>11, <3>2, <4>1
      <4> QED  BY <2>4, <4>1, <4>2 DEF Prepared
    <3> QED  BY <3>1, <3>2
  <2>12. SentMeansSentUnmixed'
    <3>1. SUFFICES ASSUME pc = "sent", user[cur] \notin mixed PROVE conn'[user[cur]].haveSent > 0
      BY <2>3 DEF SentMeansSentUnmixed
    <3>2. cur \in Fd /\ cur \notin processing /\ user[cur] \in Conn /\ conn[user[cur]].haveSent > 0
      BY <3>1 DEF TablesAgree, Midway, Bookkeeping, TypeOK, Responses, SentMeansSentUnmixed
    <3>3. user[cur] # c
      BY <2>6, <3>1, <3>2
    <3> QED  BY <2>4, <3>2, <3>3
  <2> QED  BY <2>8, <2>9, <2>10, <2>11, <2>12 DEF Responses
<1> QED
  BY <1>2, <1>3, <1>4, <1>5, <1>6, <1>7, <1>8, <1>9, <1>10, <1>11, <1>12, <1>13, <1>14, <1>15,
     <1>16, <1>17, <1>18 DEF Next, Loop, Pool

(* handleWrite reports a response as sent only after bytes were sent, for  *)
(* every connection that no event or result of an earlier owner of its     *)
(* number reached (WebServer.cpp:230-244).                                 *)
THEOREM SentWasSent == Spec => []SentMeansSentUnmixed
<1>1. Init => EventsAreKnown /\ Responses
  BY DEF Init, EventsAreKnown, Responses, AllPrepared, SentMeansSentUnmixed, Idle
<1>2. Tables /\ WorkInvariant /\ EventsAreKnown /\ Responses /\ [Next]_vars
        => EventsAreKnown' /\ Responses'
  BY EventsStep, ResponsesStep
<1>3. Responses => SentMeansSentUnmixed
  BY DEF Responses
<1> QED  BY <1>1, <1>2, <1>3, TablesInvariant, WorkStaysApart, PTL DEF Spec

=============================================================================
