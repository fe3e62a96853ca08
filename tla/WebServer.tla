------------------------------ MODULE WebServer -------------------------------
(***************************************************************************)
(* The reactor: WebServer's event loop with the epoll instance, descriptor *)
(* table, timer and thread pool it drives.  One thread runs the loop; the  *)
(* workers run HttpConnection::process and hand results back through       *)
(* completed_results_ and an eventfd.  Clients and the kernel move freely  *)
(* in between.                                                             *)
(*                                                                         *)
(* Every mutation of a connection happens under its mtx_, so a step of the *)
(* loop that needs the object waits until no worker holds it.              *)
(***************************************************************************)
EXTENDS Connection, Sequences, FiniteSets

CONSTANTS
  Conn,      \* client connections, each made at most once
  NoConn,    \* no entry in user_, no socket behind a number
  Worker,    \* threads of the pool
  NoWorker,
  ServerFd,  \* server_fd_
  WakeupFd,  \* wakeup_fd_
  QueueCap,  \* capacity of the task queue
  Tireless,  \* clients that may go on sending as long as they are connected
  MaxSegs    \* bound: segments any other client sends, and segments of one
             \* client that wait to be read

ASSUME WebServerAssumption ==
  /\ NoConn \notin Conn
  /\ NoWorker \notin Worker
  /\ ServerFd \notin Fd \cup {WakeupFd, NoFd}
  /\ WakeupFd \notin Fd \cup {ServerFd, NoFd}
  /\ QueueCap \in Nat \ {0}
  /\ Tireless \subseteq Conn
  /\ MaxSegs \in Nat

VARIABLES
  \* clients and sockets
  peer,       \* "idle" before connect, "open", "fin", "rst", "gone" once closed here
  inb,        \* segments in the socket's receive buffer
  sent,       \* segments a client that is not tireless has sent so far
  space,      \* the socket's send buffer has room
  backlog,    \* connections accept() has not returned yet
  \* kernel
  sock,       \* connection behind each descriptor number
  interest,   \* events epoll reports for it, {} when not registered
  rdl,        \* epoll's ready list
  evfd,       \* the eventfd's counter is not zero
  \* the loop
  pc,         \* where the loop is
  batch,      \* reported events not handled yet
  cur,        \* descriptor a handler is in the middle of
  local,      \* handleWakeup's local_results
  user,       \* user_
  processing, \* processing_fds_
  timer,      \* descriptors with a node in timer_
  expired,    \* those whose time has come
  \* objects and pool
  conn,       \* the HttpConnection objects
  mtx,        \* the worker holding each object's mtx_
  tasks,      \* the pool's queue
  wk,         \* what each worker is doing
  completed,  \* completed_results_
  \* history
  mixed,      \* objects that took an event or a result meant for another
  stranded    \* clients that a failed accept() left in the backlog

clientVars == <<peer, inb, sent, space, backlog>>
kernelVars == <<sock, interest, rdl, evfd>>
loopVars   == <<pc, batch, cur, local>>
tableVars  == <<user, processing, timer, expired>>
poolVars   == <<conn, mtx, tasks, wk, completed>>
history    == <<mixed, stranded>>
vars == <<clientVars, kernelVars, loopVars, tableVars, poolVars, history>>

-----------------------------------------------------------------------------
(* Events.  "HUP" stands for EPOLLHUP, EPOLLERR and EPOLLRDHUP, which the  *)
(* loop treats alike and which every mask below lets through.              *)
kReadEvent    == {"IN", "HUP"}
kWriteEvent   == {"OUT", "HUP"}
kProcessEventReading == {"IN", "HUP"}   \* a mask that keeps EPOLLIN
kProcessEvent == {"HUP"}

Event == [fd : Fd \cup {ServerFd, WakeupFd}, ev : SUBSET {"IN", "OUT", "HUP"},
          conn : Conn \cup {NoConn}]
Task   == [fd : Fd, conn : Conn]
Result == [fd : Fd, conn : Conn, ready : BOOLEAN]
WorkerState == [st : {"idle", "popped", "processing", "processed", "pushed"},
                fd : Fd \cup {NoFd}, conn : Conn \cup {NoConn}, ready : BOOLEAN]
Idle   == [st |-> "idle", fd |-> NoFd, conn |-> NoConn, ready |-> FALSE]

(* What the kernel would report of a connection, whatever the mask.        *)
Poll(c) ==
  {e \in {"IN", "OUT", "HUP"} :
     /\ c # NoConn
     /\ \/ e = "IN"  /\ (inb[c] > 0 \/ peer[c] \in {"fin", "rst"})
        \/ e = "OUT" /\ (space[c] \/ peer[c] = "rst")
        \/ e = "HUP" /\ peer[c] \in {"fin", "rst"}}

FdsOf(c) == {f \in Fd : sock[f] = c}

(* Edge triggering: a descriptor joins the ready list when something its   *)
(* mask covers happens to its socket ...                                   *)
Edge(c, e) == rdl' = rdl \cup {f \in FdsOf(c) : e \in interest[f]}

(* ... and when EPOLL_CTL_ADD or EPOLL_CTL_MOD finds it ready already.     *)
Rearmed(c, fd, mask) ==
  IF Poll(c) \cap mask # {} THEN rdl \cup {fd} ELSE rdl

Registered(fd) == interest[fd] # {}

ModFd(fd, mask) ==
  IF Registered(fd)
  THEN /\ interest' = [interest EXCEPT ![fd] = mask]
       /\ rdl' = Rearmed(sock[fd], fd, mask)
  ELSE UNCHANGED <<interest, rdl>>
-----------------------------------------------------------------------------
Init ==
  /\ peer = [c \in Conn |-> "idle"]
  /\ inb = [c \in Conn |-> 0]
  /\ sent = [c \in Conn |-> 0]
  /\ space = [c \in Conn |-> TRUE]
  /\ backlog = {}
  /\ sock = [f \in Fd |-> NoConn]
  /\ interest = [f \in Fd |-> {}]
  /\ rdl = {}
  /\ evfd = FALSE
  /\ pc = "nexttick" /\ batch = {} /\ cur = NoFd /\ local = <<>>
  /\ user = [f \in Fd |-> NoConn]
  /\ processing = {} /\ timer = {} /\ expired = {}
  /\ conn = [c \in Conn |-> Unused]
  /\ mtx = [c \in Conn |-> NoWorker]
  /\ tasks = <<>> /\ completed = <<>>
  /\ wk = [w \in Worker |-> Idle]
  /\ mixed = {} /\ stranded = {}

-----------------------------------------------------------------------------
(* The clients and the clock.                                              *)

Connect(c) ==
  /\ peer[c] = "idle"
  /\ peer' = [peer EXCEPT ![c] = "open"]
  /\ backlog' = backlog \cup {c}
  /\ rdl' = rdl \cup {ServerFd}
  /\ stranded' = {}
  /\ UNCHANGED <<inb, sent, space, sock, interest, evfd, loopVars, tableVars, poolVars, mixed>>

SendSegment(c) ==
  /\ peer[c] = "open" /\ inb[c] < MaxSegs
  /\ c \in Tireless \/ sent[c] < MaxSegs
  /\ sent' = IF c \in Tireless THEN sent ELSE [sent EXCEPT ![c] = @ + 1]
  /\ inb' = [inb EXCEPT ![c] = @ + 1]
  /\ Edge(c, "IN")
  /\ UNCHANGED <<peer, space, backlog, sock, interest, evfd, loopVars, tableVars, poolVars, history>>

(* The client shuts down its sending side or closes ("fin"), or resets.    *)
HangUp(c, how) ==
  /\ peer[c] \in {"open", "fin"} /\ peer[c] # how
  /\ peer' = [peer EXCEPT ![c] = how]
  /\ Edge(c, "HUP")
  /\ UNCHANGED <<inb, sent, space, backlog, sock, interest, evfd, loopVars, tableVars, poolVars, history>>

(* The client reads, and the send buffer has room again.                   *)
Drain(c) ==
  /\ ~space[c] /\ peer[c] \in {"open", "fin"}
  /\ space' = [space EXCEPT ![c] = TRUE]
  /\ Edge(c, "OUT")
  /\ UNCHANGED <<peer, inb, sent, backlog, sock, interest, evfd, loopVars, tableVars, poolVars, history>>

Expire(fd) ==
  /\ fd \in timer \ expired
  /\ expired' = expired \cup {fd}
  /\ UNCHANGED <<clientVars, kernelVars, loopVars, user, processing, timer, poolVars, history>>

-----------------------------------------------------------------------------
(* closeConn(fd).  The object closes the descriptor it holds; a number     *)
(* with no entry in user_ is closed as it is.  A later ::close of a number *)
(* that is free again does nothing here.                                   *)
Unlocked(c) == c # NoConn => mtx[c] = NoWorker

StillArmed(fd) == timer               \* timer_.remove() forgotten
Disarmed(fd) == timer \ {fd}

Unmarked(fd) == processing \ {fd}

ClosedNumber(fd) == IF user[fd] = NoConn THEN fd ELSE conn[user[fd]].fd

CloseConn(fd) ==
  LET n == ClosedNumber(fd)
      c == user[fd]
      s == IF n \in Fd THEN sock[n] ELSE NoConn
  IN /\ Unlocked(c)
     /\ interest' = [interest EXCEPT ![fd] = {}]
     /\ rdl' = rdl \ {fd}
     /\ processing' = Unmarked(fd)
     /\ conn' = [k \in Conn |-> IF k = c THEN Released(conn[k]) ELSE conn[k]]
     /\ sock' = [f \in Fd |-> IF f = n THEN NoConn ELSE sock[f]]
     /\ peer' = [k \in Conn |-> IF k = s THEN "gone" ELSE peer[k]]
     /\ inb' = [k \in Conn |-> IF k = s THEN 0 ELSE inb[k]]
     /\ user' = [user EXCEPT ![fd] = NoConn]
     /\ timer' = Disarmed(fd)
     /\ expired' = expired \ {fd}
     /\ UNCHANGED <<sent, space, backlog, evfd, mtx, tasks, wk, completed>>

-----------------------------------------------------------------------------
(* eventLoop: getNextTick() runs tick(), then epoll_wait, then tick()      *)
(* again, then the reported events one by one.                             *)

(* tick(): doWork's callback is closeConn, which also drops the node.      *)
CloseExpired(fd) ==
  /\ pc \in {"nexttick", "tick"} /\ fd \in expired
  /\ CloseConn(fd)
  /\ UNCHANGED <<loopVars, history>>

TickDone ==
  /\ pc \in {"nexttick", "tick"} /\ expired = {}
  /\ pc' = IF pc = "nexttick" THEN "wait" ELSE "dispatch"
  /\ UNCHANGED <<clientVars, kernelVars, batch, cur, local, tableVars, poolVars, history>>

Reported ==
  {e \in {[fd |-> f, ev |-> Poll(sock[f]) \cap interest[f], conn |-> sock[f]] :
            f \in rdl \cap Fd} : e.ev # {}}
  \cup {[fd |-> ServerFd, ev |-> {"IN"}, conn |-> NoConn] :
          x \in {y \in {ServerFd} : y \in rdl /\ backlog # {}}}
  \cup {[fd |-> WakeupFd, ev |-> {"IN"}, conn |-> NoConn] :
          x \in {y \in {WakeupFd} : y \in rdl /\ evfd}}

(* Returns when something is ready, or when the first node expires.        *)
EpollWait ==
  /\ pc = "wait"
  /\ Reported # {} \/ expired # {}
  /\ batch' = Reported
  /\ rdl' = {}
  /\ pc' = "tick"
  /\ UNCHANGED <<clientVars, sock, interest, evfd, cur, local, tableVars, poolVars, history>>

(* An event is one the loop must still look at, for a descriptor that has  *)
(* an entry in user_.                                                      *)
Taken(e) ==
  /\ pc = "dispatch" /\ e \in batch
  /\ batch' = batch \ {e}

Mix(fd, c) == mixed' = IF user[fd] = c THEN mixed ELSE mixed \cup {user[fd]}

SkipEvent(e) ==
  /\ Taken(e) /\ e.fd \in Fd /\ user[e.fd] = NoConn
  /\ UNCHANGED <<clientVars, kernelVars, pc, cur, local, tableVars, poolVars, history>>

CloseOnHangUp(e) ==
  /\ Taken(e) /\ e.fd \in Fd /\ user[e.fd] # NoConn /\ "HUP" \in e.ev
  /\ CloseConn(e.fd)
  /\ Mix(e.fd, e.conn)
  /\ UNCHANGED <<pc, cur, local, stranded>>

DispatchDone ==
  /\ pc = "dispatch" /\ batch = {}
  /\ pc' = "nexttick"
  /\ UNCHANGED <<clientVars, kernelVars, batch, cur, local, tableVars, poolVars, history>>

-----------------------------------------------------------------------------
(* handleListen: accept until the backlog is empty.                        *)

HandleListen(e) ==
  /\ Taken(e) /\ e.fd = ServerFd
  /\ pc' = "accept"
  /\ UNCHANGED <<clientVars, kernelVars, cur, local, tableVars, poolVars, history>>

OneAccepted == "dispatch"     \* no loop: one accept per event
MoreToAccept == "accept"      \* while (true)

NotArmed(fd) == timer         \* timer_.add() forgotten
Armed(fd) == timer \cup {fd}

AcceptOne(c, fd) ==
  /\ pc = "accept" /\ c \in backlog /\ sock[fd] = NoConn
  /\ backlog' = backlog \ {c}
  /\ sock' = [sock EXCEPT ![fd] = c]
  /\ conn' = [conn EXCEPT ![c] = Opened(fd)]
  /\ user' = [user EXCEPT ![fd] = c]
  /\ interest' = [interest EXCEPT ![fd] = kReadEvent]
  /\ rdl' = Rearmed(c, fd, kReadEvent)
  /\ timer' = Armed(fd)
  /\ pc' = MoreToAccept
  /\ stranded' = stranded \ {c}
  /\ UNCHANGED <<peer, inb, sent, space, evfd, batch, cur, local, processing, expired,
                 mtx, tasks, wk, completed, mixed>>

(* addfd fails: the number is closed, and the entry erased, which closes   *)
(* it a second time from the object's destructor.                          *)
AcceptNotAdded(c, fd) ==
  /\ pc = "accept" /\ c \in backlog /\ sock[fd] = NoConn
  /\ backlog' = backlog \ {c}
  /\ peer' = [peer EXCEPT ![c] = "gone"]
  /\ inb' = [inb EXCEPT ![c] = 0]
  /\ stranded' = stranded \ {c}
  /\ UNCHANGED <<sent, space, kernelVars, loopVars, tableVars, poolVars, mixed>>

(* accept() fails, for want of descriptors or with another errno that      *)
(* handleListen does not look for, and handleListen returns at once.       *)
AcceptFails ==
  /\ pc = "accept" /\ backlog # {}
  /\ pc' = "dispatch"
  /\ stranded' = backlog
  /\ UNCHANGED <<clientVars, kernelVars, batch, cur, local, tableVars, poolVars, mixed>>

AcceptDone ==
  /\ pc = "accept" /\ backlog = {}
  /\ pc' = "dispatch"
  /\ UNCHANGED <<clientVars, kernelVars, batch, cur, local, tableVars, poolVars, history>>

-----------------------------------------------------------------------------
(* handleRead: read all there is, mark the descriptor, stop listening for  *)
(* input, hand the connection to the pool.                                 *)
HandleRead(e) ==
  LET fd == e.fd
      c  == user[fd]
  IN /\ Taken(e) /\ fd \in Fd /\ c # NoConn /\ "HUP" \notin e.ev /\ "IN" \in e.ev
     /\ Unlocked(c)
     /\ conn' = [conn EXCEPT ![c] = AfterRead(@, inb[c])]
     /\ inb' = [inb EXCEPT ![c] = conn[c].got + @ - AfterRead(conn[c], @).got]
     /\ CASE ReadResult(conn[c], inb[c], peer[c]) # "DONE" ->
               pc' = "close" /\ cur' = fd /\ UNCHANGED <<interest, rdl, processing>>
          [] ReadResult(conn[c], inb[c], peer[c]) = "DONE" /\ fd \in processing ->
               UNCHANGED <<pc, cur, interest, rdl, processing>>
          [] OTHER ->
               /\ cur' = fd
               /\ ModFd(fd, kProcessEvent)
               /\ processing' = IF Registered(fd) THEN processing \cup {fd}
                                                  ELSE processing \ {fd}
               /\ pc' = IF Registered(fd) THEN "enqueue" ELSE "close"
     /\ Mix(fd, e.conn)
     /\ UNCHANGED <<peer, sent, space, backlog, sock, evfd, local, user, timer, expired,
                    mtx, tasks, wk, completed, stranded>>

(* A queue that refuses when full, its answer ignored.                     *)
EnqueueOrDrop ==
  /\ pc = "enqueue"
  /\ tasks' = IF Len(tasks) < QueueCap THEN Append(tasks, [fd |-> cur, conn |-> user[cur]])
                                       ELSE tasks
  /\ pc' = "dispatch" /\ cur' = NoFd
  /\ UNCHANGED <<clientVars, kernelVars, batch, local, tableVars, conn, mtx, wk,
                 completed, history>>

(* push blocks the loop while the queue is full.                           *)
Enqueue ==
  /\ pc = "enqueue" /\ Len(tasks) < QueueCap
  /\ tasks' = Append(tasks, [fd |-> cur, conn |-> user[cur]])
  /\ pc' = "dispatch" /\ cur' = NoFd
  /\ UNCHANGED <<clientVars, kernelVars, batch, local, tableVars, conn, mtx, wk,
                 completed, history>>

(* closeConn at the end of a handler that failed, or whose response is     *)
(* sent and not to be followed by another.                                 *)
CloseCurrent ==
  /\ pc \in {"close", "closeresult"}
  /\ CloseConn(cur)
  /\ pc' = IF pc = "close" THEN "dispatch" ELSE "results"
  /\ cur' = NoFd
  /\ UNCHANGED <<batch, local, history>>

-----------------------------------------------------------------------------
(* handleWrite.  write(), isKeepAlive() and reset() or closeConn() each    *)
(* take the object's mutex or none, so a worker may come in between.       *)
HandleWrite(e) ==
  LET fd == e.fd
      c  == user[fd]
  IN /\ Taken(e) /\ fd \in Fd /\ c # NoConn /\ e.ev = {"OUT"}
     /\ Unlocked(c)
     /\ \E w \in Write(conn[c], space[c], peer[c]) :
          /\ conn' = [conn EXCEPT ![c] = w.conn]
          /\ space' = [space EXCEPT ![c] = w.room]
          /\ pc' = CASE w.res = "DONE" -> "sent" [] w.res = "ERROR" -> "close"
                     [] OTHER -> "dispatch"
          /\ cur' = IF w.res = "AGAIN" THEN NoFd ELSE fd
     /\ Mix(fd, e.conn)
     /\ UNCHANGED <<peer, inb, sent, backlog, kernelVars, local, tableVars,
                    mtx, tasks, wk, completed, stranded>>

(* isKeepAlive() takes no lock: while a worker is inside process() on the  *)
(* same object the value it sees can be either.                            *)
CheckKeepAlive ==
  LET c == user[cur] IN
  /\ pc = "sent"
  /\ \E k \in IF mtx[c] = NoWorker THEN {conn[c].keepAlive} ELSE BOOLEAN :
       pc' = IF k THEN "reset" ELSE "close"
  /\ UNCHANGED <<clientVars, kernelVars, batch, cur, local, tableVars, poolVars, history>>

ResetAndRead ==
  LET c == user[cur] IN
  /\ pc = "reset" /\ Unlocked(c)
  /\ conn' = [conn EXCEPT ![c] = Rewound(@)]
  /\ ModFd(cur, kReadEvent)
  /\ pc' = IF Registered(cur) THEN "dispatch" ELSE "close"
  /\ cur' = IF Registered(cur) THEN NoFd ELSE cur
  /\ UNCHANGED <<clientVars, sock, evfd, batch, local, tableVars,
                 mtx, tasks, wk, completed, history>>

-----------------------------------------------------------------------------
(* handleWakeup: empty the eventfd, take the results, apply them in order. *)

DrainWakeup(e) ==
  /\ Taken(e) /\ e.fd = WakeupFd
  /\ evfd' = FALSE
  /\ pc' = "drained"
  /\ UNCHANGED <<clientVars, sock, interest, rdl, cur, local, tableVars, poolVars, history>>

(* A swap that copies.                                                     *)
CopyResults ==
  /\ pc = "drained"
  /\ local' = completed
  /\ pc' = "results"
  /\ UNCHANGED <<clientVars, kernelVars, batch, cur, tableVars, poolVars, history>>

SwapResults ==
  /\ pc = "drained"
  /\ local' = completed /\ completed' = <<>>
  /\ pc' = "results"
  /\ UNCHANGED <<clientVars, kernelVars, batch, cur, tableVars,
                 conn, mtx, tasks, wk, history>>

ApplyResult ==
  LET r  == Head(local)
      ok == user[r.fd] # NoConn /\ Registered(r.fd)
  IN /\ pc = "results" /\ local # <<>>
     /\ local' = Tail(local)
     /\ processing' = Unmarked(r.fd)
     /\ IF user[r.fd] # NoConn
        THEN /\ ModFd(r.fd, IF r.ready THEN kWriteEvent ELSE kReadEvent)
             /\ Mix(r.fd, r.conn)
        ELSE UNCHANGED <<interest, rdl, mixed>>
     /\ expired' = IF ok THEN expired \ {r.fd} ELSE expired
     /\ pc' = IF user[r.fd] # NoConn /\ ~ok THEN "closeresult" ELSE "results"
     /\ cur' = IF user[r.fd] # NoConn /\ ~ok THEN r.fd ELSE NoFd
     /\ UNCHANGED <<clientVars, sock, evfd, batch, user, timer, poolVars, stranded>>

(* A handleWakeup that empties the eventfd last.                           *)
ResultsDoneDraining ==
  /\ pc = "results" /\ local = <<>>
  /\ evfd' = FALSE
  /\ pc' = "dispatch"
  /\ UNCHANGED <<clientVars, sock, interest, rdl, batch, cur, local, tableVars, poolVars, history>>

ResultsDone ==
  /\ pc = "results" /\ local = <<>>
  /\ pc' = "dispatch"
  /\ UNCHANGED <<clientVars, kernelVars, batch, cur, local, tableVars, poolVars, history>>

-----------------------------------------------------------------------------
(* A worker: pop a task, process() under the object's mutex, push the      *)
(* result under completed_mtx_, then write to the eventfd.                 *)

(* A pop that leaves the item at the front of the queue.                   *)
PopKeepingFront(w) ==
  /\ wk[w].st = "idle" /\ tasks # <<>>
  /\ wk' = [wk EXCEPT ![w] = [st |-> "popped", fd |-> Head(tasks).fd,
                              conn |-> Head(tasks).conn, ready |-> FALSE]]
  /\ tasks' = IF Len(tasks) > 1 THEN Tail(tasks) ELSE tasks
  /\ UNCHANGED <<clientVars, kernelVars, loopVars, tableVars, conn, mtx, completed, history>>

Pop(w) ==
  /\ wk[w].st = "idle" /\ tasks # <<>>
  /\ wk' = [wk EXCEPT ![w] = [st |-> "popped", fd |-> Head(tasks).fd,
                              conn |-> Head(tasks).conn, ready |-> FALSE]]
  /\ tasks' = Tail(tasks)
  /\ UNCHANGED <<clientVars, kernelVars, loopVars, tableVars, conn, mtx, completed, history>>

BeginProcess(w) ==
  /\ wk[w].st = "popped" /\ mtx[wk[w].conn] = NoWorker
  /\ mtx' = [mtx EXCEPT ![wk[w].conn] = w]
  /\ wk' = [wk EXCEPT ![w].st = "processing"]
  /\ UNCHANGED <<clientVars, kernelVars, loopVars, tableVars, conn, tasks, completed, history>>

StillLocked(w, ready) ==      \* a path of process() that returns without unlocking
  [mtx EXCEPT ![wk[w].conn] = IF ready THEN NoWorker ELSE w]
Unlock(w, ready) == [mtx EXCEPT ![wk[w].conn] = NoWorker]

EndProcess(w) ==
  /\ wk[w].st = "processing"
  /\ \E p \in Process(conn[wk[w].conn]) :
       /\ conn' = [conn EXCEPT ![wk[w].conn] = p.conn]
       /\ wk' = [wk EXCEPT ![w].st = "processed", ![w].ready = p.ready]
       /\ mtx' = Unlock(w, p.ready)
  /\ UNCHANGED <<clientVars, kernelVars, loopVars, tableVars, tasks, completed, history>>

PushResult(w) ==
  /\ wk[w].st = "processed"
  /\ completed' = Append(completed, [fd |-> wk[w].fd, conn |-> wk[w].conn, ready |-> wk[w].ready])
  /\ wk' = [wk EXCEPT ![w] = [Idle EXCEPT !.st = "pushed"]]
  /\ UNCHANGED <<clientVars, kernelVars, loopVars, tableVars, conn, mtx, tasks, history>>

WriteWakeup(w) ==
  /\ wk[w].st = "pushed"
  /\ wk' = [wk EXCEPT ![w] = Idle]
  /\ evfd' = TRUE
  /\ rdl' = rdl \cup {WakeupFd}
  /\ UNCHANGED <<clientVars, sock, interest, loopVars, tableVars, conn, mtx, tasks,
                 completed, history>>

-----------------------------------------------------------------------------
Client ==
  \/ \E c \in Conn : \/ Connect(c) \/ SendSegment(c) \/ Drain(c)
                     \/ \E how \in {"fin", "rst"} : HangUp(c, how)
  \/ \E fd \in Fd : Expire(fd)

Loop ==
  \/ \E fd \in Fd : CloseExpired(fd)
  \/ TickDone \/ EpollWait \/ DispatchDone
  \/ \E e \in batch : \/ SkipEvent(e) \/ CloseOnHangUp(e) \/ HandleListen(e)
                      \/ HandleRead(e) \/ HandleWrite(e) \/ DrainWakeup(e)
  \/ \E c \in Conn, fd \in Fd : AcceptOne(c, fd) \/ AcceptNotAdded(c, fd)
  \/ AcceptFails \/ AcceptDone
  \/ Enqueue \/ CloseCurrent \/ CheckKeepAlive \/ ResetAndRead
  \/ SwapResults \/ ApplyResult \/ ResultsDone

Pool == \E w \in Worker : \/ Pop(w) \/ BeginProcess(w) \/ EndProcess(w)
                         \/ PushResult(w) \/ WriteWakeup(w)

Next == Client \/ Loop \/ Pool

Spec == Init /\ [][Next]_vars

(* The loop and the workers are threads that keep running; a worker gets   *)
(* its mutex in the end because no holder keeps it; time passes, and a     *)
(* timer runs out that is not started anew again and again.                *)
Restart(fd) == ApplyResult /\ Head(local).fd = fd

Fairness ==
  /\ WF_vars(Loop)
  /\ \A w \in Worker : WF_vars(\/ Pop(w) \/ BeginProcess(w) \/ EndProcess(w)
                                \/ PushResult(w) \/ WriteWakeup(w))
  /\ \A fd \in Fd : WF_vars(Expire(fd) \/ Restart(fd))

FairSpec == Spec /\ Fairness

-----------------------------------------------------------------------------
PCs == {"nexttick", "wait", "tick", "dispatch", "accept", "enqueue", "sent", "reset",
        "close", "closeresult", "drained", "results"}

(* Every variable has its type; handlers in progress have a descriptor.    *)
TypeOK ==
  /\ peer \in [Conn -> {"idle", "open", "fin", "rst", "gone"}]
  /\ inb \in [Conn -> Nat] /\ sent \in [Conn -> Nat]
  /\ space \in [Conn -> BOOLEAN] /\ backlog \in SUBSET Conn
  /\ sock \in [Fd -> Conn \cup {NoConn}]
  /\ interest \in [Fd -> SUBSET {"IN", "OUT", "HUP"}]
  /\ rdl \in SUBSET (Fd \cup {ServerFd, WakeupFd})
  /\ evfd \in BOOLEAN
  /\ pc \in PCs /\ batch \in SUBSET Event
  /\ cur \in Fd \cup {NoFd} /\ local \in Seq(Result)
  /\ user \in [Fd -> Conn \cup {NoConn}]
  /\ processing \in SUBSET Fd /\ timer \in SUBSET Fd /\ expired \in SUBSET Fd
  /\ conn \in [Conn -> ConnObject]
  /\ mtx \in [Conn -> Worker \cup {NoWorker}]
  /\ tasks \in Seq(Task) /\ completed \in Seq(Result)
  /\ wk \in [Worker -> WorkerState]
  /\ mixed \in SUBSET Conn /\ stranded \in SUBSET Conn

Midway == {"enqueue", "sent", "reset", "close", "closeresult"}

(* One work item per handleRead that marked its descriptor: waiting to be  *)
(* queued, queued, with a worker, or a result not applied yet.             *)
Held(w) == wk[w].st \in {"popped", "processing", "processed"}

Unparsed(f, c) ==
  \/ pc = "enqueue" /\ cur = f /\ user[f] = c
  \/ \E i \in DOMAIN tasks : tasks[i].fd = f /\ tasks[i].conn = c
  \/ \E w \in Worker : wk[w].st \in {"popped", "processing"} /\ wk[w].fd = f /\ wk[w].conn = c

InFlight(f, c) ==
  \/ Unparsed(f, c)
  \/ \E w \in Worker : wk[w].st = "processed" /\ wk[w].fd = f /\ wk[w].conn = c
  \/ \E i \in DOMAIN completed : completed[i].fd = f /\ completed[i].conn = c
  \/ \E i \in DOMAIN local : local[i].fd = f /\ local[i].conn = c

WorkItems(c) ==
  (IF pc = "enqueue" /\ user[cur] = c THEN 1 ELSE 0)
  + Cardinality({i \in DOMAIN tasks : tasks[i].conn = c})
  + Cardinality({w \in Worker : Held(w) /\ wk[w].conn = c})
  + Cardinality({i \in DOMAIN completed : completed[i].conn = c})
  + Cardinality({i \in DOMAIN local : local[i].conn = c})

-----------------------------------------------------------------------------
(* user_, the descriptor table, epoll's registrations and timer_ always    *)
(* agree: an open socket has an entry, is watched and will time out, and   *)
(* nothing is kept for a number that is closed.                            *)
TablesAgree ==
  /\ \A f \in Fd :
       /\ user[f] = sock[f]
       /\ user[f] # NoConn => conn[user[f]].fd = f
       /\ f \in timer <=> user[f] # NoConn
       /\ interest[f] # {} <=> user[f] # NoConn
  /\ \A c \in Conn : conn[c].fd # NoFd => user[conn[c].fd] = c
  /\ expired \subseteq timer
  /\ pc \in Midway => cur \in Fd /\ user[cur] # NoConn

(* processing_fds_ and the epoll masks say the same: a descriptor is       *)
(* marked exactly while it is deaf to input and output.                    *)
MarkedIffDeaf == processing = {f \in Fd : interest[f] = kProcessEvent}

(* A marked descriptor has work in flight for the very connection behind   *)
(* it, so some result will unmark it: no connection stays deaf for good.   *)
MarkedHasWork == \A f \in processing : InFlight(f, user[f])

(* An input or output event never reaches a marked descriptor, even from   *)
(* a batch collected before it was marked or for an earlier owner.         *)
NoEventWhileMarked ==
  \A e \in batch : e.ev \cap {"IN", "OUT"} # {} => e.fd \notin processing

(* A result in completed_results_ always has a wakeup on its way to the    *)
(* loop, although the eventfd is edge triggered and drained before the     *)
(* queue is taken.                                                         *)
NoLostWakeup ==
  /\ completed # <<>> =>
       evfd \/ pc = "drained" \/ \E w \in Worker : wk[w].st = "pushed"
  /\ evfd => WakeupFd \in rdl \/ \E e \in batch : e.fd = WakeupFd

(* Edge triggering loses nothing: whatever a descriptor's mask asks for    *)
(* and its socket has is on the ready list, in the batch, or the business  *)
(* of the handler in progress; and so is a connection that waits to be     *)
(* accepted, unless a failed accept() left it there.                       *)
NoLostEdge ==
  /\ \A f \in Fd \ {cur} : \A k \in Poll(sock[f]) \cap interest[f] :
       f \in rdl \/ \E e \in batch : e.fd = f /\ k \in e.ev
  /\ backlog \ stranded # {} =>
       \/ ServerFd \in rdl \/ pc = "accept"
       \/ \E e \in batch : e.fd = ServerFd

(* Input that has been read is parsed: whatever an open connection has     *)
(* buffered since its last parse has a work item that will show it to the  *)
(* parser, or is about to be discarded by a close.                         *)
ReadIsParsed ==
  \A f \in Fd : user[f] # NoConn /\ conn[user[f]].got # conn[user[f]].seen
    => Unparsed(f, user[f]) \/ (pc = "close" /\ cur = f)

(* What the others rest on: a client not accepted yet owns no object's     *)
(* descriptor, a worker's task names one, a batch holds one event per      *)
(* descriptor and is used up before the next, results are taken out only   *)
(* to be applied, and the handler that sends does so on an unmarked        *)
(* descriptor.                                                             *)
Bookkeeping ==
  /\ \A c \in Conn : peer[c] = "idle" => c \notin backlog
  /\ \A c \in Conn : peer[c] = "idle" \/ c \in backlog => conn[c].fd = NoFd
  /\ \A w \in Worker : Held(w) => wk[w].fd \in Fd /\ wk[w].conn \in Conn
  /\ \A e1, e2 \in batch : e1.fd = e2.fd => e1 = e2
  /\ pc \in {"nexttick", "wait"} => batch = {}
  /\ local # <<>> => pc \in {"results", "closeresult"}
  /\ pc \in {"sent", "reset"} => cur \notin processing

(* As long as no event or result of an earlier owner of its number reached *)
(* it, a connection has at most one work item.                             *)
SoleWorkItem == \A c \in Conn \ mixed : WorkItems(c) <= 1

(* The loop does not read from, write to or rewind such a connection while *)
(* its work item may still touch the buffers (WebServer.cpp:201-211).      *)
LoopKeepsOff ==
  \A f \in Fd : user[f] # NoConn /\ user[f] \notin mixed /\ InFlight(f, user[f])
    => interest[f] = kProcessEvent /\ ~(pc \in {"sent", "reset"} /\ cur = f)

(* handleWrite reports a response as sent only when bytes were sent.       *)
SentMeansSent == pc = "sent" => conn[user[cur]].haveSent > 0

(* SentMeansSent of the connections that no event or result of an earlier  *)
(* owner of their number reached (WebServer.cpp:230-244).                  *)
SentMeansSentUnmixed == pc = "sent" /\ user[cur] \notin mixed => conn[user[cur]].haveSent > 0

-----------------------------------------------------------------------------
(* The loop always gets back to epoll_wait: neither a full task queue nor  *)
(* an object a worker holds blocks it for good.                            *)
LoopReturns == pc # "wait" ~> pc = "wait"

(* A connection whose client falls silent is closed, whatever was sent     *)
(* before, whether or not its response is read or anything hangs up.  A    *)
(* client that goes on sending starts the timer anew with each result, and *)
(* may stay for good.                                                      *)
ConnectionsEnd ==
  \A c \in Conn :
    \/ []<><<SendSegment(c)>>_vars
    \/ conn[c].fd # NoFd ~> conn[c].fd = NoFd

(* A client that connects is accepted, unless an accept() that fails       *)
(* leaves it in the backlog; the next client to connect brings the loop    *)
(* back to it.                                                             *)
BacklogServed == \A c \in Conn : c \in backlog ~> c \notin backlog \/ c \in stranded
=============================================================================
