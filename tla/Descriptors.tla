------------------------------ MODULE Descriptors ------------------------------
(***************************************************************************)
(* The descriptor table of the process, call by call, from the constructor *)
(* of WebServer to the end of its destructor: the loop accepts and closes  *)
(* clients, workers open files, and HttpConnection objects close what they *)
(* still own when the last reference to them goes: the one in user_, those *)
(* of queued tasks, and the one in the variable that every worker keeps    *)
(* its last task in.                                                       *)
(*                                                                         *)
(* close() takes a number and closes whatever it stands for.  stray counts *)
(* what was closed by somebody else than its owner.  Sockets of the        *)
(* database and the log file are left out, and what epoll reports is any   *)
(* order of events.                                                        *)
(***************************************************************************)
EXTENDS Integers, Sequences, FiniteSetsExt

CONSTANTS
  MaxFd,     \* numbers 1..MaxFd are free when the server starts
  Client,    \* bound: HttpConnection objects at a time
  Worker,    \* threads of the pool
  MaxTasks,  \* places in the queue of the pool
  Nobody     \* no client, no object

ASSUME DescriptorsAssumption ==
  MaxFd \in Nat /\ MaxTasks \in Nat \ {0} /\ Nobody \notin Client

VARIABLES
  pc,         \* where the main thread is
  table,      \* number -> what it stands for
  own,        \* epoll_fd_, server_fd_ and wakeup_fd_; 0 for -1
  cur,        \* client_fd in handleListen
  fd,         \* client -> fd_ of its HttpConnection; 0 for -1
  user,       \* user_: number -> client
  marked,     \* processing_fds_
  completed,  \* the numbers in completed_results_
  tasks,      \* the queue of the pool: tasks as clients and numbers
  closed,     \* ... and closed_
  worker,     \* worker -> place, task, descriptor of its open file
  stray,      \* history: what was closed by another than its owner
  reopened    \* history: see OpenFile

connVars == <<fd, user, marked, completed, tasks, closed, worker>>
vars == <<pc, table, own, cur, connVars, stray, reopened>>

Number == 1..MaxFd
Free == [is |-> "free"]
Kernel(what) == [is |-> what]
Socket(c) == [is |-> "client", of |-> c]
File(w) == [is |-> "file", of |-> w]
NoTask == [conn |-> Nobody, number |-> 0]

Init ==
  /\ pc = "construct"
  /\ table = [n \in Number |-> Free]
  /\ own = [epoll |-> 0, server |-> 0, wakeup |-> 0]
  /\ cur = 0
  /\ fd = [c \in Client |-> 0]
  /\ user = [n \in Number |-> Nobody]
  /\ marked = {} /\ completed = {} /\ tasks = <<>> /\ closed = FALSE
  /\ worker = [w \in Worker |-> [at |-> "idle", task |-> NoTask, file |-> 0]]
  /\ stray = {} /\ reopened = FALSE

-----------------------------------------------------------------------------
(* Calls on the table.  A new descriptor gets the lowest free number.      *)
FreeNumbers == {n \in Number : table[n] = Free}
Opens(what) ==
  /\ FreeNumbers # {}
  /\ table' = [table EXCEPT ![Min(FreeNumbers)] = what]

CloseCall(n, owner) ==
  /\ table' = IF n \in Number THEN [table EXCEPT ![n] = Free] ELSE table
  /\ stray' = IF n \in Number /\ table[n] \notin {Free, owner} THEN stray \cup {table[n]} ELSE stray

NoCall == UNCHANGED <<table, stray>>

(* Who keeps the object of a client alive.                                 *)
HeldByTask(c) ==
  \/ \E i \in 1..Len(tasks) : tasks[i].conn = c
  \/ \E w \in Worker : worker[w].task.conn = c
Held(c) == HeldByTask(c) \/ \E n \in Number : user[n] = c

(* ... and who does after the step.                                        *)
HeldNext(c) ==
  \/ \E i \in 1..Len(tasks') : tasks'[i].conn = c
  \/ \E w \in Worker : worker'[w].task.conn = c
  \/ \E n \in Number : user'[n] = c

(* A reference to the object of c is dropped; the last one destroys it.    *)
Dropped(c) ==
  IF c # Nobody /\ ~HeldNext(c) /\ fd[c] # 0
  THEN CloseCall(fd[c], Socket(c)) /\ fd' = [fd EXCEPT ![c] = 0]
  ELSE NoCall /\ UNCHANGED fd

(* A worker is inside process(), with the object's mutex.                  *)
Inside(w) == worker[w].at \in {"process", "file"}
LockFree(c) == \A w \in Worker : Inside(w) => worker[w].task.conn # c

-----------------------------------------------------------------------------
(* The constructor: epoll_create1 may fail, and nobody asks.               *)
Construct ==
  /\ pc = "construct" /\ pc' = "eventfd"
  /\ \/ Opens(Kernel("epoll")) /\ own' = [own EXCEPT !.epoll = Min(FreeNumbers)]
     \/ UNCHANGED <<table, own>>
  /\ UNCHANGED <<cur, connVars, stray, reopened>>

(* initListenSocket().                                                     *)
CreateWakeup ==
  /\ pc = "eventfd"
  /\ \/ /\ Opens(Kernel("wakeup")) /\ own' = [own EXCEPT !.wakeup = Min(FreeNumbers)]
        /\ pc' = "addwakeup"
     \/ UNCHANGED <<table, own>> /\ pc' = "destroy"
  /\ UNCHANGED <<cur, connVars, stray, reopened>>

AddWakeup ==
  /\ pc = "addwakeup"
  /\ \/ own.epoll # 0 /\ pc' = "socket" /\ NoCall /\ UNCHANGED own
     \/ /\ CloseCall(own.wakeup, Kernel("wakeup")) /\ own' = [own EXCEPT !.wakeup = 0]
        /\ pc' = "destroy"
  /\ UNCHANGED <<cur, connVars, reopened>>

CreateSocket ==
  /\ pc = "socket"
  /\ \/ /\ Opens(Kernel("server")) /\ own' = [own EXCEPT !.server = Min(FreeNumbers)]
        /\ pc' = "listen"
     \/ UNCHANGED <<table, own>> /\ pc' = "destroy"
  /\ UNCHANGED <<cur, connVars, stray, reopened>>

(* setsockopt, bind, listen and addfd: whichever fails closes the socket.  *)
ListenLeaves == NoCall /\ own' = [own EXCEPT !.server = 0]   \* not closed
ListenFails ==
  /\ CloseCall(own.server, Kernel("server"))
  /\ own' = [own EXCEPT !.server = 0]

Listen ==
  /\ pc = "listen"
  /\ \/ pc' = "loop" /\ NoCall /\ UNCHANGED own
     \/ ListenFails /\ pc' = "destroy"
  /\ UNCHANGED <<cur, connVars, reopened>>

-----------------------------------------------------------------------------
(* handleListen: accept, init and user_[client_fd] = conn, which drops an  *)
(* object that user_ has under this number.                                *)
Accept(c) ==
  LET n == Min(FreeNumbers)
      old == user[n]
      accepted == [table EXCEPT ![n] = Socket(c)]
      destroyed == old # Nobody /\ ~HeldByTask(old) /\ fd[old] # 0
  IN  /\ pc = "loop" /\ FreeNumbers # {} /\ ~Held(c)
      /\ user' = [user EXCEPT ![n] = c]
      /\ table' = IF destroyed THEN [accepted EXCEPT ![fd[old]] = Free] ELSE accepted
      /\ stray' = IF destroyed /\ accepted[fd[old]] \notin {Free, Socket(old)}
                  THEN stray \cup {accepted[fd[old]]} ELSE stray
      /\ fd' = [d \in Client |-> IF d = c THEN n ELSE IF d = old /\ destroyed THEN 0 ELSE fd[d]]
      /\ cur' = n /\ pc' = "addfd"
      /\ UNCHANGED <<own, marked, completed, tasks, closed, worker, reopened>>

(* epoll takes sockets; it refuses a number that is free or a file.        *)
AddFd ==
  /\ pc = "addfd" /\ table[cur].is = "client"
  /\ pc' = "loop"
  /\ UNCHANGED <<table, own, cur, connVars, stray, reopened>>

(* addfd failed: close(client_fd), and then erase, whose destructor closes *)
(* the number again.                                                       *)
AddFdFails ==
  /\ pc = "addfd"
  /\ CloseCall(cur, Socket(user[cur]))
  /\ pc' = "erase"
  /\ UNCHANGED <<own, cur, connVars, reopened>>

EraseNotAdded ==
  /\ pc = "erase"
  /\ user' = [user EXCEPT ![cur] = Nobody]
  /\ UNCHANGED <<marked, completed, tasks, closed, worker>>
  /\ Dropped(user[cur])
  /\ pc' = "loop"
  /\ UNCHANGED <<own, cur, reopened>>

(* closeConn(): from a timer, a hang-up, or the end of a response.         *)
Keeping(c) == fd' = fd                                  \* fd_ = -1 forgotten
GivingUp(c) == fd' = [fd EXCEPT ![c] = 0]

CloseConn(n) ==
  /\ pc = "loop" /\ user[n] # Nobody /\ LockFree(user[n])
  /\ CloseCall(fd[user[n]], Socket(user[n]))
  /\ GivingUp(user[n])
  /\ user' = [user EXCEPT ![n] = Nobody]
  /\ marked' = marked \ {n}
  /\ UNCHANGED <<pc, own, cur, completed, tasks, closed, worker, reopened>>

(* handleRead: the task takes a reference along; push() waits for a place. *)
HandleRead(n) ==
  /\ pc = "loop" /\ user[n] # Nobody /\ n \notin marked /\ Len(tasks) < MaxTasks
  /\ marked' = marked \cup {n}
  /\ tasks' = Append(tasks, [conn |-> user[n], number |-> n])
  /\ UNCHANGED <<pc, table, own, cur, fd, user, completed, closed, worker, stray, reopened>>

HandleWakeup ==
  /\ pc = "loop" /\ completed # {}
  /\ marked' = marked \ completed
  /\ completed' = {}
  /\ UNCHANGED <<pc, table, own, cur, fd, user, tasks, closed, worker, stray, reopened>>

(* epoll_wait fails, or was interrupted and errno says something else by   *)
(* the time tick() has closed what is due.                                 *)
LoopEnds ==
  /\ pc = "loop" /\ pc' = "destroy"
  /\ UNCHANGED <<table, own, cur, connVars, stray, reopened>>

-----------------------------------------------------------------------------
(* A worker.  Its last task stays in the variable it is popped into, and   *)
(* keeps its object, until the next one is popped or the thread ends.      *)
Pop(w) ==
  /\ worker[w].at = "idle" /\ tasks # <<>> /\ ~closed
  /\ worker' = [worker EXCEPT ![w].at = "popped", ![w].task = Head(tasks)]
  /\ tasks' = Tail(tasks)
  /\ UNCHANGED <<user, marked, completed, closed>>
  /\ Dropped(worker[w].task.conn)
  /\ UNCHANGED <<pc, own, cur, reopened>>

BeginProcess(w) ==
  /\ worker[w].at = "popped" /\ LockFree(worker[w].task.conn)
  /\ worker' = [worker EXCEPT ![w].at = "process"]
  /\ UNCHANGED <<pc, table, own, cur, fd, user, marked, completed, tasks, closed, stray, reopened>>

(* mapFile(): open, and close after mmap.  The number may be one that a    *)
(* failed addfd has closed and is about to close again.                    *)
OpenFile(w) ==
  /\ worker[w].at = "process"
  /\ Opens(File(w))
  /\ worker' = [worker EXCEPT ![w].at = "file", ![w].file = Min(FreeNumbers)]
  /\ reopened' = (reopened \/ (pc = "erase" /\ Min(FreeNumbers) = cur))
  /\ UNCHANGED <<pc, own, cur, fd, user, marked, completed, tasks, closed, stray>>

CloseFile(w) ==
  /\ worker[w].at = "file"
  /\ CloseCall(worker[w].file, File(w))
  /\ worker' = [worker EXCEPT ![w].at = "report", ![w].file = 0]
  /\ UNCHANGED <<pc, own, cur, fd, user, marked, completed, tasks, closed, reopened>>

(* process() without a file, or with one that does not open.               *)
EndProcess(w) ==
  /\ worker[w].at = "process"
  /\ worker' = [worker EXCEPT ![w].at = "report"]
  /\ UNCHANGED <<pc, table, own, cur, fd, user, marked, completed, tasks, closed, stray, reopened>>

Report(w) ==
  /\ worker[w].at = "report"
  /\ completed' = completed \cup {worker[w].task.number}
  /\ worker' = [worker EXCEPT ![w].at = "idle"]
  /\ UNCHANGED <<pc, table, own, cur, fd, user, marked, tasks, closed, stray, reopened>>

WorkerEnds(w) ==
  /\ worker[w].at = "idle" /\ closed
  /\ worker' = [worker EXCEPT ![w].at = "ended", ![w].task = NoTask]
  /\ UNCHANGED <<user, marked, completed, tasks, closed>>
  /\ Dropped(worker[w].task.conn)
  /\ UNCHANGED <<pc, own, cur, reopened>>

-----------------------------------------------------------------------------
(* ~WebServer(), then its members from the last to the first: user_,       *)
(* epoller_, thread_pool_.                                                 *)
CloseServer ==
  /\ pc = "destroy" /\ pc' = "wakeup"
  /\ CloseCall(own.server, Kernel("server"))
  /\ UNCHANGED <<own, cur, connVars, reopened>>

CloseWakeup ==
  /\ pc = "wakeup" /\ pc' = "users"
  /\ CloseCall(own.wakeup, Kernel("wakeup"))
  /\ UNCHANGED <<own, cur, connVars, reopened>>

DestroyUser(n) ==
  /\ pc = "users" /\ user[n] # Nobody
  /\ user' = [user EXCEPT ![n] = Nobody]
  /\ UNCHANGED <<marked, completed, tasks, closed, worker>>
  /\ Dropped(user[n])
  /\ UNCHANGED <<pc, own, cur, reopened>>

DestroyEpoller ==
  /\ pc = "users" /\ \A n \in Number : user[n] = Nobody
  /\ CloseCall(own.epoll, Kernel("epoll"))
  /\ pc' = "stop"
  /\ UNCHANGED <<own, cur, connVars, reopened>>

(* ThreadPool::stop() and the queue that is left.                          *)
StopPool ==
  /\ pc = "stop" /\ pc' = "join"
  /\ closed' = TRUE
  /\ UNCHANGED <<table, own, cur, fd, user, marked, completed, tasks, worker, stray, reopened>>

Join ==
  /\ pc = "join" /\ \A w \in Worker : worker[w].at = "ended"
  /\ pc' = "tasks"
  /\ UNCHANGED <<table, own, cur, connVars, stray, reopened>>

DestroyTask ==
  /\ pc = "tasks" /\ tasks # <<>>
  /\ tasks' = Tail(tasks)
  /\ UNCHANGED <<user, marked, completed, closed, worker>>
  /\ Dropped(Head(tasks).conn)
  /\ UNCHANGED <<pc, own, cur, reopened>>

Exit ==
  /\ pc = "tasks" /\ tasks = <<>> /\ pc' = "exit"
  /\ UNCHANGED <<table, own, cur, connVars, stray, reopened>>

-----------------------------------------------------------------------------
Startup == Construct \/ CreateWakeup \/ AddWakeup \/ CreateSocket \/ Listen

Loop ==
  \/ \E c \in Client : Accept(c)
  \/ AddFd \/ AddFdFails \/ EraseNotAdded
  \/ \E n \in Number : CloseConn(n) \/ HandleRead(n)
  \/ HandleWakeup \/ LoopEnds

Pool ==
  \E w \in Worker :
    \/ Pop(w) \/ BeginProcess(w) \/ OpenFile(w) \/ CloseFile(w)
    \/ EndProcess(w) \/ Report(w) \/ WorkerEnds(w)

Shutdown ==
  \/ CloseServer \/ CloseWakeup \/ (\E n \in Number : DestroyUser(n)) \/ DestroyEpoller
  \/ StopPool \/ Join \/ DestroyTask \/ Exit

(* The process is gone; everything else that stops is a deadlock.          *)
Terminated == pc = "exit" /\ UNCHANGED vars

Next == Startup \/ Loop \/ Pool \/ Shutdown \/ Terminated

Spec == Init /\ [][Next]_vars

-----------------------------------------------------------------------------
(* Types; a worker has a file open exactly inside mapFile().               *)
MainPlaces == {"construct", "eventfd", "addwakeup", "socket", "listen", "loop", "addfd", "erase",
               "destroy", "wakeup", "users", "stop", "join", "tasks", "exit"}
WorkerPlaces == {"idle", "popped", "process", "file", "report", "ended"}
Tasks == [conn : Client \cup {Nobody}, number : 0..MaxFd]
Things == {Free} \cup {Kernel(k) : k \in {"epoll", "server", "wakeup"}}
            \cup {Socket(c) : c \in Client} \cup {File(w) : w \in Worker}

TypeOK ==
  /\ pc \in MainPlaces /\ table \in [Number -> Things]
  /\ own \in [epoll : 0..MaxFd, server : 0..MaxFd, wakeup : 0..MaxFd]
  /\ fd \in [Client -> 0..MaxFd]
  /\ user \in [Number -> Client \cup {Nobody}]
  /\ marked \subseteq Number /\ completed \subseteq 0..MaxFd
  /\ tasks \in Seq(Tasks) /\ closed \in BOOLEAN
  /\ worker \in [Worker -> [at : WorkerPlaces, task : Tasks, file : 0..MaxFd]]
  /\ \A w \in Worker : worker[w].file # 0 <=> worker[w].at = "file"
  /\ reopened \in BOOLEAN

(* No close() hits the descriptor of somebody else, on any path of the     *)
(* loop, the workers and the destructors.  Excepted, and the only way it   *)
(* can happen: addfd failed, its number was closed, and a worker opened a  *)
(* file before the destructor of the connection closed the number again    *)
(* (WebServer.cpp:169-173, 311-323, HttpConnection.cpp:32-34, 58-65).      *)
ClosedByOwner == ~reopened => stray = {}

(* Somebody who is there is to close n, and knows the number.              *)
HasOwner(n) ==
  CASE table[n].is = "client" -> fd[table[n].of] = n /\ Held(table[n].of)
    [] table[n].is = "file" -> worker[table[n].of].file = n
    [] table[n].is \in DOMAIN own -> own[table[n].is] = n
    [] OTHER -> table[n] = Free

(* Whoever is to close a descriptor is there and knows its number: a       *)
(* socket has its object, which user_, a task or a worker keeps alive, a   *)
(* file its worker, the three others the server, whose destructor has not  *)
(* passed them yet.  At the end everything is closed, after any start that *)
(* failed half way and any work that was under way when the loop ended     *)
(* (WebServer.cpp:38-45, 58-114, Epoller.cpp:14-18, ThreadPool.cpp:15-39). *)
NoDescriptorLost ==
  ~reopened =>
    /\ \A n \in Number : HasOwner(n)
    /\ pc = "exit" => \A n \in Number : table[n] = Free
=============================================================================
