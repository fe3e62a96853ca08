--------------------------- MODULE DescriptorsProofs --------------------------
(***************************************************************************)
(* Who closes which descriptor, for any number of clients, workers and     *)
(* descriptors.                                                            *)
(***************************************************************************)
EXTENDS Descriptors, SequenceTheorems, WellFoundedInduction, TLAPS

(* The lowest free number is free.                                         *)
LEMMA MinIsMember ==
  ASSUME NEW S \in SUBSET Nat, S # {}
  PROVE  Min(S) \in S
<1> DEFINE R == {ss \in Nat \X Nat : ss[1] < ss[2]}
<1>1. IsWellFoundedOn(R, Nat)
  BY NatLessThanWellFounded DEF OpToRel
<1>2. PICK x \in S : \A y \in S : ~(<<y, x>> \in R)
  <2> HIDE DEF R
  <2> QED  BY <1>1, WFMin
<1>3. ASSUME NEW y \in S PROVE x =< y
  <2>1. x \in Nat /\ y \in Nat
    OBVIOUS
  <2>2. y < x => <<y, x>> \in R
    BY <2>1
  <2> HIDE DEF R
  <2> QED  BY <1>2, <2>1, <2>2
<1> QED  BY <1>3 DEF Min

(* open, accept, socket, eventfd and epoll_create1 return a number that    *)
(* stood for nothing.                                                      *)
LEMMA NewNumber ==
  ASSUME FreeNumbers # {}
  PROVE  Min(FreeNumbers) \in Number /\ table[Min(FreeNumbers)] = Free
<1>1. FreeNumbers \in SUBSET Nat
  BY DescriptorsAssumption DEF FreeNumbers, Number
<1> QED  BY <1>1, MinIsMember DEF FreeNumbers

(* What a number can stand for: each of these is another thing.            *)
Kinds == {"epoll", "server", "wakeup"}

(* What an entry of the table stands for: different things are different.  *)
LEMMA ThingsDiffer ==
  /\ \A c : Socket(c) # Free /\ File(c) # Free
  /\ \A c, d : Socket(c) = Socket(d) \/ File(c) = File(d) => c = d
  /\ \A c, w : Socket(c) # File(w)
  /\ \A k \in Kinds : Kernel(k) # Free
  /\ \A k, j \in Kinds : Kernel(k) = Kernel(j) => k = j
  /\ \A k \in Kinds : \A c : Kernel(k) # Socket(c) /\ Kernel(k) # File(c)
<1>1. /\ Free.is = "free"
      /\ \A c : Socket(c).is = "client" /\ Socket(c).of = c
      /\ \A w : File(w).is = "file" /\ File(w).of = w
      /\ \A k : Kernel(k).is = k
  BY DEF Free, Socket, File, Kernel
<1> QED  BY <1>1 DEF Kinds

-----------------------------------------------------------------------------
(* The types.  A close() keeps the table a table.                          *)
LEMMA TableTyped ==
  ASSUME TypeOK, NEW n, NEW owner, CloseCall(n, owner)
  PROVE  table' \in [Number -> Things]
  BY DEF CloseCall, Things, TypeOK

(* A reference that is dropped clears one fd_ at most.                     *)
LEMMA DroppedType ==
  ASSUME TypeOK, NEW c, Dropped(c)
  PROVE  fd' \in [Client -> 0..MaxFd] /\ table' \in [Number -> Things]
  BY DescriptorsAssumption, TableTyped DEF Dropped, NoCall, TypeOK

(* The steps of a worker change its place, its task and its file.          *)
LEMMA WorkerMoves ==
  ASSUME TypeOK, NEW w \in Worker, NEW place \in WorkerPlaces, NEW task \in Tasks,
         NEW file \in 0..MaxFd, file # 0 <=> place = "file",
         worker' = [worker EXCEPT ![w] = [at |-> place, task |-> task, file |-> file]]
  PROVE  /\ worker' \in [Worker -> [at : WorkerPlaces, task : Tasks, file : 0..MaxFd]]
         /\ \A v \in Worker : worker'[v].file # 0 <=> worker'[v].at = "file"
  BY DEF TypeOK

(* ... which are these.                                                    *)
LEMMA WorkerSteps ==
  ASSUME TypeOK, NEW w \in Worker
  PROVE  /\ Pop(w) => worker' = [worker EXCEPT ![w] =
                                   [at |-> "popped", task |-> Head(tasks), file |-> 0]]
         /\ BeginProcess(w) => worker' = [worker EXCEPT ![w] =
                                   [at |-> "process", task |-> worker[w].task, file |-> 0]]
         /\ OpenFile(w) => worker' = [worker EXCEPT ![w] =
                                   [at |-> "file", task |-> worker[w].task,
                                    file |-> Min(FreeNumbers)]]
         /\ CloseFile(w) \/ EndProcess(w) => worker' = [worker EXCEPT ![w] =
                                   [at |-> "report", task |-> worker[w].task, file |-> 0]]
         /\ Report(w) => worker' = [worker EXCEPT ![w] =
                                   [at |-> "idle", task |-> worker[w].task, file |-> 0]]
         /\ WorkerEnds(w) => worker' = [worker EXCEPT ![w] =
                                   [at |-> "ended", task |-> NoTask, file |-> 0]]
<1>1. worker[w] \in [at : WorkerPlaces, task : Tasks, file : 0..MaxFd]
  BY DEF TypeOK
<1>2. worker[w].at # "file" => worker[w].file = 0
  BY DEF TypeOK
<1> QED
  BY <1>1, <1>2 DEF Pop, BeginProcess, OpenFile, CloseFile, EndProcess, Report, WorkerEnds

(* Every variable keeps its type, and a worker knows a file descriptor     *)
(* exactly while it is inside mapFile().                                   *)
THEOREM TypeCorrect == Spec => []TypeOK
<1> USE DescriptorsAssumption
<1>1. Init => TypeOK
  <2> SUFFICES ASSUME Init PROVE TypeOK
    OBVIOUS
  <2>1. worker \in [Worker -> [at : WorkerPlaces, task : Tasks, file : 0..MaxFd]]
        /\ \A w \in Worker : worker[w].at = "idle" /\ worker[w].file = 0
    BY DEF Init, WorkerPlaces, Tasks, NoTask
  <2>2. tasks \in Seq(Tasks)
    BY DEF Init
  <2>3. /\ pc \in MainPlaces /\ table \in [Number -> Things]
        /\ own \in [epoll : 0..MaxFd, server : 0..MaxFd, wakeup : 0..MaxFd]
    BY DEF Init, MainPlaces, Things
  <2>4. fd \in [Client -> 0..MaxFd] /\ user \in [Number -> Client \cup {Nobody}]
    BY DEF Init
  <2> QED  BY <2>1, <2>2, <2>3, <2>4 DEF Init, TypeOK
<1>2. TypeOK /\ [Next]_vars => TypeOK'
  <2> SUFFICES ASSUME TypeOK, [Next]_vars PROVE TypeOK'
    OBVIOUS
  <2>1. CASE UNCHANGED vars
    BY <2>1 DEF vars, connVars, TypeOK
  <2>2. CASE Startup
    <3>0. ASSUME NEW k \in {"epoll", "server", "wakeup"}, Opens(Kernel(k)) PROVE table' \in [Number -> Things]
      BY <3>0 DEF Opens, Things, TypeOK
    <3>1. /\ UNCHANGED connVars /\ pc' \in MainPlaces /\ UNCHANGED reopened
      BY <2>2 DEF Startup, Construct, CreateWakeup, AddWakeup, CreateSocket, Listen, MainPlaces
    <3>3. table' \in [Number -> Things]
      <4>1. CASE UNCHANGED table
        BY <4>1 DEF TypeOK
      <4> QED
        BY <2>2, <3>0, <4>1, TableTyped DEF Startup, Construct, CreateWakeup, AddWakeup,
           CreateSocket, Listen, ListenFails, NoCall
    <3>2. own' \in [epoll : 0..MaxFd, server : 0..MaxFd, wakeup : 0..MaxFd]
      <4>1. FreeNumbers # {} => Min(FreeNumbers) \in 0..MaxFd
        BY NewNumber DEF Number
      <4>2. \/ own' = own
            \/ \E m \in 0..MaxFd : \/ own' = [own EXCEPT !.epoll = m]
                                   \/ own' = [own EXCEPT !.wakeup = m]
                                   \/ own' = [own EXCEPT !.server = m]
        <5>1. 0 \in 0..MaxFd
          OBVIOUS
        <5> QED
          BY <2>2, <4>1, <5>1 DEF Startup, Construct, CreateWakeup, AddWakeup, CreateSocket,
             Listen, ListenFails, Opens
      <4> QED  BY <4>2 DEF TypeOK
    <3> QED  BY <3>1, <3>2, <3>3 DEF connVars, TypeOK
  <2>3. CASE Loop
    <3>1. ASSUME NEW c \in Client, Accept(c) PROVE TypeOK'
      <4>1. Min(FreeNumbers) \in Number
        BY <3>1, NewNumber DEF Accept
      <4>2. fd' \in [Client -> 0..MaxFd]
        BY <3>1, <4>1 DEF Accept, Number, TypeOK
      <4>3. user' \in [Number -> Client \cup {Nobody}]
        BY <3>1, <4>1 DEF Accept, TypeOK
      <4>4. table' \in [Number -> Things]
        BY <3>1 DEF Accept, Things, TypeOK
      <4> QED  BY <3>1, <4>2, <4>3, <4>4 DEF Accept, MainPlaces, TypeOK
    <3>2. CASE AddFd \/ HandleWakeup \/ LoopEnds
      BY <3>2 DEF AddFd, HandleWakeup, LoopEnds, connVars, MainPlaces, TypeOK
    <3>3. CASE AddFdFails
      BY <3>3, TableTyped DEF AddFdFails, connVars, MainPlaces, TypeOK
    <3>4. CASE EraseNotAdded
      BY <3>4, DroppedType DEF EraseNotAdded, MainPlaces, TypeOK
    <3>5. ASSUME NEW n \in Number, CloseConn(n) PROVE TypeOK'
      BY <3>5, TableTyped DEF CloseConn, GivingUp, TypeOK
    <3>6. ASSUME NEW n \in Number, HandleRead(n) PROVE TypeOK'
      <4> DEFINE task == [conn |-> user[n], number |-> n]
      <4>1. task \in Tasks
        BY DEF TypeOK, Tasks, Number
      <4>2. tasks' = Append(tasks, task)
        BY <3>6 DEF HandleRead
      <4> HIDE DEF task
      <4>3. tasks' \in Seq(Tasks)
        BY <4>1, <4>2, AppendProperties DEF TypeOK
      <4> QED  BY <3>6, <4>3 DEF HandleRead, TypeOK
    <3> QED  BY <2>3, <3>1, <3>2, <3>3, <3>4, <3>5, <3>6 DEF Loop
  <2>4. ASSUME NEW w \in Worker, Pop(w) PROVE TypeOK'
    <3>1. Head(tasks) \in Tasks /\ Tail(tasks) \in Seq(Tasks)
      BY <2>4, HeadTailProperties DEF Pop, TypeOK
    <3>2. /\ worker' \in [Worker -> [at : WorkerPlaces, task : Tasks, file : 0..MaxFd]]
          /\ \A v \in Worker : worker'[v].file # 0 <=> worker'[v].at = "file"
      BY <2>4, <3>1, WorkerSteps, WorkerMoves DEF WorkerPlaces
    <3>3. fd' \in [Client -> 0..MaxFd] /\ table' \in [Number -> Things]
      BY <2>4, DroppedType DEF Pop
    <3> QED  BY <2>4, <3>1, <3>2, <3>3 DEF Pop, TypeOK
  <2>5. ASSUME NEW w \in Worker,
               BeginProcess(w) \/ OpenFile(w) \/ CloseFile(w) \/ EndProcess(w) \/ Report(w)
        PROVE  TypeOK'
    <3>0. worker[w].task \in Tasks /\ worker[w].task.number \in 0..MaxFd
      BY DEF TypeOK, Tasks
    <3>1. OpenFile(w) => Min(FreeNumbers) \in 0..MaxFd /\ Min(FreeNumbers) # 0
      BY NewNumber DEF OpenFile, Opens, Number
    <3>2. /\ worker' \in [Worker -> [at : WorkerPlaces, task : Tasks, file : 0..MaxFd]]
          /\ \A v \in Worker : worker'[v].file # 0 <=> worker'[v].at = "file"
      BY <2>5, <3>0, <3>1, WorkerSteps, WorkerMoves DEF WorkerPlaces
    <3>3. table' \in [Number -> Things]
      <4>1. File(w) \in Things
        BY DEF Things
      <4>2. CASE OpenFile(w)
        BY <4>1, <4>2 DEF OpenFile, Opens, TypeOK
      <4>3. CASE CloseFile(w)
        BY <4>3, TableTyped DEF CloseFile
      <4> QED
        BY <2>5, <4>2, <4>3 DEF BeginProcess, EndProcess, Report, TypeOK
    <3> QED
      BY <2>5, <3>0, <3>2, <3>3 DEF BeginProcess, OpenFile, CloseFile, EndProcess, Report, TypeOK
  <2>6. ASSUME NEW w \in Worker, WorkerEnds(w) PROVE TypeOK'
    <3>1. NoTask \in Tasks
      BY DEF NoTask, Tasks
    <3>2. /\ worker' \in [Worker -> [at : WorkerPlaces, task : Tasks, file : 0..MaxFd]]
          /\ \A v \in Worker : worker'[v].file # 0 <=> worker'[v].at = "file"
      BY <2>6, <3>1, WorkerSteps, WorkerMoves DEF WorkerPlaces
    <3>3. fd' \in [Client -> 0..MaxFd] /\ table' \in [Number -> Things]
      BY <2>6, DroppedType DEF WorkerEnds
    <3> QED  BY <2>6, <3>2, <3>3 DEF WorkerEnds, TypeOK
  <2>7. CASE Shutdown
    <3>1. CASE CloseServer \/ CloseWakeup \/ DestroyEpoller
      BY <3>1, TableTyped DEF CloseServer, CloseWakeup, DestroyEpoller, connVars, MainPlaces,
         TypeOK
    <3>2. ASSUME NEW n \in Number, DestroyUser(n) PROVE TypeOK'
      BY <3>2, DroppedType DEF DestroyUser, TypeOK
    <3>3. CASE StopPool \/ Join \/ Exit
      BY <3>3 DEF StopPool, Join, Exit, connVars, MainPlaces, TypeOK
    <3>4. CASE DestroyTask
      <4>1. Tail(tasks) \in Seq(Tasks)
        BY <3>4, HeadTailProperties DEF DestroyTask, TypeOK
      <4> QED  BY <3>4, <4>1, DroppedType DEF DestroyTask, TypeOK
    <3> QED  BY <2>7, <3>1, <3>2, <3>3, <3>4 DEF Shutdown
  <2> QED
    BY <2>1, <2>2, <2>3, <2>4, <2>5, <2>6, <2>7 DEF Next, Pool, Terminated
<1> QED  BY <1>1, <1>2, PTL DEF Spec

-----------------------------------------------------------------------------
(* The three descriptors of the server are closed by its destructor, one   *)
(* after the other; until then their numbers stand for them.               *)
Running == {"construct", "eventfd", "addwakeup", "socket", "listen", "loop", "addfd", "erase",
            "destroy"}
StillOpen(k) ==
  pc \in CASE k = "server" -> Running
           [] k = "wakeup" -> Running \cup {"wakeup"}
           [] k = "epoll"  -> Running \cup {"wakeup", "users"}

OwnKnown == \A k \in Kinds : own[k] # 0 /\ StillOpen(k) => table[own[k]] = Kernel(k)

(* The number an object, or a worker, remembers stands for its descriptor; *)
(* but for the connection that addfd refused, between close and erase.     *)
SocketsKnown ==
  \A c \in Client : fd[c] # 0 => table[fd[c]] = Socket(c) \/ (pc = "erase" /\ c = user[cur])
FilesKnown == \A w \in Worker : worker[w].file # 0 => table[worker[w].file] = File(w)

(* What is open has somebody who remembers it, and who is still there.     *)
Owned(n) ==
  \/ table[n] = Free
  \/ \E c \in Client : table[n] = Socket(c) /\ fd[c] = n /\ Held(c)
  \/ \E w \in Worker : table[n] = File(w) /\ worker[w].file = n
  \/ \E k \in Kinds : table[n] = Kernel(k) /\ own[k] = n /\ StillOpen(k)
AllOwned == \A n \in Number : Owned(n)

(* user_ has a connection under its own number, and nobody but user_ has   *)
(* the one handleListen is about to register.                              *)
UsersKnown == \A n \in Number : user[n] # Nobody => fd[user[n]] = n
Accepting ==
  pc \in {"addfd", "erase"} =>
    /\ cur \in Number /\ user[cur] # Nobody /\ ~HeldByTask(user[cur])
    /\ pc = "erase" => table[cur] = Free

(* The stages of the start and of the end.                                 *)
Stages ==
  /\ pc = "construct" => own.epoll = 0
  /\ pc \in {"construct", "eventfd"} => own.wakeup = 0
  /\ pc \in {"construct", "eventfd", "addwakeup", "socket"} => own.server = 0
  /\ pc \in {"stop", "join", "tasks", "exit"} => \A n \in Number : user[n] = Nobody
  /\ pc \in {"tasks", "exit"} => \A w \in Worker : worker[w].at = "ended"
  /\ \A w \in Worker : worker[w].at = "ended" => worker[w].task = NoTask
  /\ pc = "exit" => tasks = <<>>

(* What a step has to keep true of the table, ...                          *)
TableRight ==
  OwnKnown /\ SocketsKnown /\ FilesKnown /\ AllOwned /\ UsersKnown /\ stray = {}

(* ... and of everything.                                                  *)
Safe == TableRight /\ Accepting /\ Stages

SafeUnlessReopened == ~reopened => Safe

(* HeldNext is Held, said of the state after the step.                     *)
LEMMA HeldNextIsHeld ==
  ASSUME NEW c
  PROVE  HeldNext(c) <=> Held(c)'
  BY DEF HeldNext, Held, HeldByTask

(* A step that leaves the table alone may only add references.             *)
LEMMA TableKept ==
  ASSUME TypeOK, TableRight, UNCHANGED <<table, own, cur, fd, user, stray>>,
         \A w \in Worker : worker'[w].file = worker[w].file,
         \A c \in Client : Held(c) => HeldNext(c),
         \A k \in Kinds : StillOpen(k)' <=> StillOpen(k),
         pc' = "erase" <=> pc = "erase"
  PROVE  TableRight'
<1>1. OwnKnown' /\ SocketsKnown' /\ FilesKnown' /\ UsersKnown' /\ stray' = {}
  BY DEF TableRight, OwnKnown, SocketsKnown, FilesKnown, UsersKnown
<1>2. ASSUME NEW n \in Number PROVE Owned(n)'
  <2>1. Owned(n)
    BY DEF TableRight, AllOwned
  <2> QED  BY <2>1, HeldNextIsHeld DEF Owned
<1> QED  BY <1>1, <1>2 DEF TableRight, AllOwned

(* The last reference to an object goes, and its destructor closes what it *)
(* owns, or another is left.                                               *)
LEMMA TableAfterDrop ==
  ASSUME TypeOK, TableRight, NEW c \in Client \cup {Nobody}, Dropped(c),
         UNCHANGED <<pc, own, cur>>,
         \A w \in Worker : worker'[w].file = worker[w].file,
         \A d \in Client : d # c /\ Held(d) => HeldNext(d),
         \A n \in Number : user'[n] \in {user[n], Nobody},
         pc = "erase" => user' = user /\ cur \in Number
  PROVE  TableRight' /\ \A n \in Number : table[n] = Free => table'[n] = Free
<1> USE DescriptorsAssumption, ThingsDiffer
<1>1. CASE c # Nobody /\ ~HeldNext(c) /\ fd[c] # 0
  <2> DEFINE m == fd[c]
  <2>1. m \in Number /\ c \in Client
    BY <1>1 DEF TypeOK, Number
  <2>2. ~(pc = "erase" /\ c = user[cur])
    BY <1>1 DEF HeldNext
  <2>3. table[m] = Socket(c)
    BY <1>1, <2>1, <2>2 DEF TableRight, SocketsKnown
  <2>4. /\ table' = [table EXCEPT ![m] = Free] /\ stray' = {}
        /\ fd' = [fd EXCEPT ![c] = 0]
    BY <1>1, <2>1, <2>3 DEF Dropped, CloseCall, TableRight
  <2>5. /\ \A n \in Number : table'[n] = IF n = m THEN Free ELSE table[n]
        /\ \A d \in Client : fd'[d] = IF d = c THEN 0 ELSE fd[d]
    BY <2>1, <2>4 DEF TypeOK
  <2> HIDE DEF m
  <2>6. OwnKnown'
    <3> SUFFICES ASSUME NEW k \in Kinds, own[k] # 0, StillOpen(k)
                 PROVE  table'[own[k]] = Kernel(k)
      BY DEF OwnKnown, StillOpen
    <3>1. table[own[k]] = Kernel(k)
      BY DEF TableRight, OwnKnown
    <3> QED  BY <2>3, <2>4, <3>1, <2>1 DEF TypeOK
  <2>7. SocketsKnown'
    <3> SUFFICES ASSUME NEW d \in Client, fd'[d] # 0, ~(pc = "erase" /\ d = user[cur])
                 PROVE  table'[fd'[d]] = Socket(d)
      BY DEF SocketsKnown
    <3>1. d # c /\ fd'[d] = fd[d] /\ table[fd[d]] = Socket(d)
      BY <2>5 DEF TableRight, SocketsKnown
    <3> QED  BY <2>1, <2>3, <2>4, <3>1 DEF TypeOK
  <2>8. FilesKnown'
    <3> SUFFICES ASSUME NEW w \in Worker, worker[w].file # 0
                 PROVE  table'[worker[w].file] = File(w)
      BY DEF FilesKnown
    <3>1. table[worker[w].file] = File(w)
      BY DEF TableRight, FilesKnown
    <3> QED  BY <2>1, <2>3, <2>4, <3>1 DEF TypeOK
  <2>9. AllOwned'
    <3> SUFFICES ASSUME NEW n \in Number, n # m PROVE Owned(n)'
      BY <2>5 DEF AllOwned, Owned
    <3>1. Owned(n) /\ table'[n] = table[n]
      BY <2>5 DEF TableRight, AllOwned
    <3>2. ASSUME NEW d \in Client, table[n] = Socket(d), fd[d] = n, Held(d) PROVE Owned(n)'
      <4>1. d # c
        BY <3>2 DEF m
      <4> QED  BY <2>5, <3>1, <3>2, <4>1, HeldNextIsHeld DEF Owned
    <3> QED  BY <3>1, <3>2 DEF Owned, StillOpen
  <2>10. UsersKnown'
    <3> SUFFICES ASSUME NEW n \in Number, user'[n] # Nobody PROVE fd'[user'[n]] = n
      BY DEF UsersKnown
    <3>1. user'[n] = user[n] /\ user'[n] # c /\ user[n] \in Client
      BY <1>1 DEF HeldNext, TypeOK
    <3> QED  BY <2>5, <3>1 DEF TableRight, UsersKnown
  <2> QED  BY <2>4, <2>5, <2>6, <2>7, <2>8, <2>9, <2>10 DEF TableRight
<1>2. CASE ~(c # Nobody /\ ~HeldNext(c) /\ fd[c] # 0)
  <2>1. UNCHANGED <<table, stray, fd>>
    BY <1>2 DEF Dropped, NoCall
  <2>2. OwnKnown' /\ FilesKnown' /\ stray' = {}
    BY <2>1 DEF TableRight, OwnKnown, FilesKnown, StillOpen
  <2>3. SocketsKnown'
    BY <2>1 DEF TableRight, SocketsKnown
  <2>4. UsersKnown'
    BY <2>1 DEF TableRight, UsersKnown
  <2>5. AllOwned'
    <3> SUFFICES ASSUME NEW n \in Number PROVE Owned(n)'
      BY DEF AllOwned
    <3>1. Owned(n)
      BY DEF TableRight, AllOwned
    <3>2. ASSUME NEW d \in Client, table[n] = Socket(d), fd[d] = n, Held(d) PROVE Owned(n)'
      <4>1. fd[d] # 0 /\ d # Nobody
        BY <3>2 DEF Number
      <4>2. HeldNext(d)
        BY <1>2, <3>2, <4>1
      <4> QED  BY <2>1, <3>2, <4>2, HeldNextIsHeld DEF Owned
    <3> QED  BY <2>1, <3>1, <3>2 DEF Owned, StillOpen
  <2> QED  BY <2>1, <2>2, <2>3, <2>4, <2>5 DEF TableRight
<1> QED  BY <1>1, <1>2

(* The server opens a descriptor it does not have.                         *)
LEMMA TableAfterOpen ==
  ASSUME TypeOK, TableRight, NEW k \in Kinds, Opens(Kernel(k)), own[k] = 0,
         own'[k] = Min(FreeNumbers), \A j \in Kinds \ {k} : own'[j] = own[j],
         \A j \in Kinds : StillOpen(j)' <=> StillOpen(j), StillOpen(k)',
         UNCHANGED <<cur, connVars, stray>>, pc # "erase", pc' # "erase"
  PROVE  TableRight'
<1> USE DescriptorsAssumption, ThingsDiffer
<1> DEFINE m == Min(FreeNumbers)
<1>1. m \in Number /\ table[m] = Free /\ table' = [table EXCEPT ![m] = Kernel(k)]
  BY NewNumber DEF Opens
<1>2. \A n \in Number : table'[n] = IF n = m THEN Kernel(k) ELSE table[n]
  BY <1>1 DEF TypeOK
<1> HIDE DEF m
<1>3. UNCHANGED <<fd, user, tasks, worker>>
  BY DEF connVars
<1>4. OwnKnown'
  <2> SUFFICES ASSUME NEW j \in Kinds, own'[j] # 0, StillOpen(j)'
               PROVE  table'[own'[j]] = Kernel(j)
    BY DEF OwnKnown
  <2>1. CASE j = k
    BY <1>1, <1>2, <2>1 DEF m
  <2>2. CASE j # k
    <3>1. own'[j] = own[j] /\ table[own[j]] = Kernel(j)
      BY <2>2 DEF TableRight, OwnKnown
    <3> QED  BY <1>1, <3>1 DEF TypeOK
  <2> QED  BY <2>1, <2>2
<1>5. SocketsKnown'
  <2> SUFFICES ASSUME NEW d \in Client, fd[d] # 0 PROVE table'[fd[d]] = Socket(d)
    BY <1>3 DEF SocketsKnown
  <2>1. table[fd[d]] = Socket(d)
    BY DEF TableRight, SocketsKnown
  <2> QED  BY <1>1, <2>1 DEF TypeOK
<1>6. FilesKnown'
  <2> SUFFICES ASSUME NEW w \in Worker, worker[w].file # 0
               PROVE  table'[worker[w].file] = File(w)
    BY <1>3 DEF FilesKnown
  <2>1. table[worker[w].file] = File(w)
    BY DEF TableRight, FilesKnown
  <2> QED  BY <1>1, <2>1 DEF TypeOK
<1>7. AllOwned'
  <2> SUFFICES ASSUME NEW n \in Number PROVE Owned(n)'
    BY DEF AllOwned
  <2>1. CASE n = m
    BY <1>2, <2>1 DEF Owned, m
  <2>2. CASE n # m
    <3>1. Owned(n) /\ table'[n] = table[n]
      BY <1>2, <2>2 DEF TableRight, AllOwned
    <3>2. \A j \in Kinds : own[j] = n => own'[j] = n
      BY DEF Number
    <3> QED  BY <1>3, <3>1, <3>2 DEF Owned, Held, HeldByTask
  <2> QED  BY <2>1, <2>2
<1>8. UsersKnown'
  BY <1>3 DEF TableRight, UsersKnown
<1> QED  BY <1>4, <1>5, <1>6, <1>7, <1>8 DEF TableRight

(* The server closes one of its own, and forgets its number or is past it. *)
LEMMA TableAfterClose ==
  ASSUME TypeOK, TableRight, NEW k \in Kinds, CloseCall(own[k], Kernel(k)), StillOpen(k),
         own'[k] = 0 \/ ~StillOpen(k)', \A j \in Kinds \ {k} : own'[j] = own[j],
         \A j \in Kinds \ {k} : StillOpen(j)' <=> StillOpen(j),
         UNCHANGED <<cur, connVars>>, pc # "erase", pc' # "erase"
  PROVE  TableRight'
<1> USE DescriptorsAssumption, ThingsDiffer
<1> DEFINE m == own[k]
<1>1. m # 0 => table[m] = Kernel(k)
  BY DEF TableRight, OwnKnown
<1>2. \A n \in Number : table'[n] = IF n = m THEN Free ELSE table[n]
  BY DEF CloseCall, TypeOK
<1>3. UNCHANGED <<fd, user, tasks, worker>>
  BY DEF connVars
<1>4. stray' = {}
  BY <1>1 DEF CloseCall, TableRight, Number
<1> HIDE DEF m
<1>5. OwnKnown'
  <2> SUFFICES ASSUME NEW j \in Kinds, own'[j] # 0, StillOpen(j)'
               PROVE  table'[own'[j]] = Kernel(j)
    BY DEF OwnKnown
  <2>1. j # k /\ own'[j] = own[j] /\ table[own[j]] = Kernel(j) /\ own[j] # 0
    BY DEF TableRight, OwnKnown
  <2>2. own[j] \in Number
    BY <2>1 DEF TypeOK, Kinds, Number
  <2>3. own[j] # m
    BY <1>1, <2>1
  <2> QED  BY <1>2, <2>1, <2>2, <2>3
<1>6. SocketsKnown'
  <2> SUFFICES ASSUME NEW d \in Client, fd[d] # 0 PROVE table'[fd[d]] = Socket(d)
    BY <1>3 DEF SocketsKnown
  <2>1. table[fd[d]] = Socket(d) /\ fd[d] \in Number
    BY DEF TableRight, SocketsKnown, TypeOK, Number
  <2> QED  BY <1>1, <1>2, <2>1
<1>7. FilesKnown'
  <2> SUFFICES ASSUME NEW w \in Worker, worker[w].file # 0
               PROVE  table'[worker[w].file] = File(w)
    BY <1>3 DEF FilesKnown
  <2>1. table[worker[w].file] = File(w) /\ worker[w].file \in Number
    BY DEF TableRight, FilesKnown, TypeOK, Number
  <2> QED  BY <1>1, <1>2, <2>1
<1>8. AllOwned'
  <2> SUFFICES ASSUME NEW n \in Number, n # m PROVE Owned(n)'
    BY <1>2 DEF AllOwned, Owned
  <2>1. Owned(n) /\ table'[n] = table[n]
    BY <1>2 DEF TableRight, AllOwned
  <2>2. ASSUME NEW j \in Kinds, table[n] = Kernel(j), own[j] = n, StillOpen(j) PROVE Owned(n)'
    <3>1. j # k
      BY <2>2 DEF m
    <3> QED  BY <2>1, <2>2, <3>1 DEF Owned
  <2> QED  BY <1>3, <2>1, <2>2 DEF Owned, Held, HeldByTask
<1>9. UsersKnown'
  BY <1>3 DEF TableRight, UsersKnown
<1> QED  BY <1>4, <1>5, <1>6, <1>7, <1>8, <1>9 DEF TableRight

(* accept(): the object is new, and so is its number, so that nothing is   *)
(* displaced from user_.                                                   *)
LEMMA TableAfterAccept ==
  ASSUME TypeOK, TableRight, NEW c \in Client, Accept(c)
  PROVE  /\ TableRight'
         /\ cur' \in Number /\ user'[cur'] = c /\ \A n \in Number : n # cur' => user'[n] = user[n]
<1> USE DescriptorsAssumption, ThingsDiffer
<1> DEFINE m == Min(FreeNumbers)
<1>1. m \in Number /\ table[m] = Free /\ pc = "loop" /\ ~Held(c)
  BY NewNumber DEF Accept
<1>2. user[m] = Nobody
  <2> SUFFICES ASSUME user[m] # Nobody PROVE FALSE
    OBVIOUS
  <2>1. user[m] \in Client /\ fd[user[m]] = m /\ m # 0
    BY <1>1 DEF TableRight, UsersKnown, TypeOK, Number
  <2>2. table[m] = Socket(user[m])
    BY <1>1, <2>1 DEF TableRight, SocketsKnown
  <2> QED  BY <1>1, <2>2
<1>3. fd[c] = 0
  <2> SUFFICES ASSUME fd[c] # 0 PROVE FALSE
    OBVIOUS
  <2>1. table[fd[c]] = Socket(c) /\ fd[c] \in Number
    BY <1>1 DEF TableRight, SocketsKnown, TypeOK, Number
  <2> QED  BY <1>1, <2>1 DEF TableRight, AllOwned, Owned
<1>4. /\ table' = [table EXCEPT ![m] = Socket(c)]
      /\ user' = [user EXCEPT ![m] = c]
      /\ fd' = [d \in Client |-> IF d = c THEN m ELSE fd[d]]
      /\ cur' = m /\ pc' = "addfd" /\ stray' = stray
      /\ UNCHANGED <<own, tasks, worker>>
  BY <1>2 DEF Accept
<1> HIDE DEF m
<1>5. /\ \A n \in Number : table'[n] = IF n = m THEN Socket(c) ELSE table[n]
      /\ \A n \in Number : user'[n] = IF n = m THEN c ELSE user[n]
      /\ \A d \in Client : fd'[d] = IF d = c THEN m ELSE fd[d]
  BY <1>1, <1>4 DEF TypeOK
<1>6. \A k \in Kinds : StillOpen(k)' <=> StillOpen(k)
  BY <1>1, <1>4 DEF StillOpen, Running, Kinds
<1>7. OwnKnown'
  <2> SUFFICES ASSUME NEW k \in Kinds, own[k] # 0, StillOpen(k)
               PROVE  table'[own[k]] = Kernel(k)
    BY <1>4, <1>6 DEF OwnKnown
  <2>1. table[own[k]] = Kernel(k)
    BY DEF TableRight, OwnKnown
  <2> QED  BY <1>1, <1>4, <2>1 DEF TypeOK
<1>8. SocketsKnown'
  <2> SUFFICES ASSUME NEW d \in Client, fd'[d] # 0 PROVE table'[fd'[d]] = Socket(d)
    BY DEF SocketsKnown
  <2>1. CASE d = c
    BY <1>1, <1>5, <2>1
  <2>2. CASE d # c
    <3>1. fd'[d] = fd[d] /\ table[fd[d]] = Socket(d) /\ fd[d] \in Number
      BY <1>1, <1>5, <2>2 DEF TableRight, SocketsKnown, TypeOK, Number
    <3> QED  BY <1>1, <1>5, <3>1
  <2> QED  BY <2>1, <2>2
<1>9. FilesKnown'
  <2> SUFFICES ASSUME NEW w \in Worker, worker[w].file # 0
               PROVE  table'[worker[w].file] = File(w)
    BY <1>4 DEF FilesKnown
  <2>1. table[worker[w].file] = File(w) /\ worker[w].file \in Number
    BY DEF TableRight, FilesKnown, TypeOK, Number
  <2> QED  BY <1>1, <1>5, <2>1
<1>10. AllOwned'
  <2> SUFFICES ASSUME NEW n \in Number PROVE Owned(n)'
    BY DEF AllOwned
  <2>1. CASE n = m
    <3>1. HeldNext(c)
      BY <1>5, <2>1 DEF HeldNext
    <3> QED  BY <1>5, <2>1, <3>1, HeldNextIsHeld DEF Owned
  <2>2. CASE n # m
    <3>1. Owned(n) /\ table'[n] = table[n]
      BY <1>5, <2>2 DEF TableRight, AllOwned
    <3>2. ASSUME NEW d \in Client, table[n] = Socket(d), fd[d] = n, Held(d) PROVE Owned(n)'
      <4>1. fd'[d] = n
        BY <1>3, <1>5, <3>2 DEF Number
      <4>2. HeldNext(d)
        <5>1. CASE HeldByTask(d)
          BY <1>4, <5>1 DEF HeldByTask, HeldNext
        <5>2. CASE \E i \in Number : user[i] = d
          <6>1. PICK i \in Number : user[i] = d
            BY <5>2
          <6>2. i # m
            BY <1>2, <6>1
          <6> QED  BY <1>5, <6>1, <6>2 DEF HeldNext
        <5> QED  BY <3>2, <5>1, <5>2 DEF Held
      <4> QED  BY <3>1, <3>2, <4>1, <4>2, HeldNextIsHeld DEF Owned
    <3> QED  BY <1>4, <1>6, <3>1, <3>2 DEF Owned
  <2> QED  BY <2>1, <2>2
<1>11. UsersKnown'
  <2> SUFFICES ASSUME NEW n \in Number, user'[n] # Nobody PROVE fd'[user'[n]] = n
    BY DEF UsersKnown
  <2>1. CASE n = m
    BY <1>5, <2>1
  <2>2. CASE n # m
    <3>1. user'[n] = user[n] /\ user[n] \in Client /\ user[n] # c
      BY <1>1, <1>5, <2>2 DEF TypeOK, Held
    <3> QED  BY <1>5, <3>1 DEF TableRight, UsersKnown
  <2> QED  BY <2>1, <2>2
<1>12. stray' = {}
  BY <1>4 DEF TableRight
<1> QED
  BY <1>1, <1>4, <1>5, <1>7, <1>8, <1>9, <1>10, <1>11, <1>12 DEF TableRight

(* close() of a client that user_ knows: by closeConn, which clears fd_ and *)
(* erases the object, or after a failed addfd, which leaves both for later. *)
LEMMA TableAfterClientClosed ==
  ASSUME TypeOK, TableRight, NEW n \in Number, user[n] # Nobody, pc # "erase",
         CloseCall(fd[user[n]], Socket(user[n])), UNCHANGED <<own, tasks, worker, cur>>,
         \A k \in Kinds : StillOpen(k)' <=> StillOpen(k),
         \/ /\ fd' = [fd EXCEPT ![user[n]] = 0] /\ user' = [user EXCEPT ![n] = Nobody]
            /\ pc' # "erase"
         \/ UNCHANGED <<fd, user>> /\ n = cur /\ pc' = "erase"
  PROVE  TableRight' /\ table'[n] = Free
<1> USE DescriptorsAssumption, ThingsDiffer
<1> DEFINE c == user[n]
<1>1. c \in Client /\ fd[c] = n /\ n # 0 /\ table[n] = Socket(c)
  BY DEF TableRight, UsersKnown, SocketsKnown, TypeOK, Number
<1>2. /\ table' = [table EXCEPT ![n] = Free] /\ stray' = {}
      /\ \A i \in Number : table'[i] = IF i = n THEN Free ELSE table[i]
  BY <1>1 DEF CloseCall, TableRight, TypeOK
<1>3. \/ /\ \A d \in Client : fd'[d] = IF d = c THEN 0 ELSE fd[d]
         /\ \A i \in Number : user'[i] = IF i = n THEN Nobody ELSE user[i]
         /\ pc' # "erase"
      \/ fd' = fd /\ user' = user /\ n = cur' /\ pc' = "erase"
  BY DEF TypeOK
<1> HIDE DEF c
<1>4. OwnKnown'
  <2> SUFFICES ASSUME NEW k \in Kinds, own[k] # 0, StillOpen(k)
               PROVE  table'[own[k]] = Kernel(k)
    BY DEF OwnKnown
  <2>1. table[own[k]] = Kernel(k)
    BY DEF TableRight, OwnKnown
  <2> QED  BY <1>1, <1>2, <2>1 DEF TypeOK
<1>5. SocketsKnown'
  <2> SUFFICES ASSUME NEW d \in Client, fd'[d] # 0, ~(pc' = "erase" /\ d = user'[cur'])
               PROVE  table'[fd'[d]] = Socket(d)
    BY DEF SocketsKnown
  <2>1. d # c /\ fd'[d] = fd[d]
    BY <1>3 DEF c
  <2>2. table[fd[d]] = Socket(d) /\ fd[d] \in Number
    BY <2>1 DEF TableRight, SocketsKnown, TypeOK, Number
  <2> QED  BY <1>1, <1>2, <2>1, <2>2
<1>6. FilesKnown'
  <2> SUFFICES ASSUME NEW w \in Worker, worker[w].file # 0
               PROVE  table'[worker[w].file] = File(w)
    BY DEF FilesKnown
  <2>1. table[worker[w].file] = File(w) /\ worker[w].file \in Number
    BY DEF TableRight, FilesKnown, TypeOK, Number
  <2> QED  BY <1>1, <1>2, <2>1
<1>7. AllOwned'
  <2> SUFFICES ASSUME NEW i \in Number, i # n PROVE Owned(i)'
    BY <1>2 DEF AllOwned, Owned
  <2>1. Owned(i) /\ table'[i] = table[i]
    BY <1>2 DEF TableRight, AllOwned
  <2>2. ASSUME NEW d \in Client, table[i] = Socket(d), fd[d] = i, Held(d) PROVE Owned(i)'
    <3>1. d # c
      BY <1>1, <2>2
    <3>2. fd'[d] = i
      BY <1>3, <2>2, <3>1
    <3>3. HeldNext(d)
      BY <1>3, <2>2, <3>1 DEF Held, HeldByTask, HeldNext, c
    <3> QED  BY <2>1, <2>2, <3>2, <3>3, HeldNextIsHeld DEF Owned
  <2> QED  BY <2>1, <2>2 DEF Owned
<1>8. UsersKnown'
  <2> SUFFICES ASSUME NEW i \in Number, user'[i] # Nobody PROVE fd'[user'[i]] = i
    BY DEF UsersKnown
  <2>1. user'[i] = user[i] /\ user[i] \in Client /\ fd[user[i]] = i
    BY <1>3 DEF TableRight, UsersKnown, TypeOK
  <2>2. CASE fd' = fd
    BY <2>1, <2>2
  <2>3. CASE fd' # fd
    <3>1. i # n
      BY <1>3, <2>1, <2>3
    <3>2. user[i] # c
      BY <1>1, <2>1, <3>1
    <3> QED  BY <1>3, <2>1, <2>3, <3>2
  <2> QED  BY <2>2, <2>3
<1> QED  BY <1>2, <1>4, <1>5, <1>6, <1>7, <1>8 DEF TableRight

(* erase() after a failed addfd: the destructor closes a number that is    *)
(* still free, because nothing was opened in between.                      *)
LEMMA TableAfterErase ==
  ASSUME TypeOK, TableRight, Accepting, EraseNotAdded
  PROVE  TableRight'
<1> USE DescriptorsAssumption, ThingsDiffer
<1> DEFINE c == user[cur]
<1>1. /\ pc = "erase" /\ pc' = "loop" /\ cur \in Number /\ c # Nobody /\ ~HeldByTask(c)
      /\ table[cur] = Free /\ user' = [user EXCEPT ![cur] = Nobody] /\ Dropped(c)
      /\ UNCHANGED <<tasks, worker, own, cur>>
  BY DEF EraseNotAdded, Accepting
<1>2. c \in Client /\ fd[c] = cur /\ cur # 0
  BY <1>1 DEF TableRight, UsersKnown, TypeOK, Number
<1>3. \A n \in Number : user'[n] = IF n = cur THEN Nobody ELSE user[n]
  BY <1>1 DEF TypeOK
<1>4. ~HeldNext(c)
  <2>1. \A n \in Number : user'[n] # c
    BY <1>1, <1>2, <1>3 DEF TableRight, UsersKnown
  <2> QED  BY <1>1, <2>1 DEF HeldNext, HeldByTask
<1>5. /\ table' = [table EXCEPT ![cur] = Free] /\ stray' = stray
      /\ fd' = [fd EXCEPT ![c] = 0]
  BY <1>1, <1>2, <1>4 DEF Dropped, CloseCall
<1>6. table' = table
  BY <1>1, <1>5 DEF TypeOK
<1>7. \A d \in Client : fd'[d] = IF d = c THEN 0 ELSE fd[d]
  BY <1>5 DEF TypeOK
<1>8. \A k \in Kinds : StillOpen(k)' <=> StillOpen(k)
  BY <1>1 DEF StillOpen, Running, Kinds
<1> HIDE DEF c
<1>9. OwnKnown' /\ FilesKnown' /\ stray' = {}
  BY <1>1, <1>5, <1>6, <1>8 DEF TableRight, OwnKnown, FilesKnown
<1>10. SocketsKnown'
  BY <1>6, <1>7 DEF TableRight, SocketsKnown, c
<1>11. UsersKnown'
  BY <1>2, <1>3, <1>7 DEF TableRight, UsersKnown, TypeOK
<1>12. AllOwned'
  <2> SUFFICES ASSUME NEW n \in Number PROVE Owned(n)'
    BY DEF AllOwned
  <2>1. Owned(n)
    BY DEF TableRight, AllOwned
  <2>2. ASSUME NEW d \in Client, table[n] = Socket(d), fd[d] = n, Held(d) PROVE Owned(n)'
    <3>1. d # c
      BY <1>1, <1>2, <2>2
    <3>2. HeldNext(d)
      BY <1>1, <1>3, <2>2, <3>1 DEF Held, HeldByTask, HeldNext, c
    <3> QED  BY <1>6, <1>7, <2>2, <3>1, <3>2, HeldNextIsHeld DEF Owned
  <2> QED  BY <1>1, <1>6, <1>8, <2>1, <2>2 DEF Owned
<1> QED  BY <1>9, <1>10, <1>11, <1>12 DEF TableRight

(* A worker opens a file, and closes it.                                   *)
LEMMA TableAfterFile ==
  ASSUME TypeOK, TableRight, NEW w \in Worker, OpenFile(w) \/ CloseFile(w)
  PROVE  TableRight'
<1> USE DescriptorsAssumption, ThingsDiffer
<1> DEFINE file == IF OpenFile(w) THEN Min(FreeNumbers) ELSE 0
           m == IF OpenFile(w) THEN Min(FreeNumbers) ELSE worker[w].file
           what == IF OpenFile(w) THEN File(w) ELSE Free
<1>0. /\ OpenFile(w) => worker[w].at = "process"
      /\ ~OpenFile(w) => CloseFile(w) /\ worker[w].at = "file"
  BY DEF OpenFile, CloseFile
<1>1. /\ m \in Number /\ table[m] \in {Free, File(w)}
      /\ ~OpenFile(w) => table[m] = File(w) /\ worker[w].file = m
  <2>1. CASE OpenFile(w)
    BY <2>1, NewNumber DEF OpenFile, Opens
  <2>2. CASE ~OpenFile(w)
    <3>1. worker[w].file # 0 /\ worker[w].file \in 0..MaxFd
      BY <1>0, <2>2 DEF TypeOK
    <3> QED  BY <2>2, <3>1 DEF TableRight, FilesKnown, Number
  <2> QED  BY <2>1, <2>2
<1>2. table' = [table EXCEPT ![m] = what] /\ stray' = stray
  <2>1. CASE OpenFile(w)
    BY <2>1 DEF OpenFile, Opens
  <2>2. CASE ~OpenFile(w)
    BY <1>0, <1>1, <2>2 DEF CloseFile, CloseCall
  <2> QED  BY <2>1, <2>2
<1>3. /\ \A v \in Worker \ {w} : worker'[v] = worker[v]
      /\ worker'[w].file = file /\ worker'[w].task = worker[w].task
  BY <1>0, WorkerSteps DEF TypeOK
<1>4. /\ UNCHANGED <<pc, own, cur, fd, user, tasks>>
      /\ what \in {Free, File(w)}
      /\ IF what = Free THEN file = 0 ELSE what = File(w) /\ file = m
  BY <1>0 DEF OpenFile, CloseFile
<1> HIDE DEF file, m, what
<1>5. \A n \in Number : table'[n] = IF n = m THEN what ELSE table[n]
  BY <1>1, <1>2 DEF TypeOK
<1>6. OwnKnown'
  <2> SUFFICES ASSUME NEW k \in Kinds, own[k] # 0, StillOpen(k)
               PROVE  table'[own[k]] = Kernel(k)
    BY <1>4 DEF OwnKnown, StillOpen
  <2>1. table[own[k]] = Kernel(k)
    BY DEF TableRight, OwnKnown
  <2> QED  BY <1>1, <1>2, <2>1 DEF TypeOK
<1>7. SocketsKnown'
  <2> SUFFICES ASSUME NEW d \in Client, fd[d] # 0, ~(pc = "erase" /\ d = user[cur])
               PROVE  table'[fd[d]] = Socket(d)
    BY <1>4 DEF SocketsKnown
  <2>1. table[fd[d]] = Socket(d) /\ fd[d] \in Number
    BY DEF TableRight, SocketsKnown, TypeOK, Number
  <2> QED  BY <1>1, <1>5, <2>1
<1>8. FilesKnown'
  <2> SUFFICES ASSUME NEW v \in Worker, worker'[v].file # 0
               PROVE  table'[worker'[v].file] = File(v)
    BY DEF FilesKnown
  <2>1. CASE v = w
    BY <1>1, <1>3, <1>4, <1>5, <2>1
  <2>2. CASE v # w
    <3>1. worker'[v].file = worker[v].file /\ worker[v].file \in Number
          /\ table[worker[v].file] = File(v)
      BY <1>3, <2>2 DEF TableRight, FilesKnown, TypeOK, Number
    <3> QED  BY <1>1, <1>5, <2>2, <3>1
  <2> QED  BY <2>1, <2>2
<1>9. AllOwned'
  <2> SUFFICES ASSUME NEW n \in Number PROVE Owned(n)'
    BY DEF AllOwned
  <2>1. CASE n = m
    BY <1>3, <1>4, <1>5, <2>1 DEF Owned
  <2>2. CASE n # m
    <3>1. Owned(n) /\ table'[n] = table[n]
      BY <1>5, <2>2 DEF TableRight, AllOwned
    <3>2. ASSUME NEW v \in Worker, table[n] = File(v), worker[v].file = n PROVE Owned(n)'
      <4>1. v # w
        <5> SUFFICES ASSUME v = w PROVE FALSE
          OBVIOUS
        <5>1. worker[w].at = "file"
          BY <3>2 DEF TypeOK, Number
        <5> QED  BY <1>0, <1>1, <2>2, <3>2, <5>1
      <4> QED  BY <1>3, <3>1, <3>2, <4>1 DEF Owned
    <3>3. ASSUME NEW d \in Client, table[n] = Socket(d), fd[d] = n, Held(d) PROVE Owned(n)'
      <4>1. HeldNext(d)
        BY <1>3, <1>4, <3>3 DEF Held, HeldByTask, HeldNext
      <4> QED  BY <1>4, <3>1, <3>3, <4>1, HeldNextIsHeld DEF Owned
    <3> QED  BY <1>4, <3>1, <3>2, <3>3 DEF Owned, StillOpen
  <2> QED  BY <2>1, <2>2
<1>10. UsersKnown' /\ stray' = {}
  BY <1>2, <1>4 DEF TableRight, UsersKnown
<1> QED  BY <1>6, <1>7, <1>8, <1>9, <1>10 DEF TableRight

-----------------------------------------------------------------------------
(* What a step does to the queue and to the tasks of the workers.          *)
LEMMA TaskPopped ==
  ASSUME TypeOK, NEW w \in Worker, Pop(w)
  PROVE  /\ \A c \in Client : HeldByTask(c)' => HeldByTask(c)
         /\ \A c \in Client : c # worker[w].task.conn /\ Held(c) => HeldNext(c)
         /\ \A v \in Worker : worker'[v].file = worker[v].file
<1>1. /\ tasks \in Seq(Tasks) /\ tasks # <<>> /\ tasks' = Tail(tasks)
      /\ \A v \in Worker \ {w} : worker'[v] = worker[v]
      /\ worker'[w].task = Head(tasks) /\ worker'[w].file = 0 /\ worker[w].file = 0
      /\ user' = user
  <2>1. worker' = [worker EXCEPT ![w] = [at |-> "popped", task |-> Head(tasks), file |-> 0]]
    BY WorkerSteps
  <2>2. worker[w].file = 0
    BY DEF Pop, TypeOK
  <2> QED  BY <2>1, <2>2 DEF Pop, TypeOK
<1>2. /\ Head(tasks) = tasks[1] /\ Len(tasks) \in Nat /\ Len(tasks) >= 1
      /\ Len(tasks') = Len(tasks) - 1
      /\ \A i \in 1..Len(tasks') : tasks'[i] = tasks[i + 1]
  BY <1>1, HeadTailProperties, LenProperties, EmptySeq
<1>3. ASSUME NEW c \in Client, HeldByTask(c)' PROVE HeldByTask(c)
  <2>1. CASE \E i \in 1..Len(tasks') : tasks'[i].conn = c
    <3>1. PICK i \in 1..Len(tasks') : tasks'[i].conn = c
      BY <2>1
    <3>2. i + 1 \in 1..Len(tasks) /\ tasks[i + 1].conn = c
      BY <1>2, <3>1
    <3> QED  BY <3>2 DEF HeldByTask
  <2>2. CASE worker'[w].task.conn = c
    <3>1. 1 \in 1..Len(tasks) /\ tasks[1].conn = c
      BY <1>1, <1>2, <2>2
    <3> QED  BY <3>1 DEF HeldByTask
  <2>3. CASE \E v \in Worker \ {w} : worker'[v].task.conn = c
    BY <1>1, <2>3 DEF HeldByTask
  <2> QED  BY <1>3, <2>1, <2>2, <2>3 DEF HeldByTask
<1>4. ASSUME NEW c \in Client, c # worker[w].task.conn, Held(c) PROVE HeldNext(c)
  <2>1. CASE \E i \in 1..Len(tasks) : tasks[i].conn = c
    <3>1. PICK i \in 1..Len(tasks) : tasks[i].conn = c
      BY <2>1
    <3>2. CASE i = 1
      BY <1>1, <1>2, <3>1, <3>2 DEF HeldNext
    <3>3. CASE i # 1
      <4>1. i - 1 \in 1..Len(tasks') /\ tasks'[i - 1] = tasks[i]
        BY <1>2, <3>3
      <4> QED  BY <3>1, <4>1 DEF HeldNext
    <3> QED  BY <3>2, <3>3
  <2>2. CASE \E v \in Worker : worker[v].task.conn = c
    BY <1>1, <1>4, <2>2 DEF HeldNext
  <2>3. CASE \E n \in Number : user[n] = c
    BY <1>1, <2>3 DEF HeldNext
  <2> QED  BY <1>4, <2>1, <2>2, <2>3 DEF Held, HeldByTask
<1> QED  BY <1>1, <1>3, <1>4

(* ... and what the end of a worker, or of the queue, does.                *)
LEMMA TaskDestroyed ==
  ASSUME TypeOK, DestroyTask
  PROVE  /\ Head(tasks).conn \in Client \cup {Nobody}
         /\ \A c \in Client : c # Head(tasks).conn /\ Held(c) => HeldNext(c)
<1>1. /\ tasks \in Seq(Tasks) /\ tasks # <<>> /\ tasks' = Tail(tasks) /\ UNCHANGED <<user, worker>>
  BY DEF DestroyTask, TypeOK
<1>2. /\ Head(tasks) = tasks[1] /\ Len(tasks) \in Nat /\ Head(tasks) \in Tasks
      /\ Len(tasks') = Len(tasks) - 1
      /\ \A i \in 1..Len(tasks') : tasks'[i] = tasks[i + 1]
  BY <1>1, HeadTailProperties, LenProperties
<1>3. ASSUME NEW c \in Client, c # Head(tasks).conn, Held(c) PROVE HeldNext(c)
  <2>1. ASSUME NEW i \in 1..Len(tasks), tasks[i].conn = c PROVE HeldNext(c)
    <3>1. i # 1
      BY <1>2, <1>3, <2>1
    <3>2. i - 1 \in 1..Len(tasks') /\ tasks'[i - 1] = tasks[i]
      BY <1>2, <3>1
    <3> QED  BY <2>1, <3>2 DEF HeldNext
  <2> QED  BY <1>1, <1>3, <2>1 DEF Held, HeldByTask, HeldNext
<1> QED  BY <1>2, <1>3 DEF Tasks

(* handleRead only adds a reference.                                       *)
LEMMA TaskAdded ==
  ASSUME TypeOK, NEW n \in Number, HandleRead(n)
  PROVE  \A c \in Client : Held(c) => HeldNext(c)
<1> DEFINE task == [conn |-> user[n], number |-> n]
<1>1. task \in Tasks
  BY DescriptorsAssumption DEF TypeOK, Tasks, Number
<1>2. tasks' = Append(tasks, task) /\ UNCHANGED <<user, worker>>
  BY DEF HandleRead
<1> HIDE DEF task
<1>3. Len(tasks') = Len(tasks) + 1 /\ Len(tasks) \in Nat
      /\ \A i \in 1..Len(tasks) : tasks'[i] = tasks[i]
  BY <1>1, <1>2, AppendProperties, LenProperties DEF TypeOK
<1>4. \A i \in 1..Len(tasks) : i \in 1..Len(tasks')
  BY <1>3
<1> QED  BY <1>2, <1>3, <1>4 DEF Held, HeldByTask, HeldNext

(* Every step keeps the table right, unless it takes the number that a     *)
(* failed addfd has closed and is about to close again.                    *)
LEMMA TableRightStep ==
  ASSUME TypeOK, TypeOK', Safe, [Next]_vars, ~reopened'
  PROVE  TableRight'
<1> USE DescriptorsAssumption DEF Safe
<1>1. CASE UNCHANGED vars
  BY <1>1, TableKept DEF vars, connVars, StillOpen, Held, HeldByTask, HeldNext
<1>2. CASE Startup
  <2>1. CASE UNCHANGED <<table, own, stray>>
    <3>1. /\ pc \in Running /\ pc' \in Running /\ pc # "erase" /\ pc' # "erase"
          /\ UNCHANGED <<cur, connVars>>
      BY <1>2 DEF Startup, Construct, CreateWakeup, AddWakeup, CreateSocket, Listen, Running
    <3>2. \A k \in Kinds : StillOpen(k)' <=> StillOpen(k)
      BY <3>1 DEF StillOpen, Kinds
    <3> QED  BY <2>1, <3>1, <3>2, TableKept DEF connVars, Held, HeldByTask, HeldNext
  <2>2. ASSUME NEW k \in Kinds, Opens(Kernel(k)), own[k] = 0, own'[k] = Min(FreeNumbers),
               \A j \in Kinds \ {k} : own'[j] = own[j], UNCHANGED stray
        PROVE  TableRight'
    <3>1. /\ pc \in Running /\ pc' \in Running /\ pc # "erase" /\ pc' # "erase"
          /\ UNCHANGED <<cur, connVars>>
      BY <1>2 DEF Startup, Construct, CreateWakeup, AddWakeup, CreateSocket, Listen, Running
    <3>2. \A j \in Kinds : (StillOpen(j)' <=> StillOpen(j)) /\ StillOpen(j)'
      BY <3>1 DEF StillOpen, Kinds
    <3> QED  BY <2>2, <3>1, <3>2, TableAfterOpen
  <2>3. ASSUME NEW k \in Kinds, CloseCall(own[k], Kernel(k)), own'[k] = 0,
               \A j \in Kinds \ {k} : own'[j] = own[j]
        PROVE  TableRight'
    <3>1. /\ pc \in Running /\ pc' \in Running /\ pc # "erase" /\ pc' # "erase"
          /\ UNCHANGED <<cur, connVars>>
      BY <1>2 DEF Startup, Construct, CreateWakeup, AddWakeup, CreateSocket, Listen, Running
    <3>2. \A j \in Kinds : (StillOpen(j)' <=> StillOpen(j)) /\ StillOpen(j)
      BY <3>1 DEF StillOpen, Kinds
    <3> QED  BY <2>3, <3>1, <3>2, TableAfterClose
  <2>4. CASE Construct
    BY <2>1, <2>2, <2>4 DEF Construct, Stages, TypeOK, Kinds
  <2>5. CASE CreateWakeup
    BY <2>1, <2>2, <2>5 DEF CreateWakeup, Stages, TypeOK, Kinds
  <2>6. CASE AddWakeup
    BY <2>1, <2>3, <2>6 DEF AddWakeup, NoCall, TypeOK, Kinds
  <2>7. CASE CreateSocket
    BY <2>1, <2>2, <2>7 DEF CreateSocket, Stages, TypeOK, Kinds
  <2>8. CASE Listen
    BY <2>1, <2>3, <2>8 DEF Listen, ListenFails, NoCall, TypeOK, Kinds
  <2> QED  BY <1>2, <2>4, <2>5, <2>6, <2>7, <2>8 DEF Startup
<1>3. CASE Loop
  <2>1. ASSUME NEW c \in Client, Accept(c) PROVE TableRight'
    BY <2>1, TableAfterAccept
  <2>2. CASE AddFd \/ HandleWakeup \/ LoopEnds
    <3>1. \A k \in Kinds : StillOpen(k)' <=> StillOpen(k)
      BY <2>2 DEF AddFd, HandleWakeup, LoopEnds, StillOpen, Running, Kinds
    <3> QED
      BY <2>2, <3>1, TableKept DEF AddFd, HandleWakeup, LoopEnds, connVars, Held, HeldByTask,
         HeldNext
  <2>3. CASE AddFdFails
    <3>1. /\ pc = "addfd" /\ pc' = "erase" /\ cur \in Number /\ user[cur] # Nobody
          /\ CloseCall(cur, Socket(user[cur])) /\ UNCHANGED <<own, cur, connVars>>
      BY <2>3 DEF AddFdFails, Accepting
    <3>2. fd[user[cur]] = cur
      BY <3>1 DEF TableRight, UsersKnown
    <3>3. \A k \in Kinds : StillOpen(k)' <=> StillOpen(k)
      BY <3>1 DEF StillOpen, Running, Kinds
    <3> QED  BY <3>1, <3>2, <3>3, TableAfterClientClosed DEF connVars
  <2>4. CASE EraseNotAdded
    BY <2>4, TableAfterErase
  <2>5. ASSUME NEW n \in Number, CloseConn(n) PROVE TableRight'
    BY <2>5, TableAfterClientClosed DEF CloseConn, GivingUp, StillOpen
  <2>6. ASSUME NEW n \in Number, HandleRead(n) PROVE TableRight'
    BY <2>6, TaskAdded, TableKept DEF HandleRead, StillOpen
  <2> QED  BY <1>3, <2>1, <2>2, <2>3, <2>4, <2>5, <2>6 DEF Loop
<1>4. ASSUME NEW w \in Worker, Pop(w) PROVE TableRight'
  <2>1. worker[w].task.conn \in Client \cup {Nobody}
    BY DEF TypeOK, Tasks
  <2>2. /\ Dropped(worker[w].task.conn) /\ UNCHANGED <<pc, own, cur, user>>
        /\ \A n \in Number : user'[n] \in {user[n], Nobody}
    BY <1>4 DEF Pop
  <2> QED  BY <1>4, <2>1, <2>2, TaskPopped, TableAfterDrop DEF Accepting
<1>5. ASSUME NEW w \in Worker, BeginProcess(w) \/ EndProcess(w) \/ Report(w) PROVE TableRight'
  <2>1. /\ UNCHANGED <<pc, table, own, cur, fd, user, tasks, stray>>
        /\ \A v \in Worker : worker'[v].task = worker[v].task /\ worker'[v].file = worker[v].file
    <3>1. \A v \in Worker : worker'[v].task = worker[v].task /\ worker'[v].file = worker[v].file
      <4>1. worker[w].file = 0
        BY <1>5 DEF BeginProcess, EndProcess, Report, TypeOK
      <4>2. \E place \in WorkerPlaces : worker' = [worker EXCEPT ![w] =
                                         [at |-> place, task |-> worker[w].task, file |-> 0]]
        BY <1>5, WorkerSteps DEF WorkerPlaces
      <4> QED  BY <4>1, <4>2 DEF TypeOK
    <3> QED  BY <1>5, <3>1 DEF BeginProcess, EndProcess, Report
  <2> QED  BY <2>1, TableKept DEF StillOpen, Held, HeldByTask, HeldNext
<1>6. ASSUME NEW w \in Worker, OpenFile(w) \/ CloseFile(w) PROVE TableRight'
  BY <1>6, TableAfterFile
<1>7. ASSUME NEW w \in Worker, WorkerEnds(w) PROVE TableRight'
  <2>1. worker[w].task.conn \in Client \cup {Nobody}
    BY DEF TypeOK, Tasks
  <2>2. /\ Dropped(worker[w].task.conn) /\ UNCHANGED <<pc, own, cur, user, tasks>>
        /\ \A n \in Number : user'[n] \in {user[n], Nobody}
        /\ \A v \in Worker : worker'[v].file = worker[v].file
        /\ \A v \in Worker \ {w} : worker'[v] = worker[v]
    BY <1>7 DEF WorkerEnds, TypeOK
  <2>3. \A d \in Client : d # worker[w].task.conn /\ Held(d) => HeldNext(d)
    BY <2>2 DEF Held, HeldByTask, HeldNext
  <2> QED  BY <2>1, <2>2, <2>3, TableAfterDrop DEF Accepting
<1>8. CASE Shutdown
  <2>1. ASSUME NEW k \in Kinds, CloseCall(own[k], Kernel(k)), StillOpen(k), ~StillOpen(k)',
               \A j \in Kinds \ {k} : StillOpen(j)' <=> StillOpen(j),
               UNCHANGED <<own, cur, connVars>>, pc # "erase", pc' # "erase"
        PROVE  TableRight'
    BY <2>1, TableAfterClose
  <2>2. CASE CloseServer
    BY <2>1, <2>2 DEF CloseServer, StillOpen, Running, Kinds
  <2>3. CASE CloseWakeup
    BY <2>1, <2>3 DEF CloseWakeup, StillOpen, Running, Kinds
  <2>4. CASE DestroyEpoller
    BY <2>1, <2>4 DEF DestroyEpoller, StillOpen, Running, Kinds
  <2>5. ASSUME NEW n \in Number, DestroyUser(n) PROVE TableRight'
    <3>1. /\ pc = "users" /\ user[n] \in Client \cup {Nobody} /\ Dropped(user[n])
          /\ user' = [user EXCEPT ![n] = Nobody] /\ UNCHANGED <<pc, own, cur, tasks, worker>>
      BY <2>5 DEF DestroyUser, TypeOK
    <3>2. \A i \in Number : user'[i] = IF i = n THEN Nobody ELSE user[i]
      BY <3>1 DEF TypeOK
    <3>3. \A d \in Client : d # user[n] /\ Held(d) => HeldNext(d)
      BY <3>1, <3>2 DEF Held, HeldByTask, HeldNext
    <3> QED  BY <3>1, <3>2, <3>3, TableAfterDrop
  <2>6. CASE StopPool \/ Join \/ Exit
    <3>1. \A k \in Kinds : StillOpen(k)' <=> StillOpen(k)
      BY <2>6 DEF StopPool, Join, Exit, StillOpen, Running, Kinds
    <3> QED
      BY <2>6, <3>1, TableKept DEF StopPool, Join, Exit, connVars, Held, HeldByTask, HeldNext
  <2>7. CASE DestroyTask
    <3>1. /\ pc = "tasks" /\ Dropped(Head(tasks).conn) /\ UNCHANGED <<pc, own, cur, user, worker>>
      BY <2>7 DEF DestroyTask
    <3> QED  BY <2>7, <3>1, TaskDestroyed, TableAfterDrop
  <2> QED  BY <1>8, <2>2, <2>3, <2>4, <2>5, <2>6, <2>7 DEF Shutdown
<1> QED
  BY <1>1, <1>2, <1>3, <1>4, <1>5, <1>6, <1>7, <1>8 DEF Next, Pool, Terminated

(* While the loop registers a connection, nobody else gets hold of it, and *)
(* nobody but a worker that opens a file could take the number meanwhile.  *)
LEMMA AcceptingStep ==
  ASSUME TypeOK, Safe, [Next]_vars, ~reopened'
  PROVE  Accepting'
<1> USE DescriptorsAssumption, ThingsDiffer DEF Safe
<1>1. ASSUME UNCHANGED <<pc, cur, user>>,
             \A c \in Client : HeldByTask(c)' => HeldByTask(c),
             pc = "erase" /\ table[cur] = Free => table'[cur] = Free
      PROVE  Accepting'
  <2> SUFFICES ASSUME pc \in {"addfd", "erase"} PROVE Accepting'
    BY <1>1 DEF Accepting
  <2>1. /\ cur \in Number /\ user[cur] # Nobody /\ ~HeldByTask(user[cur])
        /\ pc = "erase" => table'[cur] = Free
    BY <1>1 DEF Accepting
  <2>2. user[cur] \in Client
    BY <2>1 DEF TypeOK
  <2> DEFINE c == user[cur]
  <2> HIDE DEF c
  <2>3. ~HeldByTask(c)'
    BY <1>1, <2>1, <2>2 DEF c
  <2>4. ~HeldByTask(user[cur])'
    BY <1>1, <2>3 DEF HeldByTask, c
  <2> QED  BY <1>1, <2>1, <2>4 DEF Accepting
<1>2. CASE UNCHANGED vars
  BY <1>1, <1>2 DEF vars, connVars, HeldByTask
<1>3. CASE Startup
  BY <1>3 DEF Startup, Construct, CreateWakeup, AddWakeup, CreateSocket, Listen, Accepting
<1>4. ASSUME NEW c \in Client, Accept(c) PROVE Accepting'
  <2>1. cur' \in Number /\ user'[cur'] = c
    BY <1>4, TableAfterAccept
  <2>2. ~HeldByTask(c) /\ UNCHANGED <<tasks, worker>> /\ pc' = "addfd"
    BY <1>4 DEF Accept, Held
  <2>3. ~HeldByTask(user[cur])'
    BY <2>1, <2>2 DEF HeldByTask
  <2> QED  BY <2>1, <2>2, <2>3 DEF Accepting
<1>5. CASE AddFdFails
  <2>1. table'[cur] = Free
    BY <1>5 DEF AddFdFails, CloseCall, Accepting, TypeOK
  <2>2. /\ pc = "addfd" /\ UNCHANGED <<cur, user, tasks, worker>>
    BY <1>5 DEF AddFdFails, connVars
  <2> QED  BY <2>1, <2>2 DEF Accepting, HeldByTask
<1>6. CASE AddFd \/ EraseNotAdded \/ HandleWakeup \/ LoopEnds
  BY <1>6 DEF AddFd, EraseNotAdded, HandleWakeup, LoopEnds, Accepting
<1>7. ASSUME NEW n \in Number, CloseConn(n) \/ HandleRead(n) PROVE Accepting'
  BY <1>7 DEF CloseConn, HandleRead, Accepting
<1>8. ASSUME NEW w \in Worker, Pop(w) PROVE Accepting'
  <2>1. worker[w].task.conn \in Client \cup {Nobody} /\ Dropped(worker[w].task.conn)
        /\ UNCHANGED <<pc, own, cur, user>>
    BY <1>8 DEF Pop, TypeOK, Tasks
  <2>2. \A n \in Number : table[n] = Free => table'[n] = Free
    BY <1>8, <2>1, TaskPopped, TableAfterDrop DEF Accepting
  <2> QED  BY <1>1, <1>8, <2>1, <2>2, TaskPopped DEF Accepting
<1>9. ASSUME NEW w \in Worker, BeginProcess(w) \/ EndProcess(w) \/ Report(w) PROVE Accepting'
  <2>1. \E place \in WorkerPlaces : worker' = [worker EXCEPT ![w] =
                                      [at |-> place, task |-> worker[w].task, file |-> 0]]
    BY <1>9, WorkerSteps DEF WorkerPlaces
  <2>2. \A v \in Worker : worker'[v].task = worker[v].task
    BY <2>1 DEF TypeOK
  <2>3. UNCHANGED <<pc, cur, user, tasks, table>>
    BY <1>9 DEF BeginProcess, EndProcess, Report
  <2> QED  BY <1>1, <2>2, <2>3 DEF HeldByTask
<1>10. ASSUME NEW w \in Worker, OpenFile(w) \/ CloseFile(w) PROVE Accepting'
  <2>1. \E place \in WorkerPlaces : \E file : worker' = [worker EXCEPT ![w] =
                                      [at |-> place, task |-> worker[w].task, file |-> file]]
    BY <1>10, WorkerSteps DEF WorkerPlaces
  <2>2. \A v \in Worker : worker'[v].task = worker[v].task
    BY <2>1 DEF TypeOK
  <2>3. UNCHANGED <<pc, cur, user, tasks>>
    BY <1>10 DEF OpenFile, CloseFile
  <2>4. pc = "erase" /\ table[cur] = Free => table'[cur] = Free
    <3>1. CASE OpenFile(w)
      <4>1. pc = "erase" => Min(FreeNumbers) # cur
        BY <3>1 DEF OpenFile
      <4>2. table' = [table EXCEPT ![Min(FreeNumbers)] = File(w)] /\ Min(FreeNumbers) \in Number
        BY <3>1, NewNumber DEF OpenFile, Opens
      <4>3. pc = "erase" => cur \in Number
        BY DEF Accepting
      <4> QED  BY <4>1, <4>2, <4>3 DEF TypeOK
    <3>2. CASE CloseFile(w)
      <4>1. table' = table \/ table' = [table EXCEPT ![worker[w].file] = Free]
        BY <3>2 DEF CloseFile, CloseCall
      <4>2. pc = "erase" => cur \in Number
        BY DEF Accepting
      <4> QED  BY <4>1, <4>2 DEF TypeOK
    <3> QED  BY <1>10, <3>1, <3>2
  <2> QED  BY <1>1, <2>2, <2>3, <2>4 DEF HeldByTask
<1>11. ASSUME NEW w \in Worker, WorkerEnds(w) PROVE Accepting'
  <2>1. worker[w].task.conn \in Client \cup {Nobody} /\ NoTask.conn = Nobody
    BY DEF TypeOK, Tasks, NoTask
  <2>2. /\ Dropped(worker[w].task.conn) /\ UNCHANGED <<pc, own, cur, user, tasks>>
        /\ \A n \in Number : user'[n] \in {user[n], Nobody}
        /\ \A v \in Worker : worker'[v].file = worker[v].file
        /\ \A v \in Worker \ {w} : worker'[v] = worker[v]
        /\ worker'[w].task = NoTask
    BY <1>11 DEF WorkerEnds, TypeOK
  <2>3. \A d \in Client : d # worker[w].task.conn /\ Held(d) => HeldNext(d)
    BY <2>2 DEF Held, HeldByTask, HeldNext
  <2>4. \A n \in Number : table[n] = Free => table'[n] = Free
    BY <2>1, <2>2, <2>3, TableAfterDrop DEF Accepting
  <2>5. \A c \in Client : HeldByTask(c)' => HeldByTask(c)
    BY <2>1, <2>2 DEF HeldByTask
  <2> QED  BY <1>1, <2>2, <2>4, <2>5 DEF Accepting
<1>12. CASE Shutdown
  <2>1. pc' \notin {"addfd", "erase"}
    BY <1>12 DEF Shutdown, CloseServer, CloseWakeup, DestroyUser, DestroyEpoller, StopPool, Join,
       DestroyTask, Exit
  <2> QED  BY <2>1 DEF Accepting
<1> QED
  BY <1>2, <1>3, <1>4, <1>5, <1>6, <1>7, <1>8, <1>9, <1>10, <1>11, <1>12
  DEF Next, Loop, Pool, Terminated

(* The server starts with nothing, and ends in the order of ~WebServer.    *)
LEMMA StagesStep ==
  ASSUME TypeOK, Safe, [Next]_vars
  PROVE  Stages'
<1> USE DescriptorsAssumption DEF Safe
<1>1. ASSUME UNCHANGED <<pc, own, user, tasks, worker>> PROVE Stages'
  BY <1>1 DEF Stages
<1>2. CASE Startup
  BY <1>2 DEF Startup, Construct, CreateWakeup, AddWakeup, CreateSocket, Listen, ListenFails,
     connVars, Stages, TypeOK
<1>3. CASE Loop
  BY <1>3 DEF Loop, Accept, AddFd, AddFdFails, EraseNotAdded, CloseConn, HandleRead,
     HandleWakeup, LoopEnds, connVars, Stages
<1>4. ASSUME NEW w \in Worker, NEW place \in WorkerPlaces, NEW task, NEW file,
             worker' = [worker EXCEPT ![w] = [at |-> place, task |-> task, file |-> file]],
             worker[w].at # "ended", place = "ended" => task = NoTask,
             UNCHANGED <<pc, own, user>>, tasks = <<>> => tasks' = <<>>
      PROVE  Stages'
  BY <1>4 DEF Stages, TypeOK
<1>5. CASE Pool
  <2> SUFFICES ASSUME NEW w \in Worker,
                      \/ Pop(w) \/ BeginProcess(w) \/ OpenFile(w) \/ CloseFile(w)
                      \/ EndProcess(w) \/ Report(w) \/ WorkerEnds(w)
               PROVE  Stages'
    BY <1>5 DEF Pool
  <2>1. worker[w].at # "ended" /\ UNCHANGED <<pc, own, user>> /\ (tasks = <<>> => tasks' = <<>>)
    BY DEF Pop, BeginProcess, OpenFile, CloseFile, EndProcess, Report, WorkerEnds
  <2>2. PICK place \in WorkerPlaces :
          \E task, file :
            /\ worker' = [worker EXCEPT ![w] = [at |-> place, task |-> task, file |-> file]]
            /\ place = "ended" => task = NoTask
    BY WorkerSteps DEF WorkerPlaces
  <2> QED  BY <1>4, <2>1, <2>2
<1>6. CASE Shutdown
  BY <1>6 DEF Shutdown, CloseServer, CloseWakeup, DestroyUser, DestroyEpoller, StopPool, Join,
     DestroyTask, Exit, connVars, Stages
<1>7. CASE UNCHANGED vars
  BY <1>1, <1>7 DEF vars, connVars
<1> QED  BY <1>2, <1>3, <1>5, <1>6, <1>7 DEF Next, Terminated

(* Everything above at once, and it is inductive.                          *)
THEOREM SafetyHolds == Spec => []SafeUnlessReopened
<1>1. Init => SafeUnlessReopened
  <2> SUFFICES ASSUME Init PROVE Safe
    BY DEF SafeUnlessReopened
  <2>1. OwnKnown /\ SocketsKnown /\ FilesKnown /\ AllOwned /\ UsersKnown
    BY DEF Init, OwnKnown, SocketsKnown, FilesKnown, AllOwned, Owned, UsersKnown, Kinds
  <2> QED  BY <2>1 DEF Init, Safe, TableRight, Accepting, Stages
<1>2. TypeOK /\ TypeOK' /\ SafeUnlessReopened /\ [Next]_vars => SafeUnlessReopened'
  <2> SUFFICES ASSUME TypeOK, TypeOK', SafeUnlessReopened, [Next]_vars, ~reopened' PROVE Safe'
    BY DEF SafeUnlessReopened
  <2>1. ~reopened
    BY DEF Next, Startup, Construct, CreateWakeup, AddWakeup, CreateSocket, Listen, Loop, Accept,
       AddFd, AddFdFails, EraseNotAdded, CloseConn, HandleRead, HandleWakeup, LoopEnds, Pool, Pop,
       BeginProcess, OpenFile, CloseFile, EndProcess, Report, WorkerEnds, Shutdown, CloseServer,
       CloseWakeup, DestroyUser, DestroyEpoller, StopPool, Join, DestroyTask, Exit, Terminated,
       vars
  <2>2. Safe
    BY <2>1 DEF SafeUnlessReopened
  <2> QED  BY <2>2, TableRightStep, AcceptingStep, StagesStep DEF Safe
<1> QED  BY <1>1, <1>2, TypeCorrect, PTL DEF Spec

(* No close() hits the descriptor of somebody else: whoever calls it, on   *)
(* whatever path, closes its own or a number that stands for nothing.      *)
THEOREM OnlyOwnersClose == Spec => []ClosedByOwner
<1>1. SafeUnlessReopened => ClosedByOwner
  BY DEF SafeUnlessReopened, Safe, TableRight, ClosedByOwner
<1> QED  BY <1>1, SafetyHolds, PTL

(* Whatever is open has somebody who is going to close it, and when the    *)
(* process exits nothing is open.                                          *)
THEOREM NothingIsLost == Spec => []NoDescriptorLost
<1>1. TypeOK /\ SafeUnlessReopened => NoDescriptorLost
  <2> SUFFICES ASSUME TypeOK, Safe
               PROVE  /\ \A n \in Number : HasOwner(n)
                      /\ pc = "exit" => \A n \in Number : table[n] = Free
    BY DEF SafeUnlessReopened, NoDescriptorLost
  <2>1. ASSUME NEW n \in Number PROVE HasOwner(n) /\ (pc = "exit" => table[n] = Free)
    <3>0. Owned(n) /\ DOMAIN own = Kinds
      BY DEF Safe, TableRight, AllOwned, TypeOK, Kinds
    <3>1. CASE table[n] = Free
      <4>1. table[n].is = "free"
        BY <3>1 DEF Free
      <4> QED  BY <3>0, <3>1, <4>1 DEF HasOwner, Kinds
    <3>2. ASSUME NEW c \in Client, table[n] = Socket(c), fd[c] = n, Held(c)
          PROVE  HasOwner(n) /\ pc # "exit"
      <4>0. table[n].is = "client" /\ table[n].of = c
        BY <3>2 DEF Socket
      <4>1. HasOwner(n)
        BY <3>0, <3>2, <4>0 DEF HasOwner, Kinds
      <4>2. pc # "exit"
        BY <3>2, DescriptorsAssumption DEF Safe, Stages, Held, HeldByTask, NoTask
      <4> QED  BY <4>1, <4>2
    <3>3. ASSUME NEW w \in Worker, table[n] = File(w), worker[w].file = n
          PROVE  HasOwner(n) /\ pc # "exit"
      <4>0. table[n].is = "file" /\ table[n].of = w
        BY <3>3 DEF File
      <4>1. HasOwner(n)
        BY <3>0, <3>3, <4>0 DEF HasOwner, Kinds
      <4>2. worker[w].at = "file"
        BY <3>3 DEF TypeOK, Number
      <4> QED  BY <4>1, <4>2 DEF Safe, Stages
    <3>4. ASSUME NEW k \in Kinds, table[n] = Kernel(k), own[k] = n, StillOpen(k)
          PROVE  HasOwner(n) /\ pc # "exit"
      <4>1. table[n].is = k
        BY <3>4 DEF Kernel
      <4> QED  BY <3>0, <3>4, <4>1 DEF HasOwner, StillOpen, Running, Kinds
    <3> QED  BY <3>0, <3>1, <3>2, <3>3, <3>4 DEF Owned
  <2> QED  BY <2>1
<1> QED  BY <1>1, TypeCorrect, SafetyHolds, PTL
=============================================================================
