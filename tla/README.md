# Verification of the epoll web server

TLA+ models of the HTTP server in this repository, the TLC runs that check
them, and theorems about them that TLAPS proves. Paths are relative to the
repository; `WebServer.cpp:287` means `src/src/WebServer.cpp` line 287.

    tlc -workers 2 -config WebServer_reuse.cfg MCWebServer     # one run
    tlapm WebServerProofs.tla                                  # one proof

`PROJECT.json` lists the runs, the mutants (one way of breaking the code per
property, each of which TLC catches), the source lines of every definition, the
hazards of the code and the theorems.

## 1. The system

A single thread runs an edge-triggered epoll loop, accepts clients, reads and
writes sockets and keeps the timers. A fixed pool of workers parses requests and
builds responses. Workers talk to a database through a pool of connections, and
everybody logs through one asynchronous logger.

| component | state | operations | talks to |
|---|---|---|---|
| `WebServer` (the reactor) | `user_`, `processing_fds_`, `completed_results_`, the eventfd | `eventLoop`, `handleListen/Read/Write/Wakeup`, `closeConn` | everything below but the database |
| `Epoller` | the epoll instance, the last batch of events | `addfd`, `modfd`, `delfd`, `wait` | kernel |
| `HttpConnection` | `fd_`, read buffer, parser, response, iovec, `mtx_` | `init`, `read`, `process`, `write`, `reset`, `closeConn` | loop and worker, under `mtx_` |
| `HttpRequest`, `HttpResponse` | parse state, two indices, headers, body, form; status, file, buffer | `parse`, `build`, `makeErrorResponse` | owned by the connection |
| `HeapTimer` | `heap_`, `ref_` | `add`, `adjust`, `remove`, `tick`, `getNextTick` | loop; its callbacks are `closeConn` |
| `ThreadPool` | workers, a `BlockingQueue` of tasks | `enqueue`, `workerLoop`, `stop` | loop pushes, workers pop |
| `BlockingQueue` | `queue_`, `closed_`, two condition variables | `push`, `pop`, `close` | thread pool and logger |
| `SqlConnPool`, `SqlConnRAII` | `conn_queue_`, two counters | `getConn`, `freeConn` | workers |
| accounts | the user table, `sessions_`, `session_counter_` | `handleLogin`, `handleRegister`, `handleWhoAmI` | workers, under the HTTP connection's mutex |
| `Logger` | `log_file_`, its date, index and size, a `BlockingQueue`, `initialized_` | `init`, `log`, the worker loop, `stop` | every thread |

A request goes: socket readable → `handleRead` fills the buffer, marks the
descriptor, sets its mask to `kProcessEvent` and queues a task → a worker runs
`process()` under the object's mutex, appends a result to `completed_results_`
and writes to the eventfd → `handleWakeup` takes the results, unmarks each
descriptor and sets its mask to read or write → `handleWrite` sends, then rewinds
the connection or closes it.

What is hard here, and what would make each part correct:

* **Identity.** Events, tasks' results, timers and marks name connections by
  descriptor number, and numbers are reused as soon as one is closed. The tables
  must agree at every step, and what belongs to one connection must not be
  applied to the next.
* **Edge triggering.** A readiness that is not recorded is gone: data that
  arrives while the mask excludes it, results pushed while the eventfd is being
  drained, connections left in the backlog. None may be lost.
* **Threads.** Loop and workers share connection objects; the loop blocks on their
  mutexes and on a full task queue while workers report back to it. One thread
  at a time may work on a connection, and nobody may wait for good.
* **Signals.** The monitors use `notify_one` after each operation. It has to be
  enough; `close()` has to reach everybody.
* **Indices.** The heap moves nodes while a map remembers their places, and
  callbacks remove nodes from below the code that runs them.
* **Segments.** A request may be cut anywhere, a response may leave in any
  pieces, and a kept-alive connection carries parser, buffers and headers from one
  request to the next. Neither the cuts nor the past may show in an answer.
* **Ownership.** Descriptors are numbers, `close` closes whatever has the number,
  and objects live as long as the last table, task or worker that refers to them.
  Each must be closed once, by its owner, on the way down as well.
* **Files.** Rotation goes by a size kept in memory, over restarts, failed opens
  and a logger that is being stopped.

## 2. The modules

| module | models | used by |
|---|---|---|
| `HttpRequest` | the parser as data, over tokens: one operator per method | `HttpConnection` |
| `HttpResponse` | the response builder as data | `HttpConnection` |
| `HttpConnection` | one connection from inside, with its client, its files and the handlers | `MCHttpConnection` |
| `Connection` | `HttpConnection` as the reactor sees it: one operator per method | `WebServer`, `HttpConnection` |
| `WebServer` | the reactor with epoll, descriptor table, timer set, task queue, workers, clients | `MCWebServer`, `WebServerProofs` |
| `BoundedFifo` | abstract: what a blocking queue promises | `BlockingQueue`, `Logger` |
| `BlockingQueue` | the monitor and `ThreadPool::stop` | `BlockingQueueProofs` |
| `TimerSet` | abstract: one deadline per descriptor, earliest due fires | `HeapTimer` |
| `HeapTimer` | the heap, its map, and the loop around them | `HeapTimerProofs` |
| `Logger` | the asynchronous logger and its files, over `BoundedFifo` | `LoggerProofs` |
| `SqlConnPool` | the pool of database handles | `Accounts` |
| `Accounts` | login, registration and sessions over the pool | `MCAccounts` |
| `Descriptors` | the descriptor table of the process, from start to exit | `MCDescriptors` |
| `DataLemmas` | no code: lemmas on numbers, sequences and recursive functions | the proofs |
| `WebServerProofs`, `BlockingQueueProofs`, `HeapTimerProofs`, `HttpConnectionProofs`, `LoggerProofs`, `AccountsProofs`, `DescriptorsProofs` | the theorems about the module of that name (`AccountsProofs`: and its pool) | |

The levels fit together by what each module takes from the one below. `WebServer`
uses the task queue as an atomic bounded queue, and the logger its message queue;
`BlockingQueue` implements `BoundedFifo`, which justifies both. `WebServer` keeps
timers as a set of which any may expire; `HeapTimer` implements `TimerSet`, which
says that what fires is due, and `DueIsClosed` that what is due fires. `WebServer`
takes from `Connection` what an object may do; `HttpConnection`, with the parser and
the response in it, implements that (`ImplementsConnection`). `Descriptors` looks
below `WebServer`: single system calls, and the last references to objects.

### WebServer and Connection

The program counter `pc` follows the event loop: `nexttick` (`getNextTick`, which
ticks), `wait` (`epoll_wait`), `tick`, `dispatch`, and the places inside handlers
where the loop blocks or where a worker may act in between: `accept`, `enqueue`
(the push that blocks), `sent`/`reset`/`close` (handleWrite's calls after
`write()`), `drained`/`results`/`closeresult` (handleWakeup). What happens between
two such places touches either the loop's own tables or one object under its
mutex, and is one step. The worker's steps are pop, lock, process and unlock,
push the result, write to the eventfd.

epoll is modelled from `epoll_ctl(2)` and the way the code uses it: `interest`
holds the mask of a descriptor, `rdl` is the ready list. A descriptor joins the
list when something its mask covers happens to its socket, or when an ADD or MOD
finds it ready; `epoll_wait` reports and empties the list. Descriptor numbers are
a small set, free again after `close`. `EPOLLHUP`, `EPOLLERR` and `EPOLLRDHUP` are
one event, because `eventLoop` treats them alike. Every listed event of one
`epoll_wait` is in the batch (the code asks for up to 1024).

Input is counted in segments, output in units; a request may be complete after any
number of segments, and what the parser and the response builder make of it is
chosen among the outcomes `process()` has: incomplete, bad request (400),
complete but no response built, complete with a response of some length. The
buffer is full at `BufSegs`, where `read()` fails even if nothing was left to
read, as the code does. `isKeepAlive()` takes no lock, so while a worker is inside
`process()` it may return either value.

`accept()` may fail at any time (`AcceptFails`): `handleListen` returns on every errno
but three, and a backlog that is not empty then waits for the next client to connect.

`mixed` and `stranded` are history variables: which connections an event or a
result meant for an earlier owner of their number reached, and which clients a failed
`accept()` has left in the backlog since the last one connected. Properties that the
reuse of numbers breaks are stated for the connections outside `mixed`.

Most clients send a bounded number of segments. Those in `Tireless` go on as long as they
are connected, which is what `ConnectionsEnd` has to be asked about: each result that is
applied starts the timer anew (`WebServer.cpp:307`), so that a client that keeps sending
requests may keep its connection for good. The property is that a client who falls silent
is closed, whatever it sent before.

### HttpConnection, HttpRequest and HttpResponse

The input of a client is a sequence of tokens: CR and LF, and the texts of request
line, header lines and form fields as one token each. That keeps every place where
`parseLine` can stop: before a text is complete, between CR and LF, in front of the
body. `HttpRequest` is one record with the members of the class, and `Parse` runs
`ParseTurn`, one turn of the loop in `parse()`, until it returns. Form values are
character codes, because `urlDecode` and the zeros of a body that has not arrived
change them. `HttpResponse` builds `buffer_` as a sequence of units (status,
`Connection`, extra headers, length, own body) in the order of the code.

`HttpConnection` has the object (`conn`), the world its handlers read and change
(`world`: user table, sessions, files) and, as `pc`, what the reactor is at with it.
`Work` is `process()` as a whole. Two things may interfere with it: the database
fails, and files are replaced between `build()`, which asks for the size, and
`mapFile()`, which asks again. `Write(n)` is one `writev` that takes `n` units.
`Close` is a timer or a hang-up at any point outside `process()`; a queued task
keeps the object of a closed connection and still runs (`orphaned`).

`AnswersItsRequest` compares with a reference that knows nothing of buffers or
parsers: `Answer`, from the request as the client meant it and the world when it was
processed, to the units of the response. It decides what to do from the request alone
(`Understood`, `OnDatabase`, `AsksWho`) and finds the user by the first cookie of the right
name, where the code looks for text in a header line and counts bytes of a body. It speaks of a request from whose first
token the buffer starts, and which had arrived as a whole when the parser finished;
`hist` keeps what is needed to say so. A request that was parsed to its end and got no
answer, because there is no page, stays in the object, and is answered once more when
input follows it: for the property the first time counts, so `hist` keeps the world it
saw (a registration that succeeded without a page finds its name taken
when it is looked at again). What it leaves out is listed with the hazards:
a body that arrives after its header is parsed as if the rest were zeros, and a request
is to be `Plain`: no zeros in its name and password, at which the statement that
`mysql_query` takes as a C string would end, and no cookie `my_session_id`, in which
`getCookieValue` (`HttpConnection.cpp:437`) would find the session's.

### Descriptors

The table maps numbers to what they stand for; a new descriptor gets the lowest free
number. Every system call of the start, of `handleListen`, of `closeConn`, of
`mapFile` and of the destructors that concerns it is a step. An `HttpConnection` is
destroyed when `user_`, the queued tasks and the workers' task variables no longer
refer to it (`Dropped`); its destructor closes the number it still has. The loop
may end at any time. What a worker reports to the destroyed server is undefined
behaviour, modelled as if nothing happened; it opens and closes nothing.

### The others

* `BlockingQueue`: a call from taking the mutex to giving it up (by returning or
  in `wait`) is a step. Notified threads are in `woken` until they have the mutex
  again, and anybody may overtake them. `Join` is the end of `ThreadPool::stop`.
* `HeapTimer`: the vector and the map are sequences and functions, `sift_up`,
  `sift_down`, `del`, `add`, `adjust`, `doWork` are operators on them, and the loop's
  way of calling them is the state machine. The clock is the wall clock: it may
  be set back, and is read again by each call.
* `Logger`: each file is the sequence of messages on disk, plus the stream's
  buffer for the open one. `OpenLogFile` returns the set of results an open can
  have: the file opens with its size; it opens, but `exists()` or `file_size()` fails and
  the size counts as 0 whatever the file holds (`Logger.cpp:243-251`, `OpenUnsized`); it
  does not open; or the directory cannot be made, which is reported as success. The date is
  the system clock's and may go back (`DateChanges`). `Kill` ends the process with any prefix
  of the buffer on disk. Three fields are histories: `log.missed` (what the open file held
  when its size was not read), `logged` (the messages of this run, so that those that
  are in no file, queue or hand any more can be counted as `Lost`) and `setBack` (the date went
  back in this run).
* `Accounts`: each handler is a sequence of the statements that another worker
  can come between: take a connection, select, insert, give the connection back,
  number the session, store it. Any query may fail.

## 3. The runs

| run | question | instance | distinct states |
|---|---|---|---|
| `reuse` | do the tables agree, is each connection worked on by one thread and its input parsed, with numbers reused? | 2 clients, 1 descriptor, 2 workers, 2 segments each | 4.0 M |
| `pair` | is any event or wakeup lost? | 2 clients, 2 descriptors, 1 worker, responses in two parts | 1.1 M |
| `live` | does the loop return, are the connections of silent clients closed, is the backlog served? | 2 clients, one of them tireless, 1 descriptor, 1 worker, fairness | 384,000 |
| `stale` | violated, see section 6 | 2 clients, 1 descriptor, 1 worker | |
| `queue` | do the signals suffice, does the monitor implement `BoundedFifo`, are items delivered, does `stop()` return? | 3 producers, 2 consumers, 2 places, 2 pushes each, fairness | 58,000 |
| `timer_heap` | is it a heap, does it implement `TimerSet`? | 6 timers | 1.6 M |
| `timer_loop` | does the loop oversleep, does what is due fire? | 3 timers, 2 clock ticks to the millisecond, clock set back once | 76,000 |
| `log_files` | are sizes true, do errors survive, where do files pass their limit, are messages in order? | 1 thread, 4 messages, 2 days, 1 failed open, 1 kill | 4.8 M |
| `http` | is each request answered as it asks, sent as built, and `Connection` implemented? | 17 streams of 2 requests and 1 of 3, 24 tokens of buffer, files of up to 3 units, 2 versions of the files | 619,000 |
| `descriptors` | is each descriptor closed once, by its owner? does the shutdown end? | 6 numbers, 2 objects, 2 workers, 1 queued task | 5.7 M |
| `log_stop` | what is lost while the logger is stopped, and is the rest written? | 2 threads, 2 messages each, 1 place, 1 day, fairness | 59,000 |
| `accounts` | handles, cookies and names with concurrent handlers | 3 workers, 2 handles, 2 names, 2 logins | 313,000 |

Why the bounds are enough to be interesting:

* Two clients and one number are what it takes to reuse a number; two workers what
  it takes for a worker to be busy with the earlier owner while another serves the
  next. A task queue of one place makes the loop block. Two segments let a second
  request, or the rest of one, arrive at any point, also while the first is being
  processed. The full buffer is reached in `http`.
* The streams of `http`: a login or a registration first, and then each of the
  requests that could be mistaken for it (a form with other values, a form without a
  body, a cookie, a page), or a request that is refused or has no page first. Two
  such requests do not fit the buffer together, so that pipelining runs into the
  full buffer as well. In the stream of three the files change during the first request, so
  that the registration after it finds its page gone. The name `a b` and the password `+` have to be escaped. A file
  that grows or shrinks, one that goes and one that comes, are what `mapFile` may
  find to be different.
* `descriptors`: three numbers are the server's own, three are for two clients and a
  file, so that the second file finds the table full. Two workers keep the last
  references to two objects. The run checks for deadlock: only a process that came
  to its exit may stop.
* Six timers make the smallest heap in which deleting a node has to move another
  one *up*; five moments of time give the nodes three different deadlines.
* Three producers and two consumers over two places make both condition variables
  hold sleepers, and leave room between full and empty.
* Four messages of two sizes against a limit of three units fill a file exactly,
  overfill it, rotate twice and restart into a file that is not empty. Each message
  can rotate at most once, so that `MaxIndex` = 4 never stands in the way. With two days the date goes forth and back
  while messages are queued, into a file that is not empty. `log_stop` has one day and no
  failures: what it asks about is the race of two callers, the worker and `stop()`.
* In `live` a buffer of two segments with a tireless client is enough for it to keep its
  connection for good and to be cut off by a full buffer; the other client waits in
  the backlog meanwhile. In `pair` each client sends one segment only (two take TLC beyond
  20 M states), so that what comes late there is the hang-up and the room to write; data
  that arrives while the mask excludes it is left to the theorem, `EdgesNeverLost`.

### Fairness

* `WF(Loop)` and weak fairness of each worker: threads that are not blocked run.
  Waiting for a mutex needs no stronger assumption in `WebServer`, because at most
  the loop and one worker wait for the same object and nobody keeps it.
* `WF(Expire(fd) \/ Restart(fd))` for each descriptor: time passes, and a timer runs out
  unless a result that is applied starts it anew again and again (`Restart`). Clients are not
  fair: they may stop at any point, and a tireless one may go on for ever.
* `BlockingQueue`: weak fairness of each thread, none of `close()` or of spurious
  wakeups, so what is delivered is delivered because of the signals. No property
  says that a *particular* thread gets its turn: `std::mutex` does not promise it.
* `Logger`: weak fairness of the threads that are inside a call, the worker and
  `stop()`. `timer_loop`: of the loop and of the clock. `Accounts`, `HttpConnection`
  and `Descriptors` have no liveness property; that the shutdown ends is the absence
  of deadlock, as each of its steps is taken once.

## 4. What is proved

Seven modules hold theorems about the models, and `DataLemmas` what they share. TLAPS checks
them to the last leaf, for all values of the constants that satisfy the named
assumptions (the `ASSUME` of each module: `WebServerAssumption`, `QueueAssumption`,
`HttpConnectionAssumption`, ...): any number of clients, descriptors, workers, threads,
messages, names, files. Every safety property of the passing runs is among them: what is
left to TLC is liveness. Each strengthening below was checked by TLC on the runs of its
module before it was proved.

**Reactor.** Everything rests on

    Tables == TypeOK /\ TablesAgree /\ Bookkeeping /\ MarkedIffDeaf /\ NoEventWhileMarked

`TablesAgree` (that `user_`, the descriptor table, the epoll registrations and the
timers name the same connections) is not inductive alone: whether `closeConn`
closes the right number depends on the handler's descriptor being the current
one, whether `AcceptOne` keeps objects apart on clients in the backlog owning no
descriptor yet, whether a worker's step keeps an object's descriptor on its task
being well formed. `Bookkeeping` collects these. The marks come in as a pair: that the
loop never handles an event of a marked descriptor needs that a batch holds one event
per descriptor, and that a mark is only set by the handler that just used that event up.

On `Tables` rest five arguments:

* `MarkedAlwaysHasWork`: each stage hands the work item of a mark to the next (`PopMoves`,
  `ProcessMoves`, `PushMoves`, `SwapMoves`, `ApplyMoves`). `WakeupNeverLost` goes along with it.
* `EdgesNeverLost`: `EdgesKept` adds to `NoLostEdge` what it needs to be kept. Every
  registered mask asks for hang-ups (so a hang-up is never missed for want of interest),
  the descriptor that `cur` excepts is one whose handler will re-arm it or close it, and a
  handler that leaves without a MOD has emptied the socket or filled its send buffer
  (`WriteRoom`).
* `InputIsParsed`: `process()` never returns with input it has not looked at
  (`ProcessInput`), and `handleRead` queues what it read or closes.
* `WorkIsSole` and `LoopStaysOff`: cardinalities are not inductive. `WorkApart` says
  where the one item of a connection is (about to be queued, queued, at a worker,
  completed, being applied), and that a connection with an item is marked or
  closed. It needs `WorkIsKnown`: items are of connections that were accepted before, so
  that a client accepted now has none. Both speak of the connections outside `mixed`:
  `mixed` grows exactly where a foreign event or result would break them, and never shrinks.
* `SentWasSent`: a mask gets `EPOLLOUT` only for an answer. `Responses` follows the answer
  from `process()` (`ProcessPrepared`) through the results to the mask, to the event that is
  reported, to the write; at each of these places a `toSend` of zero would be taken for
  "sent". That nobody empties the object in between is `WorkApart`, and that a batch holds no
  event of a mask that was changed since is `EventsAreKnown`.

**Blocking queue.** `TypeCorrect`, `CloseReachesAll` and `Ordered` are inductive in
turn. `NoSignalMissed` is the classic question whether `notify_one` suffices: each
push adds an item and wakes a sleeping consumer, if there is one, so while somebody
sleeps the woken ones cover the items (lemmas `CountAdd`, `CountRemove` on
cardinalities). `Refines` shows that every step is a step of `BoundedFifo` or a
stutter.

**HTTP connection.** The inductive invariant is `TypeOK /\ Sending /\ BeforeAndAfter`
(`ResponseKept`). `Sending`: what has gone out followed by what the two iovec entries span is
the response as it was laid out, and the counters are its lengths. From it follow
`NothingSentTwice` (whatever prefix each `writev` takes), `UnmappedInTime` and, with what each
builder of a response says about the connection (`Announced`), `ClosedAsItSays`. Types are
most of the work: `TypeCorrect` says that the two indices of the parser stay within the
buffer over any sequence of reads, and that a page is looked for only when a request
line was parsed. `ObjectImplementsConnection` shows that each step of buffers, parser,
response and iovec is one that `Connection` allows; it is what entitles `WebServer` to use
`Connection` in its place. The runs give it the reads and the files of a few streams, the theorem any.

`CutsDoNotMatter` compares two runs of the parser, the one that stopped and went on and the
one that is shown all of the input. `AsWhole` says that the two stand at the same place
with the same words (`Alike`: all but the body, and the place they have looked to), and
that the second one wants more input exactly when the first one does. Four lemmas on
one turn of the loop carry it: a turn that ended with a line keeps its result when
more input follows (`TurnStays`); one that ran out of input does, looked at again, what a
parser that never looked does (`TurnTakenUp`); turns of `Alike` parsers are alike (`TurnsAlike`),
since what the body left behind is never read by the lines (`BodyAlone`); and every turn
moves on (`TurnMoves`), so that the turns suffice and both loops come to an end
(`TurnsSuffice`, `ParseEnds`). `TakenUp` puts them together: parsing the first piece, and
then all of it from where that stopped, is parsing all of it.

`AnswersAreRight` then has to follow one request from the client's intention to the last unit of
its response. Two invariants join `AsWhole`. `Buffered`: the buffer is the stretch of the wire
from where the last response left off. `Answering`: a request that the buffer starts with, and
that the parser has seen all of, `Stands` with its answer: laid out while it is written,
sent when it is done, and `<<>>` while nothing was built, which can only be because no page can be
mapped (`Unanswered`). By `AsWhole` the parser may be taken to have started anew on the whole
request, so the lemmas can speak of one parse of one request followed by anything
(`RequestLies`): the turns over its lines one after the other, the cookie whose name is the
session's found where `find()` finds it, the form read back from the body (what
`urlDecode` makes of what the client encoded is what it meant, `DecodedAsEncoded`).
`RequestAnswered` adds the handlers: for each kind of request, the bad ones and a failing
database included, what `process()` lays out is `Answer`. `AnsweringKept` needs last that a request
which has no page does not get one when it is looked at again (`StillUnanswered`).

**Timers.** `Sound` is `TypeOK`, `HeapOrdered` and that the timer is a record of a sequence and a
map (`Formed`). The loops of `sift_up` and `sift_down` are functions of the number of
turns; each turn keeps the nodes (`SameNodes`: every descriptor still finds its own) and an order with
one fault in it. For `sift_up` the node at one place may be earlier than its parent, but its
children are not earlier than that parent (`OrderedBut`); for `sift_down` it may be later than its
children (`OrderedDown`), and where it ends `OrderedBut` is left for the place it began at (`DownEnd`). That is why
`del` and `adjust` run both: the node that came to the place may belong in either
direction (`SettledKeeps`). A turn takes the index to half or to its double, so the
turns suffice. The front is the earliest deadline because a least
place with an earlier one would have an earlier parent (`FrontIsFirst`); `SleepsInTime`
adds that truncating to milliseconds never rounds up, and `Refines` that each operation changes
one deadline, so that the heap is a `TimerSet`.

**Logger.** `SizesAreTrue` needs that the size counts what is in the stream's buffer as well,
over every way of opening a file (lemmas on `SumOf`, a recursive function). Where the size was not
read, it and `LimitIsKept` are short by what the file held then (`log.missed`), and by no more.
`ErrorsAreKept` and `LimitIsKept` follow from what `write_message` does to the
files in each of its cases (`Effect`). The order in the files is `InOrder`: `AllStamped` (where a
message is, it has the number of an earlier call of its thread), `InTurn` (filed, taken,
queued and called messages of a thread follow one another) and `NoneAhead` (no file of
this run is after the current one, so the names of the files order their messages; not so when
the date was set back, which the property excepts). `StopKeepsWhatWasTaken` has two halves.
`NoneIsLostInTime`: while files open and as long as `stop()` has not closed the file, each message of this run is in a file, in the
worker's hands, queued or with the thread that logs it. `WorkerRuns` and `TakenIsKept`: the
worker is joined before the file is closed, so what it took is on disk by then.

**Accounts and the pool of handles.** `HandlesApart` says without counting that each handle is
in one place; `NoHandleLost` turns that into the counters. `NoSignalMissed` is the argument of the blocking queue
again. Select and insert are two statements; `VerdictsTrue` is what a handler may still
believe after the others had their turn: an "ok" for a registration is a row that
exists and is its own, one for a login the password stored, and neither is ever overwritten.
`NumbersApart` does the same for session numbers.

**Descriptors.** `Safe` says who owns each entry of the table at each stage of start, service
and shutdown, and that nobody remembers a number that stands for something else, except for
the connection `addfd` refused, between its two closes. `NothingIsLost` and `OnlyOwnersClose` follow.
If another thread opens something in between (`reopened`), the second close hits it, and both properties except that case.

**Induction over data.** The induction theorems of the library take an operator as
parameter, which the provers cannot instantiate. `DataLemmas` proves the forms that are needed
from well-foundedness instead: a set of numbers has a least member (`MinIsMember`), and so
a set that has 0 and with each number the next has them all (`SetInduction`); a function
defined by recursion on numbers exists (`RecursionExists`), which is what its definition
by `CHOOSE` leaves open. `SumOf`, `FlattenSeq` and the loops of the parser and of the heap are reasoned about this way.

**Only model-checked.** Everything under fairness: liveness is out of the provers' reach
(`LoopReturns`, `ConnectionsEnd`, `BacklogServed`, `Delivered`, `StopReturns`, `DueIsClosed`,
`QueuedIsWritten`).

## 5. What is assumed about the outside

* Kernel: edge-triggered epoll as above; `epoll_ctl` fails only for a descriptor
  that is not registered, or for ADD at any time; `accept` may fail at any time, not only
  when numbers run out, and leaves the client in the backlog; sockets fail only when
  the peer resets.
* Descriptor numbers are handed out lowest first, as POSIX says. `epoll_ctl` refuses
  a number that is free or a file.
* Files: `mmap` refuses a length of zero and directories; a file is not replaced
  while it is mapped. `CanMap` also takes a file that others may not read for one that
  cannot be mapped. `mapFile()` does not ask (`HttpConnection.cpp:376-380`): it opens the file,
  which a server with more rights than others could. As `build()` has refused such a file with
  403, it makes a difference only for a file that became unreadable in between.
* Standard library: mutexes exclude, condition variables may wake spuriously.
* Database: the schema of the `user` table is not in the repository. `Accounts`
  takes `name` to be a key, so that the second of two concurrent inserts fails and
  the handler's error branch is used. Without a key both would succeed and
  `SuccessMeansOwned` would not hold: select and insert are two statements.
  Every name and password is one value; a row with no password is left out.
* Buffers: `WriteBufSize > 4` says that a status line, `Connection`, a cookie,
  `Content-Length` and a page made by the server fit into the 4096 bytes of `write_buf_`. They
  do, but for the JSON of a user name of nearly that length, which the model, to which a
  body is one unit, does not tell from a short one. The code checks (`HttpConnection.cpp:301`),
  and so does the model. `BufSize > 1` is needed for the input to be looked at
  piece by piece at all.
* `Absent` stands for a cookie, form or entry that is not there, and is none of the values
  that could be (`AbsentAssumption`).
* Session ids: the time, the counter and a hash of the name in hexadecimal. The
  model tells them apart by the counter.

## 6. Finding

`stale` (`SentMeansSent` violated). `handleWakeup` finds the connection of a result by
number only (`WebServer.cpp:287`). A client whose request is being processed hangs
up; it is closed, a new client gets the number, and the result of the old request
is applied to it: its mark is erased and its mask set to write. `write()` has
nothing to send and returns `DONE`, `handleWrite` logs "has been writed
successfully" or "response sent, closing connection" (`WebServer.cpp:239`, `:241`)
and closes a client to which not a byte went. `SentMeansSentUnmixed` shows that
this is the only way: a connection no foreign result or event reached is closed
there only after its response was sent.

## 7. Hazards

The full list, with lines and the properties that cover each, is in
`PROJECT.json`. Three have no property, because nothing in the repository says what should
happen: a client that closes its sending side only (`WebServer.cpp:142`), a request that is
pipelined behind another and dropped with it (`HttpConnection.cpp:405`), and the log messages that
are dropped after a file did not open (`Logger.cpp:188`). The models do in each case what the
code does. Others are real and excepted by name in the property that covers their
surroundings, which then shows that nothing else goes wrong:

* after a failed `addfd` a number is closed twice; a worker that opened a file in
  between loses it (`reopened` in `ClosedByOwner`);
* a body that arrives after its header is not waited for (`AnswersItsRequest`);
* a file replaced between `build()` and `mapFile()` goes out under the wrong length
  (`raced` in `AnswersItsRequest`);
* a 500 page says `Connection: close` on a connection that is kept open
  (`ClosesAsAnnounced`);
* a request for a missing or unreadable page is not answered: the page is built and
  `process()` returns false (`AnswersItsRequest`, which says that nothing else is
  left unanswered);
* a log file whose size was not read grows past `max_file_size` by what it held
  (`log.missed` in `OverLimitOnlyByRotation`);
* a date that is set back leads the logger back into an older file (`setBack` in `InOrder`);
* a message whose push was refused is dropped if `stop()` has closed the file
  (`StopLosesOnlyTheLate`, which says that no other is lost while files open).

## 8. Not modelled

* The text of responses, log lines and SQL; MIME types; extra blanks in request and
  header lines; static resources; the build.
* `mysql_*` beyond success and failure, and quotes inside names and passwords.
* `HttpRequest::reset()` and `post()`, `BlockingQueue::size` and its like,
  `getFreeConnCount`: nobody calls them. The synchronous mode of the logger (`main`
  uses the asynchronous one), `HeapTimer::pop` and `clear`, which are not called while
  timers run, and `SqlConnPool::closePool`, which runs when the process exits.
* What lies behind the 4096 bytes of the read buffer. `BodyOf` fills up a body that has
  not arrived with zeros; if `Content-Length` is more than what is left of the buffer,
  `body_.assign` reads on behind it (`HttpRequest.cpp:172`): undefined behaviour, not followed
  further. No property is about such a body.
* Files of 2 GB and more: `static_cast<int>` of the file's size and of what a write has
  taken (`HttpConnection.cpp:320`, `:348-351`) is the identity in `FileLaid` and `Sent`.
* What a worker does to a server that is already destroyed (`completed_results_` and its
  mutex are gone before the pool is stopped): undefined behaviour.
* `main.cpp`: the lifetime of the server is in `Descriptors`. Its configuration is the
  one modelled: asynchronous logging, one loop, eight workers (the default of
  `WebServer.h:14`) and a positive `timeout_ms`. The constructor's default of -1 would
  make every timer due at once (`WebServer.cpp:175` adds one in any case).
