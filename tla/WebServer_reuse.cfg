\* Two clients take turns on one descriptor number; two workers.
\* The system stops when all clients are done and epoll_wait sleeps.
CONSTANTS
  Conn = {c1, c2}
  Fd = {f1}
  Worker = {w1, w2}
  NoConn = NoConn
  NoFd = NoFd
  NoWorker = NoWorker
  ServerFd = ServerFd
  WakeupFd = WakeupFd
  QueueCap = 1
  Tireless = {}
  MaxSegs = 2
  BufSegs = 3
  MaxResp = 2
SPECIFICATION Spec
INVARIANTS
  TypeOK
  TablesAgree
  SoleWorkItem
  LoopKeepsOff
  ReadIsParsed
  SentMeansSentUnmixed
SYMMETRY Symmetric
CHECK_DEADLOCK FALSE
