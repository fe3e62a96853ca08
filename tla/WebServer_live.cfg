\* Liveness, with a client that may never stop sending; no symmetry, which
\* TLC cannot use here.
\* The system stops when all clients are done and epoll_wait sleeps.
CONSTANTS
  Conn = {c1, c2}
  Fd = {f1}
  Worker = {w1}
  NoConn = NoConn
  NoFd = NoFd
  NoWorker = NoWorker
  ServerFd = ServerFd
  WakeupFd = WakeupFd
  QueueCap = 1
  Tireless = {c1}
  MaxSegs = 1
  BufSegs = 2
  MaxResp = 1
SPECIFICATION FairSpec
PROPERTIES
  LoopReturns
  ConnectionsEnd
  BacklogServed
CHECK_DEADLOCK FALSE
