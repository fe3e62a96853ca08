\* Two clients with a descriptor each; responses sent in two parts.
\* The system stops when all clients are done and epoll_wait sleeps.
CONSTANTS
  Conn = {c1, c2}
  Fd = {f1, f2}
  Worker = {w1}
  NoConn = NoConn
  NoFd = NoFd
  NoWorker = NoWorker
  ServerFd = ServerFd
  WakeupFd = WakeupFd
  QueueCap = 1
  Tireless = {}
  MaxSegs = 1
  BufSegs = 3
  MaxResp = 2
SPECIFICATION Spec
INVARIANTS
  MarkedHasWork
  NoEventWhileMarked
  NoLostWakeup
  NoLostEdge
SYMMETRY Symmetric
CHECK_DEADLOCK FALSE
