\* A result of a closed connection reaches the next owner of its number.
\* The system stops when all clients are done and epoll_wait sleeps.
CONSTANTS
  Conn = {c1, c2}
  Fd = {f1}
  Worker = {w1}
  NoConn = NoConn
  NoFd = NoFd
  NoWorker = NoWorker
  ServerFd = ServerFd
  WakeupFd = WakeupFd
  QueueCap = 1
  Tireless = {}
  MaxSegs = 1
  BufSegs = 3
  MaxResp = 1
SPECIFICATION Spec
INVARIANTS
  SentMeansSent
SYMMETRY Symmetric
CHECK_DEADLOCK FALSE
