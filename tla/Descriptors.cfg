\* Three numbers for the server, three for clients and the files of workers.
\* Deadlock is checked: the process must come to its exit.
SPECIFICATION Spec
CONSTANTS
  MaxFd = 6
  Client = {c1, c2}
  Worker = {w1, w2}
  MaxTasks = 1
  Nobody = Nobody
INVARIANTS
  ClosedByOwner
  NoDescriptorLost
SYMMETRY Symmetric
