------------------------------- MODULE TimerSet -------------------------------
(***************************************************************************)
(* What the event loop expects of its timers: one deadline per descriptor, *)
(* and callbacks that run for a deadline that has passed, the earliest     *)
(* first, once for each time a timer was added.                            *)
(***************************************************************************)
EXTENDS Naturals, Functions

CONSTANTS Fd, NoFd, Timeout

VARIABLES
  deadline,  \* the descriptors that have a timer, and when each is due
  fired,     \* descriptor whose callback was the last thing to happen
  now

Init == deadline = <<>> /\ fired = NoFd /\ now = 0

Start(fd) ==
  /\ fd \notin DOMAIN deadline
  /\ deadline' = [f \in DOMAIN deadline \cup {fd} |->
                    IF f = fd THEN now + Timeout ELSE deadline[f]]
  /\ fired' = NoFd
  /\ UNCHANGED now

Restart(fd) ==
  /\ fd \in DOMAIN deadline
  /\ deadline' = [deadline EXCEPT ![fd] = now + Timeout]
  /\ fired' = NoFd
  /\ UNCHANGED now

Cancel(fd) ==
  /\ deadline' = Restrict(deadline, DOMAIN deadline \ {fd})
  /\ fired' = NoFd
  /\ UNCHANGED now

Fire(fd) ==
  /\ fd \in DOMAIN deadline
  /\ deadline[fd] <= now
  /\ \A f \in DOMAIN deadline : deadline[fd] <= deadline[f]
  /\ deadline' = Restrict(deadline, DOMAIN deadline \ {fd})
  /\ fired' = fd
  /\ UNCHANGED now

ClockMoves == now' # now /\ UNCHANGED <<deadline, fired>>

Next ==
  \/ \E fd \in Fd : Start(fd) \/ Restart(fd) \/ Cancel(fd) \/ Fire(fd)
  \/ ClockMoves

Spec == Init /\ [][Next]_<<deadline, fired, now>>
=============================================================================
