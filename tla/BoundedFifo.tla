----------------------------- MODULE BoundedFifo ------------------------------
(***************************************************************************)
(* What a BlockingQueue promises its users: a first-in first-out queue of  *)
(* at most Capacity items that hands each item out once, and nothing any   *)
(* more once it is closed.                                                 *)
(***************************************************************************)
EXTENDS Naturals, Sequences

CONSTANTS Item, Capacity

VARIABLES
  queue,   \* items accepted and not handed out
  taken,   \* items handed out, in the order they were
  closed

Init == queue = <<>> /\ taken = <<>> /\ closed = FALSE

Put(x) ==
  /\ ~closed /\ Len(queue) < Capacity
  /\ queue' = Append(queue, x)
  /\ UNCHANGED <<taken, closed>>

Take ==
  /\ ~closed /\ queue # <<>>
  /\ taken' = Append(taken, Head(queue))
  /\ queue' = Tail(queue)
  /\ UNCHANGED closed

Shut ==
  /\ ~closed /\ closed' = TRUE
  /\ UNCHANGED <<queue, taken>>

Next == (\E x \in Item : Put(x)) \/ Take \/ Shut

Spec == Init /\ [][Next]_<<queue, taken, closed>>
=============================================================================
