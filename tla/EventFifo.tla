------------------------------ MODULE EventFifo ------------------------------
(***************************************************************************)
(* What the shared event queue of shared_events.h promises its users: a    *)
(* bounded first-in first-out queue.  An offered event is either appended, *)
(* or refused because the queue holds Capacity events; an event that was   *)
(* appended is taken exactly once, unaltered and in order.                 *)
(***************************************************************************)
EXTENDS Integers, Sequences

CONSTANTS Events,   \* the values that can be queued
          Capacity  \* how many of them the queue can hold

VARIABLES queue,    \* the events waiting, oldest first
          taken,    \* the events taken so far, in the order they were taken
          refused   \* how many offers were refused

vars == <<queue, taken, refused>>

Init ==
  /\ queue = << >>
  /\ taken = << >>
  /\ refused = 0

Put(e) ==
  /\ Len(queue) < Capacity
  /\ queue' = Append(queue, e)
  /\ UNCHANGED <<taken, refused>>

Refuse ==
  /\ Len(queue) = Capacity
  /\ refused' = refused + 1
  /\ UNCHANGED <<queue, taken>>

Take ==
  /\ queue # << >>
  /\ taken' = Append(taken, Head(queue))
  /\ queue' = Tail(queue)
  /\ UNCHANGED refused

Next ==
  \/ \E e \in Events : Put(e)
  \/ Refuse
  \/ Take

Spec == Init /\ [][Next]_vars
=============================================================================
