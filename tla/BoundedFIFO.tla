---------------------------- MODULE BoundedFIFO ----------------------------
(***************************************************************************)
(* What a single-producer single-consumer task queue promises its two      *)
(* users: a first-in first-out queue of at most Bound values.  Push, Take  *)
(* and Drop are each one indivisible step.                                 *)
(*                                                                         *)
(*   Push   a value enters at the rear, never beyond Bound                 *)
(*   Take   blocking_pop: the oldest value is removed and returned         *)
(*   Drop   front() followed by pop(): the oldest value is removed without *)
(*          being returned (peek_compute_task only learns that it existed) *)
(***************************************************************************)
EXTENDS Naturals, Sequences

CONSTANTS
  Values,   \* what can be queued
  Bound     \* the most values the queue holds

VARIABLES
  queue,    \* the queued values, oldest first
  out       \* the value the last Take returned

vars == <<queue, out>>

Init ==
  /\ queue = << >>
  /\ out \notin Values

Push ==
  /\ Len(queue) < Bound
  /\ \E v \in Values : queue' = Append(queue, v)
  /\ out' = out

Take ==
  /\ queue # << >>
  /\ out' = Head(queue)
  /\ queue' = Tail(queue)

Drop ==
  /\ queue # << >>
  /\ queue' = Tail(queue)
  /\ out' = out

Next == Push \/ Take \/ Drop

Spec == Init /\ [][Next]_vars

=============================================================================
