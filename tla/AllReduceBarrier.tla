-------------------------- MODULE AllReduceBarrier --------------------------
(***************************************************************************)
(* What the all-reduce server promises its senders: in every round each    *)
(* sender contributes once, and no sender is released into the next round  *)
(* before every sender has contributed to this one.                        *)
(***************************************************************************)
EXTENDS Naturals

CONSTANT Clients

VARIABLES
  contributed,  \* how many rounds each sender has contributed to
  released      \* how many rounds each sender has been released from

vars == <<contributed, released>>

Init ==
  /\ contributed = [c \in Clients |-> 0]
  /\ released = [c \in Clients |-> 0]

Contribute(c) ==
  /\ contributed[c] = released[c]
  /\ contributed' = [contributed EXCEPT ![c] = @ + 1]
  /\ released' = released

Release(c) ==
  /\ \A d \in Clients : released[c] < contributed[d]
  /\ released' = [released EXCEPT ![c] = @ + 1]
  /\ contributed' = contributed

Next == \E c \in Clients : Contribute(c) \/ Release(c)

Spec == Init /\ [][Next]_vars

=============================================================================
