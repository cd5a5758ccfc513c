----------------------------- MODULE SPSCQueue -----------------------------
(***************************************************************************)
(* The wait-free ring buffer of summation_service/include/util/spsc_queue.h*)
(* One producer thread runs emplace/try_emplace (push and try_push only    *)
(* forward to them), one consumer thread runs blocking_pop, or front       *)
(* followed by pop.  Every access to the shared head_, tail_ and slots_ is *)
(* a step of its own; each thread's relaxed load of the index it alone     *)
(* writes is merged with the step that follows it.                         *)
(***************************************************************************)
EXTENDS Naturals, Sequences

CONSTANTS
  Capacity,  \* capacity_: the number of slots
  Values,    \* the values of the element type T
  Raw        \* the content of a slot that holds no object

ASSUME CapacityAssumption == Capacity \in Nat /\ Capacity >= 2
ASSUME RawAssumption == Raw \notin Values

VARIABLES
  slots,     \* slots_ without its padding
  head,      \* head_: the next slot the producer fills
  tail,      \* tail_: the next slot the consumer empties
  ppc,       \* where the producer is
  pop_op,    \* the operation the consumer is running
  push_op,   \* the operation the producer is running
  arg,       \* the producer's argument
  cpc,       \* where the consumer is
  real_data  \* _real_data, what blocking_pop moved out of the slot

pvars == <<ppc, push_op, arg>>
cvars == <<cpc, pop_op, real_data>>
vars  == <<slots, head, tail, pvars, cvars>>

Index == 0 .. Capacity - 1

-----------------------------------------------------------------------------
(* A definition named D_what is D with a plausible bug; it stands before D *)
(* and nothing uses it but the runs that show a property can fail.         *)

Succ_no_wrap(i) == i + 1

(* nextHead and nextTail: the index after i, wrapping at capacity_. *)
Succ(i) == IF i + 1 = Capacity THEN 0 ELSE i + 1

Init ==
  /\ slots = [i \in Index |-> Raw]
  /\ head = 0
  /\ tail = 0
  /\ ppc = "idle" /\ push_op = "emplace" /\ arg = Raw
  /\ cpc = "idle" /\ pop_op = "blocking_pop" /\ real_data = Raw

-----------------------------------------------------------------------------
(* The producer. *)

Emplace(v, op) ==
  /\ ppc = "idle"
  /\ ppc' = "check"
  /\ push_op' = op
  /\ arg' = v
  /\ UNCHANGED <<slots, head, tail, cvars>>

(* The acquire load of tail_ finds the queue full: try_emplace returns     *)
(* false, emplace loads again.                                             *)
TryEmplaceFull ==
  /\ ppc = "check"
  /\ push_op = "try_emplace"
  /\ Succ(head) = tail
  /\ ppc' = "idle"
  /\ UNCHANGED <<slots, head, tail, push_op, arg, cvars>>

EmplaceClear_no_full_check ==
  /\ ppc = "check"
  /\ ppc' = "construct"
  /\ UNCHANGED <<slots, head, tail, push_op, arg, cvars>>

EmplaceClear_compares_unwrapped ==
  /\ ppc = "check"
  /\ head + 1 # tail
  /\ ppc' = "construct"
  /\ UNCHANGED <<slots, head, tail, push_op, arg, cvars>>

(* The load of tail_ finds room. *)
EmplaceClear ==
  /\ ppc = "check"
  /\ Succ(head) # tail
  /\ ppc' = "construct"
  /\ UNCHANGED <<slots, head, tail, push_op, arg, cvars>>

(* Placement new in the slot at head. *)
EmplaceConstruct ==
  /\ ppc = "construct"
  /\ slots' = [slots EXCEPT ![head] = arg]
  /\ ppc' = "store"
  /\ UNCHANGED <<head, tail, push_op, arg, cvars>>

(* The release store of head_ that publishes the slot. *)
EmplaceStore ==
  /\ ppc = "store"
  /\ head' = Succ(head)
  /\ ppc' = "idle"
  /\ UNCHANGED <<slots, tail, push_op, arg, cvars>>

-----------------------------------------------------------------------------
(* The consumer. *)

(* A call of blocking_pop, or of front() by a caller that pops when it is  *)
(* not null (peek_compute_task, the destructor).                           *)
StartPop(op) ==
  /\ cpc = "idle"
  /\ cpc' = "front"
  /\ pop_op' = op
  /\ UNCHANGED <<slots, head, tail, real_data, pvars>>

(* front() returns nullptr: blocking_pop calls it again. *)
FrontNull ==
  /\ cpc = "front"
  /\ pop_op = "front_pop"
  /\ head = tail
  /\ cpc' = "idle"
  /\ UNCHANGED <<slots, head, tail, pop_op, real_data, pvars>>

Front_no_empty_check ==
  /\ cpc = "front"
  /\ cpc' = IF pop_op = "blocking_pop" THEN "move" ELSE "destroy"
  /\ UNCHANGED <<slots, head, tail, pop_op, real_data, pvars>>

(* front() returns the address of the slot at tail. *)
Front ==
  /\ cpc = "front"
  /\ head # tail
  /\ cpc' = IF pop_op = "blocking_pop" THEN "move" ELSE "destroy"
  /\ UNCHANGED <<slots, head, tail, pop_op, real_data, pvars>>

(* blocking_pop moves the object out. *)
MoveOut ==
  /\ cpc = "move"
  /\ real_data' = slots[tail]
  /\ cpc' = "destroy"
  /\ UNCHANGED <<slots, head, tail, pop_op, pvars>>

(* pop() runs the destructor of the object at tail. *)
PopDestroy ==
  /\ cpc = "destroy"
  /\ slots' = [slots EXCEPT ![tail] = Raw]
  /\ cpc' = "store"
  /\ UNCHANGED <<head, tail, pop_op, real_data, pvars>>

PopStore_forgotten ==
  /\ cpc = "store"
  /\ cpc' = "idle"
  /\ UNCHANGED <<slots, head, tail, pop_op, real_data, pvars>>

(* The release store of tail_ that gives the slot back. *)
PopStore ==
  /\ cpc = "store"
  /\ tail' = Succ(tail)
  /\ cpc' = "idle"
  /\ UNCHANGED <<slots, head, pop_op, real_data, pvars>>

-----------------------------------------------------------------------------

ProducerStep == TryEmplaceFull \/ EmplaceClear \/ EmplaceConstruct \/ EmplaceStore

ConsumerStep == FrontNull \/ Front \/ MoveOut \/ PopDestroy \/ PopStore

Next ==
  \/ \E v \in Values, op \in {"emplace", "try_emplace"} : Emplace(v, op)
  \/ \E op \in {"blocking_pop", "front_pop"} : StartPop(op)
  \/ ProducerStep
  \/ ConsumerStep

Spec == Init /\ [][Next]_vars

(* Each thread keeps executing the operation it has entered; whether it    *)
(* ever enters another one is its caller's business.                       *)
FairSpec == Spec /\ WF_vars(ProducerStep) /\ WF_vars(ConsumerStep)

-----------------------------------------------------------------------------
(* Properties. *)

(* head_ and tail_ stay within slots_, and each thread's locals hold what  *)
(* its operation needs.                                                    *)
TypeOK ==
  /\ slots \in [Index -> Values \cup {Raw}]
  /\ head \in Index
  /\ tail \in Index
  /\ ppc \in {"idle", "check", "construct", "store"}
  /\ push_op \in {"emplace", "try_emplace"}
  /\ arg \in Values \cup {Raw}
  /\ cpc \in {"idle", "front", "move", "destroy", "store"}
  /\ pop_op \in {"blocking_pop", "front_pop"}
  /\ real_data \in Values \cup {Raw}

(* The slot the producer is constructing into is never the slot the        *)
(* consumer holds a pointer to, so the non-atomic accesses to slots_ in    *)
(* emplace and in blocking_pop/pop never race, and pop's assertion that    *)
(* head_ differs from tail_ holds although the producer keeps moving head_.*)
NoSlotRace ==
  cpc \in {"move", "destroy", "store"} => head # tail

(* Objects are constructed only in raw slots and moved from or destroyed   *)
(* only where one was constructed: no task is overwritten before it is     *)
(* read and none is read twice.                                            *)
ObjectLifetime ==
  /\ ppc = "construct" => slots[head] = Raw
  /\ cpc \in {"move", "destroy"} => slots[tail] \in Values

(* How many elements lie between tail t and head h. *)
Distance(h, t) == IF h >= t THEN h - t ELSE h + Capacity - t

(* The index k places after i. *)
Plus(i, k) == IF i + k < Capacity THEN i + k ELSE i + k - Capacity

(* The oldest element the consumer has not taken: it takes one when        *)
(* blocking_pop moves it out, or else when pop destroys it.                *)
Taken == cpc = "store" \/ (cpc = "destroy" /\ pop_op = "blocking_pop")

First == IF Taken THEN Succ(tail) ELSE tail

Contents == [k \in 1 .. Distance(head, First) |-> slots[Plus(First, k - 1)]]

FIFO == INSTANCE BoundedFIFO WITH
          Bound <- Capacity - 1, queue <- Contents, out <- real_data

(* The ring buffer with its separate loads, constructions, destructions    *)
(* and stores implements a FIFO of capacity_ - 1 elements: nothing is lost,*)
(* duplicated or reordered, and blocking_pop returns the oldest element.   *)
ImplementsFIFO == FIFO!Spec

(* As long as the consumer comes back to take elements, a producer that    *)
(* spins in emplace gets its element in; as long as the producer comes     *)
(* back, a consumer that spins in blocking_pop gets one.  The caller that  *)
(* comes back must use the blocking operation: a caller of try_emplace may *)
(* find the queue full each time.                                          *)
SpinsEnd ==
  /\ []<>(cpc = "front") => (ppc = "check" ~> ppc = "idle")
  /\ []<>(ppc = "store") => (cpc = "front" ~> cpc = "idle")

=============================================================================
