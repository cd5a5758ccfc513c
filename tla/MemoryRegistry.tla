--------------------------- MODULE MemoryRegistry ---------------------------
(***************************************************************************)
(* The buffers of the summation service: register_memory takes one from    *)
(* the heap and appends it to mem_group, deregister_memory looks the       *)
(* pointer up and frees it, get_mem_buffer returns it by index.  Entries   *)
(* are never removed.  The heap is external: posix_memalign returns any    *)
(* address that is not in use, one that was freed before included.         *)
(*                                                                         *)
(* A definition named D_what is D with a plausible bug; it stands before D *)
(* and nothing uses it but the runs that show a property can fail.         *)
(***************************************************************************)
EXTENDS Naturals, Sequences, FiniteSets

CONSTANTS
  Addresses,   \* the addresses the heap hands out
  MaxEntries   \* the size of mem_group and available (1024 in the code)

ASSUME AddressesAssumption == IsFiniteSet(Addresses)
ASSUME MaxEntriesAssumption == MaxEntries \in Nat

VARIABLES
  heap,        \* the addresses in use
  mem_group,   \* the registered pointers, num_allocated = Len(mem_group)
  available,   \* whether each entry is not freed
  freed,       \* the pointers the last call freed
  warned       \* the pointers the last call reported as already freed

vars == <<heap, mem_group, available, freed, warned>>

Init ==
  /\ heap = {}
  /\ mem_group = << >>
  /\ available = << >>
  /\ freed = {}
  /\ warned = {}

RegisterMemory_flag_not_set ==
  /\ Len(mem_group) < MaxEntries
  /\ \E buf \in Addresses \ heap :
       /\ heap' = heap \cup {buf}
       /\ mem_group' = Append(mem_group, buf)
  /\ available' = available
  /\ freed' = {}
  /\ warned' = {}

(* register_memory.  The bound is on the model: the code does not compare  *)
(* num_allocated with the size of its arrays.                              *)
RegisterMemory ==
  /\ Len(mem_group) < MaxEntries
  /\ \E buf \in Addresses \ heap :
       /\ heap' = heap \cup {buf}
       /\ mem_group' = Append(mem_group, buf)
  /\ available' = Append(available, TRUE)
  /\ freed' = {}
  /\ warned' = {}

(* deregister_memory's loop stops at entry i, the first with the pointer. *)
Lookup(dataptr, i) ==
  mem_group[i] = dataptr /\ \A k \in 1 .. i - 1 : mem_group[k] # dataptr

DeregisterMemory_always_frees(dataptr) ==
  \E i \in DOMAIN mem_group :
    /\ Lookup(dataptr, i)
    /\ freed' = {dataptr}
    /\ warned' = {}
    /\ heap' = heap \ {dataptr}
    /\ available' = [available EXCEPT ![i] = FALSE]
    /\ UNCHANGED mem_group

DeregisterMemory_keeps_available(dataptr) ==
  \E i \in DOMAIN mem_group :
    /\ Lookup(dataptr, i)
    /\ freed' = IF available[i] THEN {dataptr} ELSE {}
    /\ warned' = IF available[i] THEN {} ELSE {dataptr}
    /\ heap' = heap \ freed'
    /\ UNCHANGED <<mem_group, available>>

(* deregister_memory; a pointer that is not registered is ignored. *)
DeregisterMemory(dataptr) ==
  \E i \in DOMAIN mem_group :
    /\ Lookup(dataptr, i)
    /\ freed' = IF available[i] THEN {dataptr} ELSE {}
    /\ warned' = IF available[i] THEN {} ELSE {dataptr}
    /\ heap' = heap \ freed'
    /\ available' = [available EXCEPT ![i] = FALSE]
    /\ UNCHANGED mem_group

Next == RegisterMemory \/ \E a \in Addresses : DeregisterMemory(a)

Spec == Init /\ [][Next]_vars

-----------------------------------------------------------------------------
(* Properties. *)

(* The two arrays have the same length and hold addresses and flags.       *)
TypeOK ==
  /\ heap \subseteq Addresses
  /\ mem_group \in Seq(Addresses)
  /\ available \in Seq(BOOLEAN) /\ Len(available) = Len(mem_group)
  /\ freed \subseteq Addresses
  /\ warned \subseteq Addresses

(* free() is only given memory that is in use: however often a client      *)
(* deregisters a pointer, and whichever addresses the heap reuses, nothing *)
(* is freed twice.                                                         *)
NoDoubleFree == [][freed' \subseteq heap]_vars

(* Each buffer in use has exactly one entry that is not freed, and no two  *)
(* such entries share a buffer.                                            *)
EntriesMatchHeap ==
  \A a \in Addresses :
    Cardinality({i \in DOMAIN mem_group : mem_group[i] = a /\ available[i]})
      = IF a \in heap THEN 1 ELSE 0

(* "mem index: %d has already been freed" (summation_service.cpp:64) is    *)
(* only said of memory that is not in use.                                 *)
WarningIsTrue == warned \cap heap = {}

=============================================================================
