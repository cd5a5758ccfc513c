----------------------- MODULE MemoryRegistry_proofs -----------------------
(***************************************************************************)
(* Proofs, for every set of addresses and every number of entries, that    *)
(* the registry's entries match the heap and that deregister_memory never  *)
(* frees memory that is not in use.                                        *)
(***************************************************************************)
EXTENDS MemoryRegistry, FiniteSetTheorems, TLAPS

(* Entry i stands for the buffer at address a. *)
Live(i, a) == mem_group[i] = a /\ available[i] = TRUE

(* The inductive invariant: live entries stand for buffers in use, each    *)
(* buffer in use has a live entry, and no two live entries share one.      *)
IInv ==
  /\ TypeOK
  /\ \A i \in 1 .. Len(mem_group) : available[i] = TRUE => mem_group[i] \in heap
  /\ \A a \in heap : \E i \in 1 .. Len(mem_group) : Live(i, a)
  /\ \A i, j \in 1 .. Len(mem_group) :
       available[i] = TRUE /\ available[j] = TRUE /\ mem_group[i] = mem_group[j] => i = j

(* What Append changes and what it keeps. *)
LEMMA AppendFacts ==
  ASSUME NEW S, NEW s \in Seq(S), NEW e \in S
  PROVE  /\ Append(s, e) \in Seq(S) /\ Len(s) \in Nat
         /\ Len(Append(s, e)) = Len(s) + 1
         /\ Append(s, e)[Len(s) + 1] = e
         /\ \A i \in 1 .. Len(s) : Append(s, e)[i] = s[i]
  OBVIOUS

(* The same for the flags. *)
LEMMA AppendTrueFacts ==
  ASSUME NEW s \in Seq(BOOLEAN)
  PROVE  /\ Append(s, TRUE) \in Seq(BOOLEAN)
         /\ Len(Append(s, TRUE)) = Len(s) + 1
         /\ Append(s, TRUE)[Len(s) + 1] = TRUE
         /\ \A i \in 1 .. Len(s) : Append(s, TRUE)[i] = s[i]
<1>1. Append(s, TRUE) \in Seq(BOOLEAN)
  OBVIOUS
<1>2. Len(Append(s, TRUE)) = Len(s) + 1
  OBVIOUS
<1>3. Append(s, TRUE)[Len(s) + 1] = TRUE
  OBVIOUS
<1>4. ASSUME NEW i \in 1 .. Len(s) PROVE Append(s, TRUE)[i] = s[i]
  OBVIOUS
<1>5. QED
  BY <1>1, <1>2, <1>3, <1>4, Zenon

(* No entries, nothing in use. *)
LEMMA InitIInv == Init => IInv
  BY DEF Init, IInv, TypeOK

(* register_memory adds a buffer and its entry. *)
LEMMA RegisterIInv == IInv /\ RegisterMemory => IInv'
<1> SUFFICES ASSUME IInv, RegisterMemory PROVE IInv'
  OBVIOUS
<1>1. PICK buf \in Addresses \ heap :
        heap' = heap \cup {buf} /\ mem_group' = Append(mem_group, buf)
  BY DEF RegisterMemory
<1>2. available' = Append(available, TRUE) /\ freed' = {} /\ warned' = {}
  BY DEF RegisterMemory
<1> DEFINE n == Len(mem_group)
<1>3. /\ n \in Nat /\ Len(available) = n
      /\ Len(mem_group') = n + 1 /\ Len(available') = n + 1
      /\ mem_group'[n + 1] = buf /\ available'[n + 1] = TRUE
      /\ \A i \in 1 .. n : mem_group'[i] = mem_group[i] /\ available'[i] = available[i]
  <2>1. mem_group \in Seq(Addresses) /\ buf \in Addresses
    BY <1>1 DEF IInv, TypeOK
  <2>2. available \in Seq(BOOLEAN) /\ TRUE \in BOOLEAN /\ Len(available) = n
    BY DEF IInv, TypeOK
  <2>3. /\ n \in Nat /\ Len(mem_group') = n + 1 /\ mem_group'[n + 1] = buf
        /\ \A i \in 1 .. n : mem_group'[i] = mem_group[i]
    BY <2>1, <1>1, AppendFacts
  <2>4. /\ Len(available') = n + 1 /\ available'[n + 1] = TRUE
        /\ \A i \in 1 .. n : available'[i] = available[i]
    BY <2>2, <1>2, AppendTrueFacts, Zenon
  <2>5. QED
    BY <2>2, <2>3, <2>4
<1>4. TypeOK'
  BY <1>1, <1>2, <1>3 DEF IInv, TypeOK
<1>5. \A i \in 1 .. n + 1 : available'[i] = TRUE => mem_group'[i] \in heap'
  BY <1>1, <1>3 DEF IInv
<1>6. \A a \in heap' : \E i \in 1 .. n + 1 : Live(i, a)'
  <2>1. ASSUME NEW a \in heap PROVE \E i \in 1 .. n + 1 : Live(i, a)'
    <3>1. PICK i \in 1 .. n : Live(i, a)
      BY DEF IInv
    <3>2. QED
      BY <3>1, <1>3 DEF Live
  <2>2. \E i \in 1 .. n + 1 : Live(i, buf)'
    BY <1>3 DEF Live
  <2>3. QED
    BY <2>1, <2>2, <1>1
<1>7. \A i, j \in 1 .. n + 1 :
        available'[i] = TRUE /\ available'[j] = TRUE /\ mem_group'[i] = mem_group'[j] => i = j
  <2>1. \A i \in 1 .. n : available'[i] = TRUE => mem_group'[i] # buf
    BY <1>1, <1>3 DEF IInv
  <2>2. \A i, j \in 1 .. n :
          available'[i] = TRUE /\ available'[j] = TRUE /\ mem_group'[i] = mem_group'[j] => i = j
    BY <1>3 DEF IInv
  <2>3. QED
    BY <2>1, <2>2, <1>3
<1>8. QED
  BY <1>3, <1>4, <1>5, <1>6, <1>7 DEF IInv

(* deregister_memory retires the entry it found, live or not, and frees    *)
(* the buffer only with its live entry.                                    *)
LEMMA DeregisterIInv ==
  ASSUME NEW a \in Addresses, IInv, DeregisterMemory(a)
  PROVE  IInv'
<1>1. PICK i \in DOMAIN mem_group :
        /\ Lookup(a, i)
        /\ freed' = IF available[i] THEN {a} ELSE {}
        /\ warned' = IF available[i] THEN {} ELSE {a}
        /\ heap' = heap \ freed'
        /\ available' = [available EXCEPT ![i] = FALSE]
        /\ UNCHANGED mem_group
  BY DEF DeregisterMemory
<1> DEFINE n == Len(mem_group)
<1>2. n \in Nat /\ i \in 1 .. n /\ mem_group[i] = a /\ available[i] \in BOOLEAN
  BY <1>1 DEF IInv, TypeOK, Lookup
<1>3. /\ available' \in Seq(BOOLEAN) /\ Len(available') = n
      /\ available'[i] = FALSE
      /\ \A k \in 1 .. n : k # i => available'[k] = available[k]
  BY <1>1, <1>2 DEF IInv, TypeOK
<1>4. TypeOK'
  BY <1>1, <1>3 DEF IInv, TypeOK
<1>5. ASSUME NEW k \in 1 .. n, available'[k] = TRUE
      PROVE  mem_group[k] \in heap'
  <2>1. k # i /\ available[k] = TRUE /\ mem_group[k] \in heap
    BY <1>3, <1>5 DEF IInv
  <2>2. available[i] = TRUE => mem_group[k] # a
    BY <1>2, <2>1 DEF IInv
  <2>3. QED
    BY <1>1, <1>2, <2>1, <2>2
<1>6. ASSUME NEW b \in heap'
      PROVE  \E k \in 1 .. n : mem_group[k] = b /\ available'[k] = TRUE
  <2>1. b \in heap /\ (available[i] = TRUE => b # a)
    BY <1>1, <1>2
  <2>2. PICK k \in 1 .. n : mem_group[k] = b /\ available[k] = TRUE
    BY <2>1 DEF IInv, Live
  <2>3. k # i
    BY <1>2, <2>1, <2>2
  <2>4. QED
    BY <1>3, <2>2, <2>3
<1>7. \A k, l \in 1 .. n :
        available'[k] = TRUE /\ available'[l] = TRUE /\ mem_group[k] = mem_group[l] => k = l
  BY <1>2, <1>3 DEF IInv
<1>8. QED
  BY <1>1, <1>4, <1>5, <1>6, <1>7 DEF IInv, Live

(* Every call preserves the inductive invariant. *)
LEMMA NextIInv == IInv /\ [Next]_vars => IInv'
<1> SUFFICES ASSUME IInv, [Next]_vars PROVE IInv'
  OBVIOUS
<1>1. CASE RegisterMemory
  BY <1>1, RegisterIInv
<1>2. ASSUME NEW a \in Addresses, DeregisterMemory(a) PROVE IInv'
  BY <1>2, DeregisterIInv
<1>3. CASE UNCHANGED vars
  BY <1>3 DEF vars, IInv, TypeOK, Live
<1>4. QED
  BY <1>1, <1>2, <1>3 DEF Next

(* The inductive invariant holds in every reachable state. *)
LEMMA Inductive == Spec => []IInv
  BY InitIInv, NextIInv, PTL DEF Spec

(* mem_group and available keep equal lengths and their types.             *)
THEOREM TypeCorrect == Spec => []TypeOK
<1>1. IInv => TypeOK
  BY DEF IInv
<1>2. QED
  BY <1>1, Inductive, PTL

(* Whatever is registered, deregistered and reused, each buffer in use has *)
(* exactly one entry that is not freed, any other address has none.        *)
THEOREM EntriesMatch == Spec => []EntriesMatchHeap
<1>1. IInv => EntriesMatchHeap
  <2> SUFFICES ASSUME IInv, NEW a \in Addresses
               PROVE  Cardinality({i \in DOMAIN mem_group : mem_group[i] = a /\ available[i]})
                        = IF a \in heap THEN 1 ELSE 0
    BY DEF EntriesMatchHeap
  <2> DEFINE E == {i \in DOMAIN mem_group : mem_group[i] = a /\ available[i]}
  <2>1. /\ DOMAIN mem_group = 1 .. Len(mem_group)
        /\ \A i \in 1 .. Len(mem_group) : available[i] \in BOOLEAN
    BY DEF IInv, TypeOK
  <2>2. CASE a \in heap
    <3>1. PICK i \in 1 .. Len(mem_group) : Live(i, a)
      BY <2>2 DEF IInv
    <3>2. \A j \in E : j = i
      BY <2>1, <3>1 DEF IInv, Live
    <3>3. i \in E
      BY <2>1, <3>1 DEF Live
    <3>4. E = {i}
      BY <3>2, <3>3
    <3>5. QED
      BY <3>4, <2>2, FS_Singleton
  <2>3. CASE a \notin heap
    <3>1. E = {}
      BY <2>1, <2>3 DEF IInv
    <3>2. QED
      BY <3>1, <2>3, FS_EmptySet
  <2>4. QED
    BY <2>2, <2>3
<1>2. QED
  BY <1>1, Inductive, PTL

(* deregister_memory gives free() only buffers that are in use. *)
THEOREM FreeSafety == Spec => NoDoubleFree
<1>1. IInv /\ [Next]_vars => [freed' \subseteq heap]_vars
  <2> SUFFICES ASSUME IInv, Next PROVE freed' \subseteq heap
    OBVIOUS
  <2>1. CASE RegisterMemory
    BY <2>1 DEF RegisterMemory
  <2>2. ASSUME NEW a \in Addresses, DeregisterMemory(a) PROVE freed' \subseteq heap
    <3>1. PICK i \in DOMAIN mem_group :
            Lookup(a, i) /\ freed' = IF available[i] THEN {a} ELSE {}
      BY <2>2 DEF DeregisterMemory
    <3>2. i \in 1 .. Len(mem_group) /\ mem_group[i] = a /\ available[i] \in BOOLEAN
      BY <3>1 DEF IInv, TypeOK, Lookup
    <3>3. QED
      BY <3>1, <3>2 DEF IInv
  <2>3. QED
    BY <2>1, <2>2 DEF Next
<1>2. QED
  BY <1>1, Inductive, PTL DEF Spec, NoDoubleFree

=============================================================================
