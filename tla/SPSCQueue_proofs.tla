-------------------------- MODULE SPSCQueue_proofs --------------------------
(***************************************************************************)
(* Proofs, for every capacity of at least 2 and every element type, that   *)
(* the ring buffer is type correct, that its two threads never touch the   *)
(* same slot, that objects live exactly between construction and           *)
(* destruction, and that it implements BoundedFIFO.                        *)
(***************************************************************************)
EXTENDS SPSCQueue, TLAPS

(* i lies in the cyclic interval from tail to just before head. *)
Between(i) ==
  IF tail <= head THEN tail <= i /\ i < head ELSE tail <= i \/ i < head

(* The slots that hold an object: the published ones that are not yet      *)
(* destroyed, and the one constructed but not yet published.               *)
Occupied(i) ==
  \/ Between(i) /\ ~(cpc = "store" /\ i = tail)
  \/ ppc = "store" /\ i = head

(* The inductive invariant: besides which slots hold objects, it records   *)
(* what each thread's check established and the other thread cannot undo.  *)
IInv ==
  /\ TypeOK
  /\ \A i \in Index : slots[i] \in Values <=> Occupied(i)
  /\ ppc # "idle" => arg \in Values
  /\ ppc \in {"construct", "store"} => Succ(head) # tail
  /\ cpc \in {"move", "destroy", "store"} => head # tail
  /\ cpc = "move" => pop_op = "blocking_pop"

(* Succ stays in the index range and moves. *)
LEMMA SuccInRange == \A i \in Index : Succ(i) \in Index /\ Succ(i) # i
  BY CapacityAssumption DEF Index, Succ

(* The initial state satisfies the inductive invariant. *)
LEMMA InitIInv == Init => IInv
  BY CapacityAssumption, RawAssumption
     DEF Init, IInv, TypeOK, Index, Occupied, Between

(* Every step of either thread preserves the inductive invariant. *)
LEMMA NextIInv == IInv /\ [Next]_vars => IInv'
<1> SUFFICES ASSUME IInv, [Next]_vars PROVE IInv'
  OBVIOUS
<1> USE CapacityAssumption, RawAssumption DEF IInv, TypeOK, Index, Occupied, Between
<1>1. ASSUME NEW v \in Values, NEW op \in {"emplace", "try_emplace"}, Emplace(v, op)
      PROVE  IInv'
  BY <1>1 DEF Emplace, cvars
<1>2. ASSUME NEW op \in {"blocking_pop", "front_pop"}, StartPop(op)
      PROVE  IInv'
  BY <1>2 DEF StartPop, pvars
<1>3. CASE TryEmplaceFull
  BY <1>3 DEF TryEmplaceFull, cvars
<1>4. CASE EmplaceClear
  BY <1>4 DEF EmplaceClear, cvars
<1>5. CASE EmplaceConstruct
  BY <1>5 DEF EmplaceConstruct, cvars, Succ
<1>6. CASE EmplaceStore
  BY <1>6 DEF EmplaceStore, cvars, Succ
<1>7. CASE FrontNull
  BY <1>7 DEF FrontNull, pvars
<1>8. CASE Front
  BY <1>8 DEF Front, pvars
<1>9. CASE MoveOut
  BY <1>9 DEF MoveOut, pvars
<1>10. CASE PopDestroy
  BY <1>10 DEF PopDestroy, pvars, Succ
<1>11. CASE PopStore
  BY <1>11 DEF PopStore, pvars, Succ
<1>12. CASE UNCHANGED vars
  BY <1>12 DEF vars, pvars, cvars
<1>13. QED
  BY <1>1, <1>2, <1>3, <1>4, <1>5, <1>6, <1>7, <1>8, <1>9, <1>10, <1>11, <1>12
     DEF Next, ProducerStep, ConsumerStep

(* The inductive invariant holds in every reachable state. *)
LEMMA Inductive == Spec => []IInv
  BY InitIInv, NextIInv, PTL DEF Spec

(* Every variable keeps its type: indices stay inside slots_, and a slot   *)
(* holds an element or raw memory.                                         *)
THEOREM TypeCorrect == Spec => []TypeOK
<1>1. IInv => TypeOK
  BY DEF IInv
<1>2. QED
  BY <1>1, Inductive, PTL

(* The two threads never access the same slot at the same time. *)
THEOREM SlotRaceFreedom == Spec => []NoSlotRace
<1>1. IInv => NoSlotRace
  BY DEF IInv, NoSlotRace
<1>2. QED
  BY <1>1, Inductive, PTL

(* emplace constructs only in raw memory, and blocking_pop and pop only    *)
(* read and destroy a constructed element.                                 *)
THEOREM LifetimeSafety == Spec => []ObjectLifetime
<1>1. IInv => ObjectLifetime
  BY CapacityAssumption
     DEF IInv, TypeOK, Index, Occupied, Between, ObjectLifetime
<1>2. QED
  BY <1>1, Inductive, PTL

-----------------------------------------------------------------------------
(* Refinement. *)

(* A function over 1..n is a sequence of length n. *)
LEMMA FunIsSeq ==
  ASSUME NEW S, NEW n \in Nat, NEW f \in [1 .. n -> S]
  PROVE  f \in Seq(S) /\ Len(f) = n
  OBVIOUS

(* Two sequences of the same length with the same elements are equal. *)
LEMMA SeqEqual ==
  ASSUME NEW S, NEW s \in Seq(S), NEW t \in Seq(S), Len(s) = Len(t),
         \A k \in 1 .. Len(s) : s[k] = t[k]
  PROVE  s = t
  OBVIOUS

(* What Contents is: a sequence of elements, shorter than the ring. *)
ContentsOK ==
  /\ First \in Index
  /\ Distance(head, First) \in 0 .. Capacity - 1
  /\ Contents \in Seq(Values)
  /\ Len(Contents) = Distance(head, First)
  /\ \A k \in 1 .. Len(Contents) : Contents[k] = slots[Plus(First, k - 1)]

(* The inductive invariant makes Contents a bounded sequence of elements. *)
LEMMA ContentsType == IInv => ContentsOK
<1> SUFFICES ASSUME IInv PROVE ContentsOK
  OBVIOUS
<1> USE CapacityAssumption DEF Index
<1>1. First \in Index
  BY SuccInRange DEF IInv, TypeOK, First
<1>2. Distance(head, First) \in 0 .. Capacity - 1
  BY <1>1 DEF IInv, TypeOK, Distance
<1>3. ASSUME NEW k \in 1 .. Distance(head, First)
      PROVE  slots[Plus(First, k - 1)] \in Values
  <2>1. Plus(First, k - 1) \in Index
    BY <1>1, <1>2, <1>3 DEF Plus
  <2>2. Occupied(Plus(First, k - 1))
    BY <1>1, <1>2, <1>3
       DEF IInv, TypeOK, Occupied, Between, Plus, Distance, First, Taken, Succ
  <2>3. QED
    BY <2>1, <2>2 DEF IInv
<1>4. Contents \in [1 .. Distance(head, First) -> Values]
  BY <1>3 DEF Contents
<1>5. QED
  BY <1>1, <1>2, <1>4, FunIsSeq, SMTT(30) DEF Contents, ContentsOK

(* The initial ring is the empty queue. *)
LEMMA InitRefines == Init => FIFO!Init
<1> SUFFICES ASSUME Init PROVE FIFO!Init
  OBVIOUS
<1>1. IInv /\ Distance(head, First) = 0
  BY InitIInv DEF Init, Distance, First, Taken
<1>2. Len(Contents) = 0 /\ Contents \in Seq(Values)
  BY <1>1, ContentsType DEF ContentsOK
<1>3. Contents = << >>
  BY <1>2
<1>4. QED
  BY <1>3, RawAssumption DEF Init, FIFO!Init

(* If neither the ring's interval nor the slots inside it change, neither  *)
(* does the queue it represents.                                           *)
LEMMA ContentsUnchanged ==
  ASSUME First' = First, head' = head,
         ContentsOK, 
         \A k \in 1 .. Distance(head, First) :
           slots'[Plus(First, k - 1)] = slots[Plus(First, k - 1)]
  PROVE  Contents' = Contents
  BY DEF Contents, Distance, Plus

(* Every step of the ring buffer is a step of the FIFO or leaves it alone. *)
LEMMA StepRefines == IInv /\ IInv' /\ [Next]_vars => [FIFO!Next]_(FIFO!vars)
<1> SUFFICES ASSUME IInv, IInv', [Next]_vars
             PROVE  FIFO!Next \/ UNCHANGED FIFO!vars
  OBVIOUS
<1>a. ContentsOK
  BY ContentsType
<1>b. ContentsOK'
  <2>1. (IInv => ContentsOK)'
    BY ContentsType, PTL
  <2>2. QED
    BY <2>1
<1> USE CapacityAssumption DEF Index
<1>1. ASSUME NEW v \in Values, NEW op \in {"emplace", "try_emplace"}, Emplace(v, op)
      PROVE  UNCHANGED FIFO!vars
  BY <1>1, <1>a, ContentsUnchanged DEF Emplace, cvars, First, Taken, FIFO!vars
<1>2. ASSUME NEW op \in {"blocking_pop", "front_pop"}, StartPop(op)
      PROVE  UNCHANGED FIFO!vars
  BY <1>2, <1>a, ContentsUnchanged DEF StartPop, pvars, First, Taken, FIFO!vars
<1>3. CASE TryEmplaceFull
  BY <1>3, <1>a, ContentsUnchanged DEF TryEmplaceFull, cvars, First, Taken, FIFO!vars
<1>4. CASE EmplaceClear
  BY <1>4, <1>a, ContentsUnchanged DEF EmplaceClear, cvars, First, Taken, FIFO!vars
<1>5. CASE EmplaceConstruct
  <2>1. \A k \in 1 .. Distance(head, First) : Plus(First, k - 1) # head
    BY <1>a DEF ContentsOK, Plus, Distance, IInv, TypeOK
  <2>2. First' = First /\ head' = head /\ real_data' = real_data
    BY <1>5 DEF EmplaceConstruct, cvars, First, Taken
  <2>3. Contents' = Contents
    BY <1>5, <1>a, <2>1, <2>2, ContentsUnchanged DEF EmplaceConstruct, IInv, TypeOK
  <2>4. QED
    BY <2>2, <2>3 DEF FIFO!vars
<1>6. CASE EmplaceStore
  <2>1. /\ First' = First /\ slots' = slots /\ real_data' = real_data
        /\ head' = Succ(head) /\ tail' = tail
    BY <1>6 DEF EmplaceStore, cvars, First, Taken
  <2>2. /\ Distance(head', First) = Distance(head, First) + 1
        /\ Distance(head, First) < Capacity - 1
    BY <1>6, <2>1, <1>a
       DEF EmplaceStore, IInv, TypeOK, ContentsOK, Distance, Succ, First, Taken
  <2>3. Plus(First, Distance(head, First)) = head
    BY <1>a DEF ContentsOK, Plus, Distance, IInv, TypeOK
  <2>4. slots[head] \in Values
    BY <1>6 DEF EmplaceStore, IInv, TypeOK, Occupied
  <2> DEFINE q == Append(Contents, slots[head])
  <2>5. q \in Seq(Values) /\ Len(q) = Len(Contents) + 1
    BY <1>a, <2>4 DEF ContentsOK
  <2>6. Contents' \in Seq(Values) /\ Len(Contents') = Len(q)
    BY <1>a, <1>b, <2>1, <2>2, <2>5 DEF ContentsOK, Distance
  <2>7. ASSUME NEW k \in 1 .. Len(q) PROVE Contents'[k] = q[k]
    <3>1. Contents'[k] = slots[Plus(First, k - 1)]
      BY <1>b, <2>1, <2>6 DEF ContentsOK, Plus
    <3>2. CASE k = Len(q)
      BY <3>1, <3>2, <2>3, <2>5, <1>a DEF ContentsOK
    <3>3. CASE k # Len(q)
      BY <3>1, <3>3, <2>5, <1>a DEF ContentsOK
    <3>4. QED
      BY <3>2, <3>3
  <2>8. Contents' = q
    BY <2>5, <2>6, <2>7, SeqEqual
  <2>9. FIFO!Push
    BY <2>1, <2>2, <2>4, <2>8, <1>a DEF FIFO!Push, ContentsOK
  <2>10. QED
    BY <2>9 DEF FIFO!Next
<1>7. CASE FrontNull
  BY <1>7, <1>a, ContentsUnchanged DEF FrontNull, pvars, First, Taken, FIFO!vars
<1>8. CASE Front
  BY <1>8, <1>a, ContentsUnchanged DEF Front, pvars, First, Taken, FIFO!vars
<1>c. ASSUME ~Taken, Taken', head' = head, tail' = tail, head # tail,
             \A i \in Index : i # tail => slots'[i] = slots[i]
      PROVE  /\ Contents # << >>
             /\ Head(Contents) = slots[tail]
             /\ Contents' = Tail(Contents)
  <2>1. First = tail /\ First' = Succ(tail)
    BY <1>c DEF First, Succ
  <2>2. Len(Contents) > 0 /\ Plus(tail, 0) = tail
    BY <1>a, <1>c, <2>1 DEF ContentsOK, Distance, Plus, IInv, TypeOK
  <2>3. Head(Contents) = slots[tail] /\ Contents # << >>
    BY <1>a, <2>1, <2>2 DEF ContentsOK
  <2> DEFINE q == Tail(Contents)
  <2>4. /\ q \in Seq(Values)
        /\ Len(q) = Len(Contents) - 1
        /\ \A k \in 1 .. Len(q) : q[k] = Contents[k + 1]
    BY <1>a, <2>2, <2>3 DEF ContentsOK
  <2>5. Distance(head, Succ(tail)) = Distance(head, tail) - 1
    BY <1>c DEF Distance, Succ, IInv, TypeOK
  <2>6. Contents' \in Seq(Values) /\ Len(Contents') = Len(q)
    BY <1>a, <1>b, <1>c, <2>1, <2>4, <2>5 DEF ContentsOK, Distance
  <2>7. ASSUME NEW k \in 1 .. Len(q) PROVE Contents'[k] = q[k]
    <3>1. Contents'[k] = slots'[Plus(Succ(tail), k - 1)]
      BY <1>b, <2>1, <2>6 DEF ContentsOK, Plus
    <3>2. Plus(Succ(tail), k - 1) = Plus(tail, k) /\ Plus(tail, k) \in Index
          /\ Plus(tail, k) # tail
      BY <1>a, <2>1, <2>4 DEF ContentsOK, Plus, Succ, IInv, TypeOK
    <3>3. q[k] = slots[Plus(tail, k)]
      BY <1>a, <2>1, <2>4 DEF ContentsOK
    <3>4. QED
      BY <3>1, <3>2, <3>3, <1>c
  <2>8. Contents' = q
    BY <2>4, <2>6, <2>7, SeqEqual
  <2>9. QED
    BY <2>3, <2>8
<1>9. CASE MoveOut
  <2>1. FIFO!Take
    BY <1>9, <1>c DEF MoveOut, pvars, Taken, IInv, FIFO!Take
  <2>2. QED
    BY <2>1 DEF FIFO!Next
<1>10. CASE PopDestroy
  <2>1. CASE pop_op = "blocking_pop"
    <3>1. \A k \in 1 .. Distance(head, First) : Plus(First, k - 1) # tail
      BY <1>10, <2>1, <1>a
         DEF PopDestroy, ContentsOK, Plus, Distance, First, Taken, Succ, IInv, TypeOK
    <3>2. First' = First /\ head' = head /\ real_data' = real_data
      BY <1>10, <2>1 DEF PopDestroy, First, Taken
    <3>3. Contents' = Contents
      BY <1>10, <1>a, <3>1, <3>2, ContentsUnchanged DEF PopDestroy, IInv, TypeOK
    <3>4. QED
      BY <3>2, <3>3 DEF FIFO!vars
  <2>2. CASE pop_op # "blocking_pop"
    <3>1. FIFO!Drop
      BY <1>10, <1>c, <2>2 DEF PopDestroy, pvars, Taken, IInv, TypeOK, FIFO!Drop
    <3>2. QED
      BY <3>1 DEF FIFO!Next
  <2>3. QED
    BY <2>1, <2>2
<1>11. CASE PopStore
  <2>1. First' = First /\ head' = head /\ slots' = slots /\ real_data' = real_data
    BY <1>11 DEF PopStore, First, Taken
  <2>2. Contents' = Contents
    BY <1>a, <2>1, ContentsUnchanged
  <2>3. QED
    BY <2>1, <2>2 DEF FIFO!vars
<1>12. CASE UNCHANGED vars
  BY <1>12, <1>a, ContentsUnchanged DEF vars, pvars, cvars, First, Taken, FIFO!vars
<1>13. QED
  BY <1>1, <1>2, <1>3, <1>4, <1>5, <1>6, <1>7, <1>8, <1>9, <1>10, <1>11, <1>12
     DEF Next, ProducerStep, ConsumerStep

(* The ring buffer, whatever its capacity and however its threads          *)
(* interleave, implements a FIFO queue of capacity_ - 1 elements.          *)
THEOREM Refinement == Spec => ImplementsFIFO
  BY Inductive, InitRefines, StepRefines, PTL DEF Spec, ImplementsFIFO, FIFO!Spec

=============================================================================
