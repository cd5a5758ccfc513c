----------------------- MODULE AllReduceServer_proofs -----------------------
(***************************************************************************)
(* Proofs, for every finite set of senders, every division into groups and *)
(* any number of deaths, that the single-threaded receiver is type         *)
(* correct, loses no session between its queues, broadcasts no round       *)
(* before it is reduced, and implements AllReduceBarrier.                  *)
(***************************************************************************)
EXTENDS AllReduceServer, SequenceTheorems, FiniteSetTheorems, TLAPS

Distinct(q) == \A j, k \in 1 .. Len(q) : q[j] = q[k] => j = k

(* The sessions of group i that are up are in its two queues, each once. *)
QueuesOK ==
  \A i \in 1 .. K :
    /\ Distinct(inflight[i]) /\ Distinct(ready[i])
    /\ Elems(inflight[i]) \cap Elems(ready[i]) = {}
    /\ Elems(inflight[i]) \cup Elems(ready[i]) = {c \in running : GroupOf[c] = i}

(* How far the start has come, and where the two loops over the groups are. *)
ControlOK ==
  /\ Distinct(sess_group)
  /\ Cardinality(Elems(sess_group)) = Len(sess_group)
  /\ running = {sess_group[i] : i \in 1 .. initiated}
  /\ spc = "accept" => initiated = 0 /\ g = 1 /\ Len(sess_group) < Cardinality(Clients)
  /\ spc = "init" => g = 1 /\ initiated < Len(sess_group) /\ Elems(sess_group) = Clients
  /\ spc \in {"reduce", "rearm", "poll", "broadcast"} => running = Clients
  /\ spc \in {"reduce", "rearm", "poll"} => \A i \in 1 .. K : i < g => inflight[i] = << >>
  /\ spc = "broadcast" => \A i \in 1 .. K : i > g => ready[i] = << >>

(* The sessions whose push of this round the server has taken. *)
Taken == {c \in Clients : c \in Elems(ready[GroupOf[c]])}

(* A session is ready if one more of its pushes was taken than answered;   *)
(* all are answered equally often until broadcast starts, and all are      *)
(* reduced equally often from then on.                                     *)
RoundsOK ==
  /\ \A c \in Clients : /\ c \in Taken => reduced[c] = ctrl[c] + 1
                        /\ c \notin Taken => reduced[c] = ctrl[c]
  /\ spc # "broadcast" => \A c, d \in Clients : ctrl[c] = ctrl[d]
  /\ spc = "broadcast" => \A c, d \in Clients : reduced[c] = reduced[d]

(* The sessions whose push has arrived and is not polled. *)
Arrived == {c \in Clients : \E k \in 1 .. Len(cq[c]) : cq[c][k] = "IMM"}

(* A push is on the wire, then in the completion queue, then reduced; and  *)
(* a sender has pushed once more than it has used up control messages.     *)
TrafficOK ==
  \A c \in Clients :
    /\ c \in Arrived => data[c] = reduced[c] + wire[c] + 1
    /\ c \notin Arrived => data[c] = reduced[c] + wire[c]
    /\ \A j, k \in 1 .. Len(cq[c]) : cq[c][j] = "IMM" /\ cq[c][k] = "IMM" => j = k
    /\ data[c] = 0 => credits[c] = 0
    /\ data[c] > 0 => credits[c] + data[c] = ctrl[c] + 1

(* An event is only raised by disarming the queue. *)
EventsOK ==
  /\ \A c \in Clients : events[c] = 1 => ~armed[c]
  /\ spc = "rearm" => /\ inflight[g] # << >>
                      /\ ~armed[Head(inflight[g])]
                      /\ events[Head(inflight[g])] = 0

IInv == TypeOK /\ QueuesOK /\ ControlOK /\ RoundsOK /\ TrafficOK /\ EventsOK

-----------------------------------------------------------------------------
(* Queues. *)

(* The empty queue has no elements, and every other one has its head. *)
LEMMA EmptyElems ==
  /\ Elems(<< >>) = {} /\ Distinct(<< >>)
  /\ \A S : \A s \in Seq(S) : s # << >> => Head(s) \in Elems(s) /\ Head(s) \in S
  BY DEF Elems, Distinct

(* push: a new element joins the others. *)
LEMMA AppendElems ==
  ASSUME NEW S, NEW s \in Seq(S), NEW e \in S
  PROVE  /\ Append(s, e) \in Seq(S)
         /\ Append(s, e) # << >>
         /\ Elems(Append(s, e)) = Elems(s) \cup {e}
         /\ Distinct(s) /\ e \notin Elems(s) => Distinct(Append(s, e))
<1> DEFINE t == Append(s, e)
<1>1. /\ t \in Seq(S) /\ t # << >>
      /\ Len(t) = Len(s) + 1
      /\ \A i \in 1 .. Len(s) : t[i] = s[i]
      /\ t[Len(s) + 1] = e
  BY AppendProperties
<1>2. DOMAIN s = 1 .. Len(s) /\ DOMAIN t = 1 .. Len(s) + 1 /\ Len(s) \in Nat
  BY <1>1, LenProperties
<1> HIDE DEF t
<1>3. Elems(t) = Elems(s) \cup {e}
  BY <1>1, <1>2 DEF Elems
<1>4. ASSUME Distinct(s), e \notin Elems(s) PROVE Distinct(t)
  BY <1>1, <1>2, <1>4 DEF Elems, Distinct
<1>5. QED
  BY <1>1, <1>3, <1>4 DEF t

(* pop: the head leaves the others. *)
LEMMA TailElems ==
  ASSUME NEW S, NEW s \in Seq(S), s # << >>, Distinct(s)
  PROVE  /\ Tail(s) \in Seq(S)
         /\ Head(s) \in S
         /\ Head(s) \in Elems(s)
         /\ Elems(Tail(s)) = Elems(s) \ {Head(s)}
         /\ Distinct(Tail(s))
<1> DEFINE t == Tail(s)
<1>1. /\ t \in Seq(S) /\ Head(s) \in S /\ Head(s) = s[1]
      /\ Len(t) = Len(s) - 1
      /\ \A i \in 1 .. Len(t) : t[i] = s[i + 1]
  BY HeadTailProperties
<1>2. DOMAIN s = 1 .. Len(s) /\ DOMAIN t = 1 .. Len(s) - 1 /\ Len(s) \in Nat \ {0}
  BY <1>1, LenProperties, EmptySeq
<1> HIDE DEF t
<1>3. Elems(t) \subseteq Elems(s) \ {Head(s)}
  BY <1>1, <1>2 DEF Elems, Distinct
<1>4. ASSUME NEW e \in Elems(s), e # Head(s) PROVE e \in Elems(t)
  <2>1. PICK k \in 1 .. Len(s) : e = s[k]
    BY <1>2 DEF Elems
  <2>2. k - 1 \in 1 .. Len(t) /\ t[k - 1] = s[k]
    BY <2>1, <1>1, <1>2, <1>4
  <2>3. QED
    BY <2>1, <2>2, <1>1, <1>2 DEF Elems
<1>5. Distinct(t)
  BY <1>1, <1>2 DEF Distinct
<1>6. Head(s) \in Elems(s)
  BY <1>1, <1>2 DEF Elems
<1>7. Elems(t) = Elems(s) \ {Head(s)}
  BY <1>3, <1>4
<1>8. QED
  BY <1>1, <1>5, <1>6, <1>7 DEF t

(* pop and push: the head goes to the back. *)
LEMMA RotateElems ==
  ASSUME NEW S, NEW s \in Seq(S), s # << >>, Distinct(s)
  PROVE  /\ Append(Tail(s), Head(s)) \in Seq(S)
         /\ Append(Tail(s), Head(s)) # << >>
         /\ Elems(Append(Tail(s), Head(s))) = Elems(s)
         /\ Distinct(Append(Tail(s), Head(s)))
<1>1. /\ Tail(s) \in Seq(S) /\ Head(s) \in S /\ Head(s) \in Elems(s)
      /\ Elems(Tail(s)) = Elems(s) \ {Head(s)}
      /\ Distinct(Tail(s))
  BY TailElems
<1> DEFINE t == Tail(s)
           e == Head(s)
<1>a. t \in Seq(S) /\ e \in S /\ Distinct(t) /\ e \notin Elems(t)
  BY <1>1
<1> HIDE DEF t, e
<1>b. /\ Append(t, e) \in Seq(S)
      /\ Append(t, e) # << >>
      /\ Elems(Append(t, e)) = Elems(t) \cup {e}
      /\ Distinct(Append(t, e))
  BY <1>a, AppendElems
<1>2. QED
  BY <1>1, <1>b DEF t, e

(* The groups are numbered from 1 to K, and every sender has one. *)
LEMMA GroupFacts ==
  ASSUME GroupOf \in Groupings
  PROVE  /\ K \in Nat /\ K >= 1
         /\ \A c \in Clients : GroupOf[c] \in 1 .. K
<1>1. PICK k \in 1 .. Cardinality(Clients) :
        GroupOf \in [Clients -> 1 .. k] /\ {GroupOf[c] : c \in Clients} = 1 .. k
  BY GroupAssumption
<1>2. Cardinality(Clients) \in Nat
  BY ClientsAssumption, FS_CardinalityType
<1>3. Cardinality(1 .. k) = k
  BY <1>1, <1>2, FS_Interval
<1>4. K = k
  BY <1>1, <1>3 DEF K
<1>5. QED
  BY <1>1, <1>2, <1>4

-----------------------------------------------------------------------------
(* Completion queues. *)

(* A completion that is not the data does not make the session look as if  *)
(* it had sent some; the data does, and is the only one.                   *)
LEMMA CompleteCq ==
  ASSUME NEW S, NEW s \in Seq(S), NEW wc \in S, NEW t, t = Append(s, wc)
  PROVE  /\ t \in Seq(S)
         /\ (\E k \in 1 .. Len(t) : t[k] = "IMM")
              <=> wc = "IMM" \/ (\E k \in 1 .. Len(s) : s[k] = "IMM")
         /\ /\ \A j, k \in 1 .. Len(s) : s[j] = "IMM" /\ s[k] = "IMM" => j = k
            /\ wc = "IMM" => ~ \E k \in 1 .. Len(s) : s[k] = "IMM"
            => \A j, k \in 1 .. Len(t) : t[j] = "IMM" /\ t[k] = "IMM" => j = k
<1>1. /\ t \in Seq(S) /\ Len(s) \in Nat
      /\ Len(t) = Len(s) + 1
      /\ \A i \in 1 .. Len(s) : t[i] = s[i]
      /\ t[Len(s) + 1] = wc
  BY AppendProperties
<1>2. (\E k \in 1 .. Len(t) : t[k] = "IMM")
        <=> wc = "IMM" \/ (\E k \in 1 .. Len(s) : s[k] = "IMM")
  BY <1>1
<1>3. ASSUME \A j, k \in 1 .. Len(s) : s[j] = "IMM" /\ s[k] = "IMM" => j = k,
             wc = "IMM" => ~ \E k \in 1 .. Len(s) : s[k] = "IMM",
             NEW j \in 1 .. Len(t), NEW k \in 1 .. Len(t), t[j] = "IMM", t[k] = "IMM"
      PROVE  j = k
  BY <1>1, <1>3
<1>4. QED
  BY <1>1, <1>2, <1>3

(* Polling takes away the data if it is at the head, and only then. *)
LEMMA PollCq ==
  ASSUME NEW S, NEW s \in Seq(S), s # << >>,
         \A j, k \in 1 .. Len(s) : s[j] = "IMM" /\ s[k] = "IMM" => j = k
  PROVE  LET t == Tail(s)
         IN  /\ t \in Seq(S)
             /\ \A j, k \in 1 .. Len(t) : t[j] = "IMM" /\ t[k] = "IMM" => j = k
             /\ Head(s) = "IMM" => /\ \E k \in 1 .. Len(s) : s[k] = "IMM"
                                   /\ ~ \E k \in 1 .. Len(t) : t[k] = "IMM"
             /\ Head(s) # "IMM" => ((\E k \in 1 .. Len(t) : t[k] = "IMM")
                                       <=> \E k \in 1 .. Len(s) : s[k] = "IMM")
<1> DEFINE t == Tail(s)
<1>1. /\ t \in Seq(S) /\ Head(s) = s[1] /\ Len(s) \in Nat \ {0}
      /\ Len(t) = Len(s) - 1
      /\ \A i \in 1 .. Len(t) : t[i] = s[i + 1]
  BY HeadTailProperties, EmptySeq
<1> HIDE DEF t
<1>2. \A j, k \in 1 .. Len(t) : t[j] = "IMM" /\ t[k] = "IMM" => j = k
  BY <1>1
<1>3. ASSUME Head(s) = "IMM"
      PROVE  /\ \E k \in 1 .. Len(s) : s[k] = "IMM"
             /\ ~ \E k \in 1 .. Len(t) : t[k] = "IMM"
  BY <1>1, <1>3
<1>4. ASSUME Head(s) # "IMM", NEW k \in 1 .. Len(s), s[k] = "IMM"
      PROVE  \E j \in 1 .. Len(t) : t[j] = "IMM"
  <2>1. k - 1 \in 1 .. Len(t) /\ t[k - 1] = s[k]
    BY <1>1, <1>4
  <2>2. QED
    BY <2>1, <1>4
<1>5. ASSUME NEW k \in 1 .. Len(t), t[k] = "IMM"
      PROVE  \E j \in 1 .. Len(s) : s[j] = "IMM"
  <2>1. k + 1 \in 1 .. Len(s) /\ t[k] = s[k + 1]
    BY <1>1
  <2>2. QED
    BY <2>1, <1>5
<1>6. QED
  BY <1>1, <1>2, <1>3, <1>4, <1>5 DEF t

-----------------------------------------------------------------------------
(* Every step preserves the inductive invariant. *)

(* The initial states satisfy it. *)
LEMMA InitIInv == Init => IInv
<1> SUFFICES ASSUME Init PROVE IInv
  OBVIOUS
<1>1. K \in Nat /\ K >= 1
  BY GroupFacts DEF Init
<1>2. Cardinality(Clients) \in Nat \ {0}
  BY ClientsAssumption, FS_CardinalityType, FS_EmptySet
<1>3. TypeOK
  BY <1>1, RoundsAssumption DEF Init, TypeOK
<1>4. QueuesOK
  BY EmptyElems DEF Init, QueuesOK
<1>5. ControlOK
  <2>1. Cardinality(Elems(sess_group)) = 0 /\ Len(sess_group) = 0 /\ Distinct(sess_group)
    BY EmptyElems, FS_EmptySet DEF Init
  <2>2. running = {sess_group[i] : i \in 1 .. initiated}
    BY DEF Init
  <2>3. QED
    BY <1>2, <2>1, <2>2 DEF Init, ControlOK
<1>6. \A c \in Clients : c \notin Taken
  BY GroupFacts, EmptyElems DEF Init, Taken
<1>7. RoundsOK
  BY <1>6 DEF Init, RoundsOK
<1>8. TrafficOK
  BY DEF Init, TrafficOK, Arrived
<1>9. EventsOK
  BY DEF Init, EventsOK
<1>10. QED
  BY <1>3, <1>4, <1>5, <1>7, <1>8, <1>9 DEF IInv

(* What every action may use of the types. *)
LEMMA TypeFacts ==
  ASSUME TypeOK
  PROVE  /\ K \in Nat /\ K >= 1 /\ g \in 1 .. K
         /\ \A c \in Clients : GroupOf[c] \in 1 .. K
         /\ \A i \in 1 .. K : inflight[i] \in Seq(Clients) /\ ready[i] \in Seq(Clients)
         /\ \A c \in Clients : cq[c] \in Seq({"IMM", "SEND", "ERR"})
         /\ Cardinality(Clients) \in Nat \ {0}
  BY GroupFacts, ClientsAssumption, FS_CardinalityType, FS_EmptySet DEF TypeOK

(* The counters of every session are natural numbers. *)
LEMMA CountFacts ==
  ASSUME TypeOK, NEW c \in Clients
  PROVE  /\ data[c] \in Nat /\ reduced[c] \in Nat /\ ctrl[c] \in Nat
         /\ wire[c] \in Nat /\ credits[c] \in Nat /\ unacked[c] \in Nat
         /\ data[c] <= Rounds /\ reduced[c] <= Rounds /\ ctrl[c] <= Rounds
<1>1. data[c] \in 0 .. Rounds /\ reduced[c] \in 0 .. Rounds /\ ctrl[c] \in 0 .. Rounds
  BY DEF TypeOK
<1>2. wire[c] \in Nat /\ credits[c] \in Nat /\ unacked[c] \in Nat
  BY DEF TypeOK
<1>3. QED
  BY <1>1, <1>2, RoundsAssumption

(* connecting. *)
LEMMA AcceptIInv ==
  ASSUME IInv, NEW c \in Clients, Accept(c)
  PROVE  IInv'
<1> USE DEF IInv
<1>0. K' = K /\ K \in Nat /\ Cardinality(Clients) \in Nat \ {0}
  BY TypeFacts DEF Accept, conf, K
<1>1. sess_group \in Seq(Clients) /\ c \notin Elems(sess_group) /\ Distinct(sess_group)
      /\ sess_group' = Append(sess_group, c) /\ Len(sess_group) \in Nat
      /\ Cardinality(Elems(sess_group)) = Len(sess_group)
  BY DEF Accept, TypeOK, ControlOK
<1>2. /\ sess_group' \in Seq(Clients) /\ Elems(sess_group') = Elems(sess_group) \cup {c}
      /\ Distinct(sess_group')
      /\ Len(sess_group') = Len(sess_group) + 1
  BY <1>1, AppendElems, AppendProperties
<1>3. Elems(sess_group) \subseteq Clients /\ Elems(sess_group') \subseteq Clients
  BY <1>1, <1>2 DEF Elems
<1>4. IsFiniteSet(Elems(sess_group))
  BY <1>3, ClientsAssumption, FS_Subset
<1>5. Cardinality(Elems(sess_group')) = Len(sess_group')
  BY <1>1, <1>2, <1>4, FS_AddElement
<1>6. TypeOK'
  <2>1. initiated' \in 0 .. Len(sess_group')
    BY <1>1, <1>2 DEF Accept, TypeOK
  <2>2. spc' \in {"accept", "init"}
    BY DEF Accept
  <2>3. QED
    BY <1>0, <1>2, <2>1, <2>2 DEF Accept, TypeOK, conf, queues, net, cqs, counts
<1>7. QueuesOK'
  BY <1>0 DEF Accept, QueuesOK, conf, queues
<1>8. ControlOK'
  <2>1. spc = "accept" /\ initiated = 0 /\ initiated' = 0 /\ g = 1 /\ g' = 1
        /\ Len(sess_group) < Cardinality(Clients) /\ running' = running
    BY DEF Accept, ControlOK
  <2>2. running' = {sess_group'[i] : i \in 1 .. initiated'}
    BY <2>1 DEF ControlOK
  <2>3. CASE Len(sess_group) + 1 = Cardinality(Clients)
    <3>1. Elems(sess_group') = Clients
      BY <2>3, <1>2, <1>3, <1>5, ClientsAssumption, FS_Subset
    <3>2. QED
      BY <1>0, <1>1, <1>2, <1>5, <2>1, <2>2, <2>3, <3>1 DEF Accept, ControlOK
  <2>4. CASE Len(sess_group) + 1 # Cardinality(Clients)
    BY <1>0, <1>1, <1>2, <1>5, <2>1, <2>2, <2>4 DEF Accept, ControlOK
  <2>5. QED
    BY <2>3, <2>4
<1>9. RoundsOK'
  BY DEF Accept, RoundsOK, Taken, conf, queues, counts
<1>10. TrafficOK'
  BY DEF Accept, TrafficOK, Arrived, net, cqs, counts
<1>11. EventsOK'
  BY DEF Accept, EventsOK, net, cqs
<1>12. QED
  BY <1>6, <1>7, <1>8, <1>9, <1>10, <1>11

(* One turn of the loop over sess_group. *)
LEMMA SessionInitIInv ==
  ASSUME IInv, SessionInit
  PROVE  IInv'
<1> USE DEF IInv
<1> DEFINE c == sess_group[initiated + 1]
           i == GroupOf[c]
<1>0. K' = K /\ K \in Nat /\ GroupOf' = GroupOf
  BY TypeFacts DEF SessionInit, conf, K
<1>1. /\ spc = "init" /\ g = 1 /\ g' = 1 /\ initiated \in Nat
      /\ Elems(sess_group) = Clients /\ sess_group \in Seq(Clients)
      /\ initiated + 1 \in 1 .. Len(sess_group) /\ Len(sess_group) \in Nat
      /\ DOMAIN sess_group = 1 .. Len(sess_group)
  BY DEF SessionInit, TypeOK, ControlOK
<1>2. c \in Clients
  BY <1>1, ElementOfSeq
<1>3. c \notin running
  BY <1>1 DEF ControlOK, Distinct
<1>4. /\ i \in 1 .. K /\ inflight[i] \in Seq(Clients) /\ Distinct(inflight[i])
      /\ c \notin Elems(inflight[i]) /\ c \notin Elems(ready[i])
  BY <1>2, <1>3, TypeFacts DEF QueuesOK
<1>5. /\ running' = running \cup {c}
      /\ inflight' = [inflight EXCEPT ![i] = Append(@, c)]
      /\ initiated' = initiated + 1 /\ sess_group' = sess_group
      /\ spc' = IF initiated + 1 = Len(sess_group) THEN "reduce" ELSE "init"
      /\ ready' = ready
  BY DEF SessionInit
<1> HIDE DEF c, i
<1>6. /\ Append(inflight[i], c) \in Seq(Clients)
      /\ Elems(Append(inflight[i], c)) = Elems(inflight[i]) \cup {c}
      /\ Distinct(Append(inflight[i], c))
  BY <1>2, <1>4, AppendElems
<1>7. /\ inflight' \in [1 .. K -> Seq(Clients)]
      /\ inflight'[i] = Append(inflight[i], c)
      /\ \A k \in 1 .. K : k # i => inflight'[k] = inflight[k]
  BY <1>4, <1>5, <1>6 DEF TypeOK
<1>8. TypeOK'
  <2>1. initiated' \in 0 .. Len(sess_group')
    <3>1. initiated + 1 \in 0 .. Len(sess_group)
      BY <1>1
    <3>2. QED
      BY <3>1, <1>5
  <2>2. spc' \in {"reduce", "init"}
    BY <1>5
  <2>3. running' \subseteq Clients
    BY <1>2, <1>5 DEF TypeOK
  <2>4. QED
    BY <1>0, <1>1, <1>5, <1>7, <2>1, <2>2, <2>3 DEF SessionInit, TypeOK, conf, net, cqs, counts
<1>9. QueuesOK'
  <2> SUFFICES ASSUME NEW k \in 1 .. K
               PROVE  /\ Distinct(inflight'[k]) /\ Distinct(ready'[k])
                      /\ Elems(inflight'[k]) \cap Elems(ready'[k]) = {}
                      /\ Elems(inflight'[k]) \cup Elems(ready'[k]) = {d \in running' : GroupOf'[d] = k}
    BY <1>0 DEF QueuesOK
  <2>1. CASE k = i
    <3>1. {d \in running' : GroupOf'[d] = i} = {d \in running : GroupOf[d] = i} \cup {c}
      BY <1>0, <1>5 DEF i
    <3>2. /\ Distinct(ready[i]) /\ Elems(inflight[i]) \cap Elems(ready[i]) = {}
          /\ Elems(inflight[i]) \cup Elems(ready[i]) = {d \in running : GroupOf[d] = i}
      BY <1>4 DEF QueuesOK
    <3>3. inflight'[k] = Append(inflight[i], c) /\ ready'[k] = ready[i]
      BY <2>1, <1>5, <1>7
    <3>4. QED
      BY <2>1, <3>1, <3>2, <3>3, <1>4, <1>6
  <2>2. CASE k # i
    BY <2>2, <1>0, <1>5, <1>7 DEF QueuesOK, i
  <2>3. QED
    BY <2>1, <2>2
<1>10. ControlOK'
  <2>1. running' = {sess_group'[k] : k \in 1 .. initiated'}
    BY <1>1, <1>5 DEF ControlOK, c
  <2>2. initiated + 1 = Len(sess_group) => running' = Clients
    BY <2>1, <1>1, <1>5 DEF Elems
  <2>3. \A k \in 1 .. K : ~(k < 1)
    BY <1>0
  <2>4. QED
    <3>1. spc' = "init" => initiated' < Len(sess_group')
      <4> DEFINE n == Len(sess_group)
      <4>0. n \in Nat /\ initiated + 1 \in 1 .. n
        BY <1>1
      <4> HIDE DEF n
      <4>1. initiated + 1 # n => initiated + 1 < n
        BY <4>0
      <4>2. QED
        BY <4>1, <1>5 DEF n
    <3>2. spc' \in {"reduce", "init"} /\ (spc' = "reduce" => running' = Clients)
      BY <1>5, <2>2
    <3>3. QED
      BY <1>0, <1>1, <1>5, <2>1, <2>3, <3>1, <3>2 DEF ControlOK
<1>11. RoundsOK'
  <2>1. Taken' = Taken /\ counts' = counts /\ spc # "broadcast" /\ spc' # "broadcast"
    BY <1>0, <1>1, <1>5 DEF SessionInit, Taken
  <2>2. QED
    BY <2>1 DEF RoundsOK, counts
<1>12. TrafficOK'
  BY DEF SessionInit, TrafficOK, Arrived, net, cqs, counts
<1>13. EventsOK'
  BY <1>5 DEF SessionInit, EventsOK, net, cqs
<1>14. QED
  BY <1>8, <1>9, <1>10, <1>11, <1>12, <1>13

(* ibv_get_cq_event and ibv_req_notify_cq on the session at the front. *)
LEMMA EventIInv ==
  ASSUME IInv, GetEvent \/ Rearm
  PROVE  IInv'
<1> USE DEF IInv
<1> DEFINE c == Head(inflight[g])
<1>0. K' = K /\ GroupOf' = GroupOf
  BY DEF GetEvent, Rearm, conf, K
<1>1. inflight[g] # << >> /\ inflight' = inflight /\ g' = g
  BY DEF GetEvent, Rearm, queues, EventsOK
<1>2. c \in Clients
  BY <1>1, TypeFacts, EmptyElems
<1>3. armed' \in [Clients -> BOOLEAN]
  BY DEF GetEvent, Rearm, TypeOK
<1>4. events' \in [Clients -> 0 .. 1]
  <2>1. CASE GetEvent
    <3>1. events \in [Clients -> 0 .. 1] /\ events[c] - 1 \in 0 .. 1
      BY <2>1, <1>2 DEF GetEvent, TypeOK
    <3>2. QED
      BY <2>1, <3>1 DEF GetEvent
  <2>2. CASE Rearm
    BY <2>2 DEF Rearm, TypeOK
  <2>3. QED
    BY <2>1, <2>2
<1>5. spc' \in {"rearm", "poll"} /\ spc \in {"reduce", "rearm"}
  BY DEF GetEvent, Rearm
<1>6. TypeOK'
  BY <1>0, <1>1, <1>3, <1>4, <1>5 DEF GetEvent, Rearm, TypeOK, conf, queues, counts
<1>7. QueuesOK'
  BY <1>0 DEF GetEvent, Rearm, QueuesOK, queues
<1>8. ControlOK'
  <2>1. UNCHANGED <<sess_group, initiated, running, ready>>
    BY DEF GetEvent, Rearm, queues
  <2>2. QED
    BY <2>1, <1>0, <1>1, <1>5 DEF ControlOK
<1>9. RoundsOK'
  BY <1>0, <1>5 DEF GetEvent, Rearm, RoundsOK, Taken, queues, counts
<1>10. TrafficOK'
  BY DEF GetEvent, Rearm, TrafficOK, Arrived, counts
<1>11. EventsOK'
  <2> HIDE DEF c
  <2>1. CASE GetEvent
    <3>1. armed' = armed /\ events' = [events EXCEPT ![c] = @ - 1] /\ events[c] > 0
          /\ events \in [Clients -> 0 .. 1] /\ Head(inflight'[g']) = c /\ inflight'[g'] # << >>
      BY <2>1, <1>1 DEF GetEvent, TypeOK, c
    <3>2. events[c] = 1 /\ ~armed[c]
      BY <3>1, <1>2 DEF EventsOK
    <3>3. events'[c] = 0 /\ \A d \in Clients : d # c => events'[d] = events[d]
      BY <3>1, <3>2, <1>2
    <3>4. QED
      BY <3>1, <3>2, <3>3 DEF EventsOK
  <2>2. CASE Rearm
    <3>1. events' = events /\ armed' = [armed EXCEPT ![c] = TRUE] /\ events[c] = 0
          /\ spc' = "poll" /\ armed \in [Clients -> BOOLEAN]
      BY <2>2 DEF Rearm, EventsOK, TypeOK, c
    <3>2. \A d \in Clients : d # c => armed'[d] = armed[d]
      BY <3>1
    <3>3. QED
      BY <3>1, <3>2 DEF EventsOK
  <2>3. QED
    BY <2>1, <2>2
<1>12. QED
  BY <1>6, <1>7, <1>8, <1>9, <1>10, <1>11

(* do_reduce or broadcast is done with a group, or the start failed. *)
LEMMA LoopIInv ==
  ASSUME IInv, SessionInitFatal \/ ReduceDone \/ BroadcastDone
  PROVE  IInv'
<1> USE DEF IInv
<1>0. /\ K' = K /\ GroupOf' = GroupOf /\ K \in Nat /\ g \in 1 .. K
      /\ \A c \in Clients : GroupOf[c] \in 1 .. K
  BY TypeFacts DEF SessionInitFatal, ReduceDone, BroadcastDone, conf, K
<1>1. UNCHANGED <<conf, sess_group, initiated, queues, net, running, dead, counts>>
  BY DEF SessionInitFatal, ReduceDone, BroadcastDone
<1>2. spc' \in {"ended", "reduce", "broadcast"} /\ g' \in 1 .. K
  BY <1>0 DEF SessionInitFatal, ReduceDone, BroadcastDone
<1>3. TypeOK'
  BY <1>0, <1>1, <1>2 DEF TypeOK, conf, queues, net, cqs, counts
<1>4. QueuesOK'
  BY <1>0, <1>1 DEF QueuesOK, queues
<1>5. ControlOK'
  <2>1. CASE SessionInitFatal
    BY <2>1, <1>0, <1>1 DEF SessionInitFatal, ControlOK, queues
  <2>2. CASE ReduceDone
    BY <2>2, <1>0, <1>1 DEF ReduceDone, ControlOK, queues
  <2>3. CASE BroadcastDone
    BY <2>3, <1>0, <1>1 DEF BroadcastDone, ControlOK, queues
  <2>4. QED
    BY <2>1, <2>2, <2>3
<1>6. RoundsOK'
  <2>1. CASE spc' = spc \/ (spc' = "ended" /\ spc = "init")
    BY <2>1, <1>0, <1>1 DEF RoundsOK, Taken, queues, counts
  <2>2. CASE ReduceDone /\ spc' = "broadcast"
    <3>1. \A i \in 1 .. K : inflight[i] = << >>
      BY <2>2, <1>0 DEF ReduceDone, ControlOK
    <3>2. \A c \in Clients : c \in Taken
      BY <3>1, <2>2, <1>0, EmptyElems DEF QueuesOK, ControlOK, ReduceDone, Taken
    <3>3. \A c, d \in Clients : reduced[c] = reduced[d]
      <4>1. ASSUME NEW c \in Clients PROVE reduced[c] = ctrl[c] + 1
        BY <3>2, CountFacts DEF RoundsOK
      <4>2. \A c, d \in Clients : ctrl[c] = ctrl[d]
        BY <2>2 DEF RoundsOK, ReduceDone
      <4>3. QED
        BY <4>1, <4>2
    <3>4. QED
      BY <3>3, <2>2, <1>0, <1>1 DEF RoundsOK, Taken, queues, counts
  <2>3. CASE BroadcastDone /\ spc' = "reduce"
    <3>1. \A i \in 1 .. K : ready[i] = << >>
      BY <2>3, <1>0 DEF BroadcastDone, ControlOK
    <3>2. \A c \in Clients : c \notin Taken
      BY <3>1, <1>0, EmptyElems DEF Taken
    <3>3. \A c, d \in Clients : ctrl[c] = ctrl[d]
      BY <3>2, <2>3 DEF RoundsOK, BroadcastDone
    <3>4. QED
      BY <3>3, <2>3, <1>0, <1>1 DEF RoundsOK, Taken, queues, counts
  <2>4. CASE SessionInitFatal
    BY <2>1, <2>4 DEF SessionInitFatal
  <2>5. CASE ReduceDone
    <3>1. spc' = spc \/ spc' = "broadcast"
      BY <2>5 DEF ReduceDone
    <3>2. QED
      BY <2>1, <2>2, <2>5, <3>1
  <2>6. CASE BroadcastDone
    <3>1. spc' = spc \/ spc' = "reduce"
      BY <2>6 DEF BroadcastDone
    <3>2. QED
      BY <2>1, <2>3, <2>6, <3>1
  <2>7. QED
    BY <2>4, <2>5, <2>6
<1>7. TrafficOK'
  BY <1>1 DEF TrafficOK, Arrived, net, cqs, counts
<1>8. EventsOK'
  BY <1>1, <1>2 DEF EventsOK, net, cqs
<1>9. QED
  BY <1>3, <1>4, <1>5, <1>6, <1>7, <1>8

(* What two queues of a group have to satisfy. *)
Pair(p, q, i) ==
  /\ Distinct(p[i]) /\ Distinct(q[i])
  /\ Elems(p[i]) \cap Elems(q[i]) = {}
  /\ Elems(p[i]) \cup Elems(q[i]) = {d \in running : GroupOf[d] = i}

(* Session c moves from the front of p[g] to the back of q[g]. *)
Moves(c, p, p2, q, q2) ==
  /\ p[g] # << >> /\ c = Head(p[g])
  /\ p2 = [p EXCEPT ![g] = Tail(@)]
  /\ q2 = [q EXCEPT ![g] = Append(@, c)]

(* What is then known of the session and of the queues. *)
Moved(c, p, p2, q, q2) ==
  /\ p2 \in [1 .. K -> Seq(Clients)] /\ q2 \in [1 .. K -> Seq(Clients)]
  /\ c \in Clients /\ GroupOf[c] = g
  /\ c \in Elems(p[g]) /\ c \notin Elems(q[g])
  /\ Elems(p2[g]) = Elems(p[g]) \ {c}
  /\ Elems(q2[g]) = Elems(q[g]) \cup {c}
  /\ \A i \in 1 .. K : i # g => p2[i] = p[i] /\ q2[i] = q[i]
  /\ \A i \in 1 .. K : Pair(p2, q2, i)

(* A session moves from one queue of its group to the other. *)
LEMMA MoveOK ==
  ASSUME TypeOK, NEW p \in [1 .. K -> Seq(Clients)], NEW q \in [1 .. K -> Seq(Clients)],
         NEW c, NEW p2, NEW q2, Moves(c, p, p2, q, q2),
         \A i \in 1 .. K : Pair(p, q, i)
  PROVE  Moved(c, p, p2, q, q2)
<1>1. g \in 1 .. K /\ p[g] \in Seq(Clients) /\ q[g] \in Seq(Clients)
      /\ Distinct(p[g]) /\ Distinct(q[g])
  BY TypeFacts DEF Pair
<1> USE DEF Moves
<1>2. /\ Tail(p[g]) \in Seq(Clients) /\ c \in Clients /\ c \in Elems(p[g])
      /\ Elems(Tail(p[g])) = Elems(p[g]) \ {c} /\ Distinct(Tail(p[g]))
  BY <1>1, TailElems
<1>3. c \notin Elems(q[g]) /\ GroupOf[c] = g
  BY <1>1, <1>2 DEF Pair
<1>4. /\ Append(q[g], c) \in Seq(Clients) /\ Elems(Append(q[g], c)) = Elems(q[g]) \cup {c}
      /\ Distinct(Append(q[g], c))
  BY <1>1, <1>2, <1>3, AppendElems
<1>5. /\ p2 \in [1 .. K -> Seq(Clients)] /\ p2[g] = Tail(p[g])
      /\ \A i \in 1 .. K : i # g => p2[i] = p[i]
  BY <1>1, <1>2
<1>6. /\ q2 \in [1 .. K -> Seq(Clients)] /\ q2[g] = Append(q[g], c)
      /\ \A i \in 1 .. K : i # g => q2[i] = q[i]
  BY <1>1, <1>4
<1>7. ASSUME NEW i \in 1 .. K PROVE Pair(p2, q2, i)
  <2>1. CASE i = g
    BY <2>1, <1>1, <1>2, <1>3, <1>4, <1>5, <1>6 DEF Pair
  <2>2. CASE i # g
    BY <2>2, <1>5, <1>6 DEF Pair
  <2>3. QED
    BY <2>1, <2>2
<1>8. QED
  BY <1>2, <1>3, <1>4, <1>5, <1>6, <1>7 DEF Moved

(* One turn of broadcast's loop. *)
LEMMA BroadcastSendIInv ==
  ASSUME IInv, BroadcastSend
  PROVE  IInv'
<1> USE DEF IInv
<1> DEFINE c == Head(ready[g])
<1>0. /\ K' = K /\ GroupOf' = GroupOf /\ K \in Nat /\ g \in 1 .. K
      /\ \A d \in Clients : GroupOf[d] \in 1 .. K
  BY TypeFacts DEF BroadcastSend, conf, K
<1>1. ready[g] # << >> /\ ready' = [ready EXCEPT ![g] = Tail(@)]
      /\ inflight' = [inflight EXCEPT ![g] = Append(@, c)]
  BY DEF BroadcastSend
<1>2. /\ ready' \in [1 .. K -> Seq(Clients)] /\ inflight' \in [1 .. K -> Seq(Clients)]
      /\ c \in Clients /\ GroupOf[c] = g
      /\ c \in Elems(ready[g])
      /\ Elems(ready'[g]) = Elems(ready[g]) \ {c}
      /\ \A i \in 1 .. K : i # g => ready'[i] = ready[i]
      /\ \A i \in 1 .. K : Pair(ready', inflight', i)
  <2>1. \A i \in 1 .. K : Pair(ready, inflight, i)
    BY DEF QueuesOK, Pair
  <2>2. ready \in [1 .. K -> Seq(Clients)] /\ inflight \in [1 .. K -> Seq(Clients)]
    BY DEF TypeOK
  <2>3. Moves(c, ready, ready', inflight, inflight')
    BY <1>1 DEF Moves
  <2> HIDE DEF c
  <2>4. Moved(c, ready, ready', inflight, inflight')
    BY <2>1, <2>2, <2>3, MoveOK
  <2>5. QED
    BY <2>4 DEF Moved
<1>3. /\ credits' = [credits EXCEPT ![c] = @ + 1]
      /\ unacked' = [unacked EXCEPT ![c] = @ + 1]
      /\ ctrl' = [ctrl EXCEPT ![c] = @ + 1]
  BY DEF BroadcastSend
<1>4. spc = "broadcast" /\ spc' = "broadcast" /\ g' = g
      /\ UNCHANGED <<conf, sess_group, initiated, cq, armed, events, wire, running, dead, data, reduced>>
  BY DEF BroadcastSend, cqs
<1> HIDE DEF c
<1>5. /\ ctrl'[c] = ctrl[c] + 1 /\ credits'[c] = credits[c] + 1
      /\ \A d \in Clients : d # c => ctrl'[d] = ctrl[d] /\ credits'[d] = credits[d]
  <2>1. c \in Clients /\ ctrl \in [Clients -> 0 .. Rounds] /\ credits \in [Clients -> Nat]
    BY <1>2 DEF TypeOK
  <2>2. QED
    BY <2>1, <1>3
<1>6. /\ \A d \in Clients : d # c => (d \in Taken' <=> d \in Taken)
      /\ c \in Taken /\ c \notin Taken'
  BY <1>0, <1>2 DEF Taken
<1>7. reduced[c] = ctrl[c] + 1
  BY <1>2, <1>6, CountFacts DEF RoundsOK
<1>8. TypeOK'
  <2>1. ctrl' \in [Clients -> 0 .. Rounds]
    <3>1. ctrl[c] + 1 \in 0 .. Rounds
      BY <1>2, <1>7, CountFacts, RoundsAssumption
    <3>2. ctrl \in [Clients -> 0 .. Rounds]
      BY DEF TypeOK
    <3>3. QED
      BY <3>1, <3>2, <1>3
  <2>2. credits' \in [Clients -> Nat] /\ unacked' \in [Clients -> Nat]
    <3>1. credits \in [Clients -> Nat] /\ unacked \in [Clients -> Nat] /\ c \in Clients
      BY <1>2 DEF TypeOK
    <3>2. QED
      BY <3>1, <1>3
  <2>3. QED
    BY <2>1, <2>2, <1>0, <1>2, <1>4 DEF TypeOK, conf
<1>9. QueuesOK'
  BY <1>0, <1>2, <1>4 DEF QueuesOK, Pair
<1>10. ControlOK'
  <2>1. ASSUME NEW i \in 1 .. K, i > g PROVE ready'[i] = << >>
    <3>1. ready[i] = << >> /\ i # g
      BY <2>1, <1>0, <1>4 DEF ControlOK
    <3>2. QED
      BY <3>1, <1>2
  <2>2. QED
    BY <2>1, <1>0, <1>4 DEF ControlOK
<1>11. RoundsOK'
  <2>1. ASSUME NEW d \in Clients
        PROVE  /\ d \in Taken' => reduced'[d] = ctrl'[d] + 1
               /\ d \notin Taken' => reduced'[d] = ctrl'[d]
    <3>1. CASE d = c
      BY <3>1, <1>4, <1>5, <1>6, <1>7
    <3>2. CASE d # c
      BY <3>2, <1>4, <1>5, <1>6 DEF RoundsOK
    <3>3. QED
      BY <3>1, <3>2
  <2>2. QED
    BY <1>4, <2>1 DEF RoundsOK
<1>12. TrafficOK'
  <2>1. /\ data[c] \in Nat /\ wire[c] \in Nat /\ credits[c] \in Nat /\ ctrl[c] \in Nat
        /\ reduced[c] \in Nat
    BY <1>2, CountFacts
  <2>2. data[c] > 0
    BY <2>1, <1>2, <1>7 DEF TrafficOK
  <2>3. credits[c] + data[c] = ctrl[c] + 1
    BY <2>1, <2>2, <1>2 DEF TrafficOK
  <2>4. credits'[c] + data[c] = ctrl'[c] + 1
    BY <2>1, <2>3, <1>5
  <2>5. QED
    BY <2>2, <2>4, <1>4, <1>5 DEF TrafficOK, Arrived
<1>13. EventsOK'
  BY <1>4 DEF EventsOK
<1>14. QED
  BY <1>8, <1>9, <1>10, <1>11, <1>12, <1>13

(* What do_reduce's poll does to the completion queue of session c: it     *)
(* takes the session's push out of it if that is what peek_status returns. *)
LEMMA PollEffect ==
  ASSUME IInv, NEW c \in Clients,
         cq' = [cq EXCEPT ![c] = IF @ = << >> THEN @ ELSE Tail(@)]
  PROVE  /\ cq' \in [Clients -> Seq({"IMM", "SEND", "ERR"})]
         /\ \A d \in Clients : d # c => cq'[d] = cq[d] /\ (d \in Arrived' <=> d \in Arrived)
         /\ \A j, k \in 1 .. Len(cq'[c]) : cq'[c][j] = "IMM" /\ cq'[c][k] = "IMM" => j = k
         /\ PeekStatus(c) = "IMM" => c \in Arrived /\ c \notin Arrived'
         /\ PeekStatus(c) # "IMM" => (c \in Arrived' <=> c \in Arrived)
<1> DEFINE S == {"IMM", "SEND", "ERR"}
           s == cq[c]
           t == Tail(s)
<1>1. cq \in [Clients -> Seq(S)] /\ s \in Seq(S)
  BY DEF IInv, TypeOK
<1>2. \A j, k \in 1 .. Len(s) : s[j] = "IMM" /\ s[k] = "IMM" => j = k
  BY DEF IInv, TrafficOK
<1>3. \A d \in Clients : d # c => cq'[d] = cq[d] /\ (d \in Arrived' <=> d \in Arrived)
  BY <1>1 DEF Arrived
<1>4. cq'[c] = IF s = << >> THEN s ELSE t
  BY <1>1
<1> HIDE DEF S, s
<1>5. CASE s = << >>
  <2>1. cq'[c] = s /\ cq' \in [Clients -> Seq(S)]
    BY <1>1, <1>4, <1>5 DEF s
  <2>2. PeekStatus(c) # "IMM"
    BY <1>5 DEF PeekStatus, s
  <2>3. c \in Arrived' <=> c \in Arrived
    BY <2>1 DEF Arrived, s
  <2>4. QED
    BY <2>1, <2>2, <2>3, <1>2, <1>3, ZenonT(30) DEF S
<1>6. CASE s # << >>
  <2> HIDE DEF t
  <2>1. /\ t \in Seq(S)
        /\ \A j, k \in 1 .. Len(t) : t[j] = "IMM" /\ t[k] = "IMM" => j = k
        /\ Head(s) = "IMM" => /\ \E k \in 1 .. Len(s) : s[k] = "IMM"
                              /\ ~ \E k \in 1 .. Len(t) : t[k] = "IMM"
        /\ Head(s) # "IMM" => ((\E k \in 1 .. Len(t) : t[k] = "IMM")
                                  <=> \E k \in 1 .. Len(s) : s[k] = "IMM")
    BY <1>1, <1>2, <1>6, PollCq DEF t
  <2>2. cq'[c] = t
    BY <1>4, <1>6
  <2>3. cq' \in [Clients -> Seq(S)]
    BY <1>1, <1>6, <2>1 DEF s, t
  <2>4. PeekStatus(c) = "IMM" <=> Head(s) = "IMM"
    BY <1>6 DEF PeekStatus, s
  <2>5. /\ c \in Arrived <=> \E k \in 1 .. Len(s) : s[k] = "IMM"
        /\ c \in Arrived' <=> \E k \in 1 .. Len(t) : t[k] = "IMM"
    BY <2>2 DEF Arrived, s
  <2>6. PeekStatus(c) = "IMM" => c \in Arrived /\ c \notin Arrived'
    BY <2>1, <2>4, <2>5
  <2>7. PeekStatus(c) # "IMM" => (c \in Arrived' <=> c \in Arrived)
    BY <2>1, <2>4, <2>5
  <2>8. QED
    BY <2>1, <2>2, <2>3, <2>6, <2>7, <1>3, ZenonT(30) DEF S
<1>7. QED
  BY <1>5, <1>6

(* One turn of do_reduce's loop. *)
LEMMA ReducePollIInv ==
  ASSUME IInv, ReducePoll
  PROVE  IInv'
<1> USE DEF IInv
<1> DEFINE c == Head(inflight[g])
<1>0. /\ K' = K /\ GroupOf' = GroupOf /\ K \in Nat /\ g \in 1 .. K
      /\ \A d \in Clients : GroupOf[d] \in 1 .. K
  BY TypeFacts DEF ReducePoll, conf, K
<1>1. spc \in {"reduce", "poll"} /\ spc' = "reduce" /\ g' = g /\ inflight[g] # << >>
      /\ UNCHANGED <<conf, sess_group, initiated, armed, events, unacked, wire, credits,
                     running, dead, data, ctrl>>
  BY DEF ReducePoll, AtPoll
<1>2. cq' = [cq EXCEPT ![c] = IF @ = << >> THEN @ ELSE Tail(@)]
  BY DEF ReducePoll
<1>3. c \in Clients /\ c \in Elems(inflight[g])
  BY <1>0, <1>1, TypeFacts, EmptyElems
<1>4. \/ /\ PeekStatus(c) = "IMM"
         /\ inflight' = [inflight EXCEPT ![g] = Tail(@)]
         /\ ready' = [ready EXCEPT ![g] = Append(@, c)]
         /\ reduced' = [reduced EXCEPT ![c] = @ + 1]
      \/ /\ PeekStatus(c) # "IMM"
         /\ inflight' = [inflight EXCEPT ![g] = Append(Tail(@), c)]
         /\ ready' = ready /\ reduced' = reduced
  BY DEF ReducePoll
<1>a. inflight \in [1 .. K -> Seq(Clients)] /\ ready \in [1 .. K -> Seq(Clients)]
  BY DEF TypeOK
<1> HIDE DEF c
<1>5. /\ cq' \in [Clients -> Seq({"IMM", "SEND", "ERR"})]
      /\ \A d \in Clients : d # c => cq'[d] = cq[d] /\ (d \in Arrived' <=> d \in Arrived)
      /\ \A j, k \in 1 .. Len(cq'[c]) : cq'[c][j] = "IMM" /\ cq'[c][k] = "IMM" => j = k
      /\ PeekStatus(c) = "IMM" => c \in Arrived /\ c \notin Arrived'
      /\ PeekStatus(c) # "IMM" => (c \in Arrived' <=> c \in Arrived)
  BY <1>2, <1>3, PollEffect
<1>6. EventsOK'
  BY <1>1 DEF EventsOK
<1>7. CASE PeekStatus(c) = "IMM"
  <2>1. Moves(c, inflight, inflight', ready, ready')
    BY <1>1, <1>4, <1>7 DEF Moves, c
  <2>2. \A i \in 1 .. K : Pair(inflight, ready, i)
    BY DEF QueuesOK, Pair
  <2>3. Moved(c, inflight, inflight', ready, ready')
    BY <1>a, <2>1, <2>2, MoveOK
  <2>4. /\ inflight' \in [1 .. K -> Seq(Clients)] /\ ready' \in [1 .. K -> Seq(Clients)]
        /\ GroupOf[c] = g /\ c \notin Elems(ready[g])
        /\ Elems(ready'[g]) = Elems(ready[g]) \cup {c}
        /\ \A i \in 1 .. K : i # g => inflight'[i] = inflight[i] /\ ready'[i] = ready[i]
        /\ \A i \in 1 .. K : Pair(inflight', ready', i)
    BY <2>3 DEF Moved
  <2>5. /\ \A d \in Clients : d # c => (d \in Taken' <=> d \in Taken)
        /\ c \notin Taken /\ c \in Taken'
    BY <2>4, <1>0, <1>3 DEF Taken
  <2>6. reduced'[c] = reduced[c] + 1 /\ \A d \in Clients : d # c => reduced'[d] = reduced[d]
    <3>1. reduced \in [Clients -> 0 .. Rounds] /\ reduced' = [reduced EXCEPT ![c] = @ + 1]
      BY <1>4, <1>7 DEF TypeOK
    <3>2. QED
      BY <3>1, <1>3
  <2>7. data[c] = reduced[c] + wire[c] + 1
    BY <1>3, <1>5, <1>7, CountFacts DEF TrafficOK
  <2>8. TypeOK'
    <3>1. reduced[c] + 1 \in 0 .. Rounds
      BY <2>7, <1>3, CountFacts, RoundsAssumption
    <3>2. reduced' \in [Clients -> 0 .. Rounds]
      <4>1. reduced \in [Clients -> 0 .. Rounds] /\ reduced' = [reduced EXCEPT ![c] = @ + 1]
        BY <1>4, <1>7 DEF TypeOK
      <4>2. QED
        BY <4>1, <3>1
    <3>3. QED
      BY <3>2, <2>4, <1>0, <1>1, <1>5 DEF TypeOK, conf
  <2>9. QueuesOK'
    BY <2>4, <1>0, <1>1 DEF QueuesOK, Pair
  <2>10. ControlOK'
    <3>1. ASSUME NEW i \in 1 .. K, i < g PROVE inflight'[i] = << >>
      <4>1. inflight[i] = << >> /\ i # g
        BY <3>1, <1>0, <1>1 DEF ControlOK
      <4>2. QED
        BY <4>1, <2>4
    <3>2. QED
      BY <3>1, <1>0, <1>1 DEF ControlOK
  <2>11. RoundsOK'
    <3>1. ASSUME NEW d \in Clients
          PROVE  /\ d \in Taken' => reduced'[d] = ctrl'[d] + 1
                 /\ d \notin Taken' => reduced'[d] = ctrl'[d]
      <4>1. CASE d = c
        BY <4>1, <2>5, <2>6, <1>1, <1>3, CountFacts DEF RoundsOK
      <4>2. CASE d # c
        BY <4>2, <2>5, <2>6, <1>1 DEF RoundsOK
      <4>3. QED
        BY <4>1, <4>2
    <3>2. QED
      BY <1>1, <3>1 DEF RoundsOK
  <2>12. TrafficOK'
    <3>0. data[c] = reduced'[c] + wire[c]
      BY <2>6, <2>7, <1>3, CountFacts
    <3>1. c \notin Arrived' /\ data'[c] = reduced'[c] + wire'[c]
      BY <3>0, <1>1, <1>5, <1>7
    <3>2. ASSUME NEW d \in Clients, d # c
          PROVE  /\ d \in Arrived' => data'[d] = reduced'[d] + wire'[d] + 1
                 /\ d \notin Arrived' => data'[d] = reduced'[d] + wire'[d]
                 /\ \A j, k \in 1 .. Len(cq'[d]) : cq'[d][j] = "IMM" /\ cq'[d][k] = "IMM" => j = k
      BY <3>2, <2>6, <1>1, <1>5 DEF TrafficOK
    <3>3. QED
      BY <3>1, <3>2, <1>1, <1>5 DEF TrafficOK
  <2>13. QED
    BY <1>6, <2>8, <2>9, <2>10, <2>11, <2>12
<1>8. CASE PeekStatus(c) # "IMM"
  <2>1. inflight' = [inflight EXCEPT ![g] = Append(Tail(@), c)] /\ ready' = ready /\ reduced' = reduced
    BY <1>4, <1>8
  <2>2. /\ Append(Tail(inflight[g]), c) \in Seq(Clients)
        /\ Append(Tail(inflight[g]), c) # << >>
        /\ Elems(Append(Tail(inflight[g]), c)) = Elems(inflight[g])
        /\ Distinct(Append(Tail(inflight[g]), c))
    <3>1. inflight[g] \in Seq(Clients) /\ Distinct(inflight[g])
      BY <1>0, TypeFacts DEF QueuesOK
    <3>2. QED
      BY <3>1, <1>1, RotateElems DEF c
  <2>3. /\ inflight' \in [1 .. K -> Seq(Clients)]
        /\ \A i \in 1 .. K : i # g => inflight'[i] = inflight[i]
        /\ inflight'[g] = Append(Tail(inflight[g]), c)
    BY <2>1, <2>2, <1>0, <1>a
  <2>4. TypeOK'
    BY <2>1, <2>3, <1>0, <1>1, <1>5 DEF TypeOK, conf
  <2>5. QueuesOK'
    <3>1. \A i \in 1 .. K : Distinct(inflight'[i]) /\ Elems(inflight'[i]) = Elems(inflight[i])
      BY <2>2, <2>3, <1>0 DEF QueuesOK
    <3>2. QED
      BY <3>1, <2>1, <1>0, <1>1, ZenonT(30) DEF QueuesOK
  <2>6. ControlOK'
    <3>1. ASSUME NEW i \in 1 .. K, i < g PROVE inflight'[i] = << >>
      <4>1. inflight[i] = << >> /\ i # g
        BY <3>1, <1>0, <1>1 DEF ControlOK
      <4>2. QED
        BY <4>1, <2>3
    <3>2. QED
      BY <3>1, <1>0, <1>1 DEF ControlOK
  <2>7. RoundsOK'
    <3>1. Taken' = Taken
      BY <2>1, <1>0 DEF Taken
    <3>2. QED
      BY <3>1, <2>1, <1>1 DEF RoundsOK
  <2>8. TrafficOK'
    <3>1. \A d \in Clients : d \in Arrived' <=> d \in Arrived
      BY <1>5, <1>8
    <3>2. \A d \in Clients : \A j, k \in 1 .. Len(cq'[d]) :
            cq'[d][j] = "IMM" /\ cq'[d][k] = "IMM" => j = k
      BY <1>5 DEF TrafficOK
    <3>3. QED
      BY <3>1, <3>2, <2>1, <1>1 DEF TrafficOK
  <2>9. QED
    BY <1>6, <2>4, <2>5, <2>6, <2>7, <2>8
<1>9. QED
  BY <1>7, <1>8

(* A sender never runs ahead: it has pushed at most once more than the     *)
(* server has answered, and the server has answered only what it took.     *)
LEMMA PushBounds ==
  ASSUME IInv, NEW c \in Clients
  PROVE  /\ ctrl[c] <= reduced[c] /\ reduced[c] <= ctrl[c] + 1
         /\ reduced[c] + wire[c] <= data[c]
         /\ data[c] > 0 => credits[c] + data[c] = ctrl[c] + 1
         /\ c \in Arrived => wire[c] = 0
         /\ data[c] = 0 => ctrl[c] = 0 /\ credits[c] = 0
<1>1. /\ data[c] \in Nat /\ reduced[c] \in Nat /\ ctrl[c] \in Nat
      /\ wire[c] \in Nat /\ credits[c] \in Nat
  BY CountFacts DEF IInv
<1>2. reduced[c] = ctrl[c] + 1 \/ reduced[c] = ctrl[c]
  BY DEF IInv, RoundsOK
<1>3. /\ c \in Arrived => data[c] = reduced[c] + wire[c] + 1
      /\ c \notin Arrived => data[c] = reduced[c] + wire[c]
      /\ data[c] = 0 => credits[c] = 0
      /\ data[c] > 0 => credits[c] + data[c] = ctrl[c] + 1
  BY DEF IInv, TrafficOK
<1>4. CASE c \in Arrived
  BY <1>1, <1>2, <1>3, <1>4
<1>5. CASE c \notin Arrived
  BY <1>1, <1>2, <1>3, <1>5
<1>6. QED
  BY <1>4, <1>5

(* A sender's first push, and one for a control message. *)
LEMMA ClientIInv ==
  ASSUME IInv, NEW c \in Clients, Client(c)
  PROVE  IInv'
<1> USE DEF IInv
<1>1. /\ data[c] < Rounds
      /\ data' = [data EXCEPT ![c] = @ + 1]
      /\ wire' = [wire EXCEPT ![c] = @ + 1]
  BY DEF Client, FirstPush, OnRecv, MayPush, PushData
<1>2. UNCHANGED <<GroupOf, use_event, spc, sess_group, initiated, g, inflight, ready,
                  cq, armed, events, unacked, running, dead, reduced, ctrl>>
  BY DEF Client, FirstPush, OnRecv, conf, queues, cqs
<1>3. \/ data[c] = 0 /\ credits' = credits
      \/ data[c] > 0 /\ credits[c] > 0 /\ credits' = [credits EXCEPT ![c] = @ - 1]
  BY DEF Client, FirstPush, OnRecv
<1>4. /\ data \in [Clients -> 0 .. Rounds] /\ wire \in [Clients -> Nat]
      /\ credits \in [Clients -> Nat]
  BY DEF TypeOK
<1>5. /\ data[c] \in Nat /\ reduced[c] \in Nat /\ ctrl[c] \in Nat
      /\ wire[c] \in Nat /\ credits[c] \in Nat
  BY CountFacts
<1>6. K' = K
  BY <1>2 DEF K
<1>7. /\ data'[c] = data[c] + 1 /\ wire'[c] = wire[c] + 1
      /\ \A d \in Clients : d # c => data'[d] = data[d] /\ wire'[d] = wire[d]
  BY <1>1, <1>4
<1>8. \A d \in Clients : d # c => credits'[d] = credits[d]
  BY <1>3, <1>4
<1>9. credits'[c] \in Nat /\ credits'[c] + data'[c] = ctrl[c] + 1
  <2>1. CASE data[c] = 0 /\ credits' = credits
    BY <2>1, <1>5, <1>7, PushBounds
  <2>2. CASE data[c] > 0 /\ credits[c] > 0 /\ credits' = [credits EXCEPT ![c] = @ - 1]
    <3>1. credits'[c] = credits[c] - 1
      BY <2>2, <1>4
    <3>2. credits[c] + data[c] = ctrl[c] + 1
      BY <2>2, PushBounds
    <3>3. QED
      BY <3>1, <3>2, <2>2, <1>5, <1>7
  <2>3. QED
    BY <1>3, <2>1, <2>2
<1>10. TypeOK'
  <2>1. data' \in [Clients -> 0 .. Rounds]
    <3>1. data[c] + 1 \in 0 .. Rounds
      BY <1>1, <1>5, RoundsAssumption
    <3>2. QED
      BY <3>1, <1>1, <1>4
  <2>2. wire' \in [Clients -> Nat]
    BY <1>1, <1>4
  <2>3. credits' \in [Clients -> Nat]
    <3>1. CASE data[c] = 0 /\ credits' = credits
      BY <3>1, <1>4
    <3>2. CASE data[c] > 0 /\ credits[c] > 0 /\ credits' = [credits EXCEPT ![c] = @ - 1]
      <4>1. credits[c] - 1 \in Nat
        BY <3>2, <1>5
      <4>2. QED
        BY <4>1, <3>2, <1>4
    <3>3. QED
      BY <1>3, <3>1, <3>2
  <2>4. QED
    BY <2>1, <2>2, <2>3, <1>2, <1>6 DEF TypeOK
<1>11. QueuesOK' /\ ControlOK' /\ RoundsOK' /\ EventsOK'
  <2>1. QueuesOK'
    BY <1>2, <1>6 DEF QueuesOK
  <2>2. ControlOK'
    BY <1>2, <1>6 DEF ControlOK
  <2>3. RoundsOK'
    BY <1>2 DEF RoundsOK, Taken
  <2>4. EventsOK'
    BY <1>2 DEF EventsOK
  <2>5. QED
    BY <2>1, <2>2, <2>3, <2>4
<1>12. TrafficOK'
  <2>1. Arrived' = Arrived
    BY <1>2 DEF Arrived
  <2>2. /\ c \in Arrived => data'[c] = reduced[c] + wire'[c] + 1
        /\ c \notin Arrived => data'[c] = reduced[c] + wire'[c]
    <3>1. /\ c \in Arrived => data[c] = reduced[c] + wire[c] + 1
          /\ c \notin Arrived => data[c] = reduced[c] + wire[c]
      BY DEF TrafficOK
    <3>2. QED
      BY <3>1, <1>5, <1>7
  <2>3. data'[c] # 0
    BY <1>5, <1>7
  <2>4. QED
    BY <2>1, <2>2, <2>3, <1>2, <1>7, <1>8, <1>9 DEF TrafficOK
<1>13. QED
  BY <1>10, <1>11, <1>12

(* A completion enters a session's queue. *)
LEMMA CompleteEffect ==
  ASSUME IInv, NEW c \in Clients, NEW wc \in {"IMM", "SEND", "ERR"}, Complete(c, wc),
         wc = "IMM" => c \notin Arrived,
         UNCHANGED <<spc, g, inflight>>
  PROVE  /\ cq' \in [Clients -> Seq({"IMM", "SEND", "ERR"})]
         /\ armed' \in [Clients -> BOOLEAN]
         /\ events' \in [Clients -> 0 .. 1]
         /\ \A d \in Clients : \A j, k \in 1 .. Len(cq'[d]) :
               cq'[d][j] = "IMM" /\ cq'[d][k] = "IMM" => j = k
         /\ \A d \in Clients : d # c => (d \in Arrived' <=> d \in Arrived)
         /\ c \in Arrived' <=> wc = "IMM" \/ c \in Arrived
         /\ EventsOK'
<1> DEFINE S == {"IMM", "SEND", "ERR"}
           s == cq[c]
           t == Append(s, wc)
<1>1. /\ cq \in [Clients -> Seq(S)] /\ s \in Seq(S) /\ armed \in [Clients -> BOOLEAN]
      /\ events \in [Clients -> 0 .. 1]
  BY DEF IInv, TypeOK
<1>2. \A d \in Clients : \A j, k \in 1 .. Len(cq[d]) : cq[d][j] = "IMM" /\ cq[d][k] = "IMM" => j = k
  BY DEF IInv, TrafficOK
<1>3. /\ cq' = [cq EXCEPT ![c] = t]
      /\ armed' = [armed EXCEPT ![c] = FALSE]
      /\ events' = [events EXCEPT ![c] = IF armed[c] THEN @ + 1 ELSE @]
  BY DEF Complete
<1>4. wc = "IMM" => ~ \E k \in 1 .. Len(s) : s[k] = "IMM"
  BY DEF Arrived
<1>5. \A j, k \in 1 .. Len(s) : s[j] = "IMM" /\ s[k] = "IMM" => j = k
  BY <1>2
<1> HIDE DEF S, s
<1>6. wc \in S
  BY DEF S
<1> HIDE DEF t
<1>7. /\ t \in Seq(S)
      /\ (\E k \in 1 .. Len(t) : t[k] = "IMM")
           <=> wc = "IMM" \/ (\E k \in 1 .. Len(s) : s[k] = "IMM")
      /\ \A j, k \in 1 .. Len(t) : t[j] = "IMM" /\ t[k] = "IMM" => j = k
  <2>1. s \in Seq(S) /\ t = Append(s, wc)
    BY <1>1 DEF t
  <2>2. /\ t \in Seq(S)
        /\ (\E k \in 1 .. Len(t) : t[k] = "IMM")
             <=> wc = "IMM" \/ (\E k \in 1 .. Len(s) : s[k] = "IMM")
        /\ /\ \A j, k \in 1 .. Len(s) : s[j] = "IMM" /\ s[k] = "IMM" => j = k
           /\ wc = "IMM" => ~ \E k \in 1 .. Len(s) : s[k] = "IMM"
           => \A j, k \in 1 .. Len(t) : t[j] = "IMM" /\ t[k] = "IMM" => j = k
    BY <2>1, <1>6, CompleteCq
  <2>3. QED
    BY <2>2, <1>4, <1>5, Zenon
<1>8. /\ cq' \in [Clients -> Seq(S)] /\ cq'[c] = t
      /\ \A d \in Clients : d # c => cq'[d] = cq[d]
  BY <1>1, <1>3, <1>7
<1>9. \A d \in Clients : \A j, k \in 1 .. Len(cq'[d]) :
        cq'[d][j] = "IMM" /\ cq'[d][k] = "IMM" => j = k
  BY <1>2, <1>7, <1>8
<1>10. /\ \A d \in Clients : d # c => (d \in Arrived' <=> d \in Arrived)
       /\ c \in Arrived' <=> wc = "IMM" \/ c \in Arrived
  BY <1>7, <1>8 DEF Arrived, s
<1>11. armed' \in [Clients -> BOOLEAN] /\ ~armed'[c]
       /\ \A d \in Clients : d # c => armed'[d] = armed[d]
  BY <1>1, <1>3
<1>12. \A d \in Clients : d # c => events'[d] = events[d]
  BY <1>1, <1>3
<1>13. events'[c] = IF armed[c] THEN events[c] + 1 ELSE events[c]
  BY <1>1, <1>3
<1>14. events[c] \in {0, 1} /\ (events[c] = 1 => ~armed[c])
  BY <1>1 DEF IInv, EventsOK
<1>15. events'[c] \in {0, 1} /\ (~armed[c] => events'[c] = events[c])
  <2>1. CASE armed[c]
    <3>1. events[c] = 0 /\ events'[c] = events[c] + 1
      BY <2>1, <1>13, <1>14
    <3>2. QED
      BY <3>1, <2>1
  <2>2. CASE ~armed[c]
    BY <2>2, <1>13, <1>14
  <2>3. QED
    BY <2>1, <2>2
<1>16. events' \in [Clients -> 0 .. 1]
  <2>1. events' = [events EXCEPT ![c] = events'[c]] /\ events'[c] \in 0 .. 1
    BY <1>1, <1>3, <1>15
  <2>2. QED
    BY <2>1, <1>1
<1>17. EventsOK'
  <2>1. \A d \in Clients : events'[d] = 1 => ~armed'[d]
    BY <1>11, <1>12 DEF IInv, EventsOK
  <2>2. ASSUME spc' = "rearm"
        PROVE  /\ inflight'[g'] # << >>
               /\ ~armed'[Head(inflight'[g'])]
               /\ events'[Head(inflight'[g'])] = 0
    <3> DEFINE h == Head(inflight[g])
    <3>1. /\ inflight[g] # << >> /\ ~armed[h] /\ events[h] = 0
          /\ inflight' = inflight /\ g' = g
      BY <2>2 DEF IInv, EventsOK
    <3>2. h \in Clients
      BY <3>1, TypeFacts, EmptyElems DEF IInv
    <3> HIDE DEF h
    <3>3. ~armed'[h] /\ events'[h] = 0
      <4>1. CASE h = c
        BY <4>1, <3>1, <1>11, <1>15
      <4>2. CASE h # c
        BY <4>2, <3>1, <3>2, <1>11, <1>12
      <4>3. QED
        BY <4>1, <4>2
    <3>4. QED
      BY <3>1, <3>3 DEF h
  <2>3. QED
    BY <2>1, <2>2 DEF EventsOK
<1>18. QED
  BY <1>8, <1>9, <1>10, <1>11, <1>16, <1>17 DEF S

(* A push arrives; it is the only one of its session on the way. *)
LEMMA ArriveIInv ==
  ASSUME IInv, NEW c \in Clients, Arrive(c)
  PROVE  IInv'
<1> USE DEF IInv
<1>1. UNCHANGED <<GroupOf, use_event, spc, sess_group, initiated, g, inflight, ready,
                  unacked, credits, running, dead, data, reduced, ctrl>>
  BY DEF Arrive, conf, queues, counts
<1>2. wire[c] > 0 /\ wire' = [wire EXCEPT ![c] = @ - 1] /\ wire \in [Clients -> Nat]
  BY DEF Arrive, TypeOK
<1>3. K' = K
  BY <1>1 DEF K
<1>4. c \notin Arrived
  BY <1>2, PushBounds, CountFacts
<1>5. /\ cq' \in [Clients -> Seq({"IMM", "SEND", "ERR"})]
      /\ armed' \in [Clients -> BOOLEAN]
      /\ events' \in [Clients -> 0 .. 1]
      /\ \A d \in Clients : \A j, k \in 1 .. Len(cq'[d]) :
            cq'[d][j] = "IMM" /\ cq'[d][k] = "IMM" => j = k
      /\ \A d \in Clients : d # c => (d \in Arrived' <=> d \in Arrived)
      /\ c \in Arrived'
      /\ EventsOK'
  <2>1. Complete(c, "IMM")
    BY DEF Arrive
  <2>2. QED
    BY <2>1, <1>1, <1>4, CompleteEffect
<1>6. /\ wire' \in [Clients -> Nat] /\ wire'[c] + 1 = wire[c]
      /\ \A d \in Clients : d # c => wire'[d] = wire[d]
  <2>1. wire[c] - 1 \in Nat /\ wire[c] \in Nat
    BY <1>2
  <2>2. wire'[c] = wire[c] - 1
    BY <1>2
  <2>3. wire'[c] + 1 = wire[c]
    BY <2>1, <2>2
  <2>4. QED
    BY <2>1, <2>3, <1>2
<1>7. TypeOK'
  BY <1>1, <1>3, <1>5, <1>6 DEF TypeOK
<1>8. QueuesOK'
  BY <1>1, <1>3 DEF QueuesOK
<1>9. ControlOK'
  BY <1>1, <1>3 DEF ControlOK
<1>10. RoundsOK'
  BY <1>1 DEF RoundsOK, Taken
<1>11. TrafficOK'
  <2>1. data[c] = reduced[c] + wire'[c] + 1
    <3>1. data[c] = reduced[c] + wire[c]
      BY <1>4 DEF TrafficOK
    <3>2. wire'[c] \in Nat /\ reduced[c] \in Nat /\ data[c] \in Nat /\ wire[c] \in Nat
      BY <1>6, CountFacts
    <3>3. QED
      BY <3>1, <3>2, <1>6
  <2>2. QED
    BY <2>1, <1>1, <1>5, <1>6 DEF TrafficOK
<1>12. QED
  BY <1>5, <1>7, <1>8, <1>9, <1>10, <1>11

(* A control message completes at the server, perhaps with an error. *)
LEMMA SendCompletesIInv ==
  ASSUME IInv, NEW c \in Clients, SendCompletes(c)
  PROVE  IInv'
<1> USE DEF IInv
<1>1. UNCHANGED <<GroupOf, use_event, spc, sess_group, initiated, g, inflight, ready,
                  wire, credits, running, dead, data, reduced, ctrl>>
  BY DEF SendCompletes, conf, queues, counts
<1>2. unacked[c] > 0 /\ unacked' = [unacked EXCEPT ![c] = @ - 1] /\ unacked \in [Clients -> Nat]
  BY DEF SendCompletes, TypeOK
<1>3. K' = K
  BY <1>1 DEF K
<1>4. PICK wc \in {"SEND", "ERR"} : Complete(c, wc)
  BY DEF SendCompletes
<1>5. /\ cq' \in [Clients -> Seq({"IMM", "SEND", "ERR"})]
      /\ armed' \in [Clients -> BOOLEAN]
      /\ events' \in [Clients -> 0 .. 1]
      /\ \A d \in Clients : \A j, k \in 1 .. Len(cq'[d]) :
            cq'[d][j] = "IMM" /\ cq'[d][k] = "IMM" => j = k
      /\ \A d \in Clients : d \in Arrived' <=> d \in Arrived
      /\ EventsOK'
  BY <1>1, <1>4, CompleteEffect
<1>6. unacked' \in [Clients -> Nat]
  <2>1. unacked[c] - 1 \in Nat
    BY <1>2
  <2>2. QED
    BY <2>1, <1>2
<1>7. TypeOK'
  BY <1>1, <1>3, <1>5, <1>6 DEF TypeOK
<1>8. QueuesOK'
  BY <1>1, <1>3 DEF QueuesOK
<1>9. ControlOK'
  BY <1>1, <1>3 DEF ControlOK
<1>10. RoundsOK'
  BY <1>1 DEF RoundsOK, Taken
<1>11. TrafficOK'
  BY <1>1, <1>5 DEF TrafficOK
<1>12. QED
  BY <1>5, <1>7, <1>8, <1>9, <1>10, <1>11

(* A sender dies, or nothing happens. *)
LEMMA IdleIInv ==
  ASSUME IInv, (\E c \in Clients : Die(c)) \/ UNCHANGED vars
  PROVE  IInv'
<1> USE DEF IInv
<1>1. UNCHANGED <<GroupOf, use_event, spc, sess_group, initiated, g, inflight, ready, cq, armed,
                  events, unacked, wire, credits, running, data, reduced, ctrl>>
  BY DEF Die, vars, conf, queues, net, cqs, counts
<1>2. dead' \subseteq Mortal
  BY DEF Die, vars, TypeOK
<1>3. K' = K /\ Taken' = Taken /\ Arrived' = Arrived
  BY <1>1 DEF K, Taken, Arrived
<1>4. TypeOK'
  BY <1>1, <1>2, <1>3 DEF TypeOK
<1>5. QueuesOK'
  BY <1>1, <1>3 DEF QueuesOK
<1>6. ControlOK'
  BY <1>1, <1>3 DEF ControlOK
<1>7. RoundsOK'
  BY <1>1, <1>3 DEF RoundsOK
<1>8. TrafficOK'
  BY <1>1, <1>3 DEF TrafficOK
<1>9. EventsOK'
  BY <1>1 DEF EventsOK
<1>10. QED
  BY <1>4, <1>5, <1>6, <1>7, <1>8, <1>9

(* Every step of server, senders and network preserves the invariant. *)
LEMMA NextIInv == IInv /\ [Next]_vars => IInv'
<1> SUFFICES ASSUME IInv, [Next]_vars PROVE IInv'
  OBVIOUS
<1>1. CASE Server
  <2>1. CASE \E c \in Clients : Accept(c)
    BY <2>1, AcceptIInv
  <2>2. CASE SessionInit
    BY <2>2, SessionInitIInv
  <2>3. CASE SessionInitFatal \/ ReduceDone \/ BroadcastDone
    BY <2>3, LoopIInv
  <2>4. CASE GetEvent \/ Rearm
    BY <2>4, EventIInv
  <2>5. CASE ReducePoll
    BY <2>5, ReducePollIInv
  <2>6. CASE BroadcastSend
    BY <2>6, BroadcastSendIInv
  <2>7. QED
    BY <1>1, <2>1, <2>2, <2>3, <2>4, <2>5, <2>6 DEF Server
<1>2. CASE \E c \in Clients : Client(c)
  BY <1>2, ClientIInv
<1>3. CASE \E c \in Clients : Arrive(c)
  BY <1>3, ArriveIInv
<1>4. CASE \E c \in Clients : SendCompletes(c)
  BY <1>4, SendCompletesIInv
<1>5. CASE (\E c \in Clients : Die(c)) \/ UNCHANGED vars
  BY <1>5, IdleIInv
<1>6. QED
  BY <1>1, <1>2, <1>3, <1>4, <1>5 DEF Next

(* So it holds in every state the receiver can reach. *)
LEMMA Inductive == Spec => []IInv
<1>1. Init => IInv
  BY InitIInv
<1>2. IInv /\ [Next]_vars => IInv'
  BY NextIInv
<1>3. QED
  BY <1>1, <1>2, PTL DEF Spec

-----------------------------------------------------------------------------
(* The theorems. *)

(* The state of server, senders and network always has its type: no        *)
(* counter passes Rounds, no completion queue holds more than one event,   *)
(* for every number of senders and every grouping.                         *)
THEOREM TypeCorrect == Spec => []TypeOK
<1>1. IInv => TypeOK
  BY DEF IInv
<1>2. QED
  BY <1>1, Inductive, PTL

(* No answer is as far as the reductions it answers. *)
LEMMA AnsweredReduced == IInv => ReduceBeforeBroadcast
<1> SUFFICES ASSUME IInv, NEW c \in Clients, NEW d \in Clients
             PROVE  ctrl[c] <= reduced[d]
  BY DEF ReduceBeforeBroadcast
<1>1. /\ ctrl[c] \in Nat /\ ctrl[d] \in Nat /\ reduced[c] \in Nat /\ reduced[d] \in Nat
  BY CountFacts DEF IInv
<1>2. ctrl[c] <= reduced[c] /\ ctrl[d] <= reduced[d]
  BY PushBounds
<1>3. CASE spc = "broadcast"
  <2>1. reduced[c] = reduced[d]
    BY <1>3 DEF IInv, RoundsOK
  <2>2. QED
    BY <2>1, <1>1, <1>2
<1>4. CASE spc # "broadcast"
  <2>1. ctrl[c] = ctrl[d]
    BY <1>4 DEF IInv, RoundsOK
  <2>2. QED
    BY <2>1, <1>1, <1>2
<1>5. QED
  BY <1>3, <1>4

(* broadcast never answers a round of any sender before do_reduce has      *)
(* taken that round's push of every sender, in whatever groups they are.   *)
THEOREM ReductionFirst == Spec => []ReduceBeforeBroadcast
  BY Inductive, AnsweredReduced, PTL

(* What the queues hold, in terms of the places in them. *)
LEMMA SessionPlaces == IInv => NoSessionLost
<1> SUFFICES ASSUME IInv, NEW c \in running PROVE
      /\ \E q \in {"inflight", "ready"} : c \in Elems(Queue(q, GroupOf[c]))
      /\ \A q, r \in {"inflight", "ready"}, i, k \in 1 .. K :
           \A j \in DOMAIN Queue(q, i), l \in DOMAIN Queue(r, k) :
             Queue(q, i)[j] = c /\ Queue(r, k)[l] = c => q = r /\ i = k /\ j = l
  BY DEF NoSessionLost
<1>1. c \in Clients /\ GroupOf[c] \in 1 .. K
  BY TypeFacts DEF IInv, TypeOK
<1>2. c \in Elems(inflight[GroupOf[c]]) \cup Elems(ready[GroupOf[c]])
  BY <1>1 DEF IInv, QueuesOK
<1>3. \E q \in {"inflight", "ready"} : c \in Elems(Queue(q, GroupOf[c]))
  <2>1. CASE c \in Elems(inflight[GroupOf[c]])
    BY <2>1 DEF Queue
  <2>2. CASE c \in Elems(ready[GroupOf[c]])
    BY <2>2 DEF Queue
  <2>3. QED
    BY <1>2, <2>1, <2>2
<1>4. ASSUME NEW q \in {"inflight", "ready"}, NEW r \in {"inflight", "ready"},
             NEW i \in 1 .. K, NEW k \in 1 .. K,
             NEW j \in DOMAIN Queue(q, i), NEW l \in DOMAIN Queue(r, k),
             Queue(q, i)[j] = c, Queue(r, k)[l] = c
      PROVE  q = r /\ i = k /\ j = l
  <2>1. c \in Elems(Queue(q, i)) /\ c \in Elems(Queue(r, k))
    BY <1>4 DEF Elems
  <2>2. Elems(Queue(q, i)) \subseteq {d \in running : GroupOf[d] = i}
        /\ Elems(Queue(r, k)) \subseteq {d \in running : GroupOf[d] = k}
    BY DEF IInv, QueuesOK, Queue
  <2>3. i = k
    BY <2>1, <2>2
  <2>4. Elems(inflight[i]) \cap Elems(ready[i]) = {}
    BY DEF IInv, QueuesOK
  <2>5. q = r
    BY <2>1, <2>3, <2>4 DEF Queue
  <2>6. Distinct(Queue(q, i)) /\ Queue(q, i) \in Seq(Clients)
    BY TypeFacts DEF IInv, QueuesOK, Queue
  <2>7. DOMAIN Queue(q, i) = 1 .. Len(Queue(q, i))
    BY <2>6, LenProperties
  <2>8. j = l
    BY <1>4, <2>3, <2>5, <2>6, <2>7 DEF Distinct
  <2>9. QED
    BY <2>3, <2>5, <2>8
<1>5. QED
  BY <1>3, <1>4

(* However do_reduce and broadcast shuffle them, no session that was       *)
(* brought up is ever dropped, duplicated or put into another group.       *)
THEOREM SessionsKept == Spec => []NoSessionLost
  BY Inductive, SessionPlaces, PTL

(* A sender that may push has been released from all its rounds, and a     *)
(* session in the ready queue is answered for a round all have pushed.     *)
LEMMA StepSimulation == IInv /\ [Next]_vars => [Barrier!Next]_(Barrier!vars)
<1> SUFFICES ASSUME IInv, [Next]_vars PROVE [Barrier!Next]_(Barrier!vars)
  OBVIOUS
<1>1. CASE BroadcastSend
  <2> DEFINE c == Head(ready[g])
  <2>1. c \in Clients /\ c \in Elems(ready[g]) /\ g \in 1 .. K /\ spc = "broadcast"
    BY <1>1, TypeFacts, EmptyElems DEF IInv, BroadcastSend
  <2>2. ctrl' = [ctrl EXCEPT ![c] = @ + 1] /\ data' = data
    BY <1>1 DEF BroadcastSend
  <2> HIDE DEF c
  <2>3. c \in Taken
    <3>1. GroupOf[c] = g
      BY <2>1 DEF IInv, QueuesOK
    <3>2. QED
      BY <2>1, <3>1 DEF Taken
  <2>4. reduced[c] = ctrl[c] + 1
    BY <2>1, <2>3 DEF IInv, RoundsOK
  <2>5. ASSUME NEW d \in Clients PROVE ctrl[c] < data[d]
    <3>1. reduced[d] = reduced[c]
      BY <2>1 DEF IInv, RoundsOK
    <3>2. reduced[d] + wire[d] <= data[d]
      BY PushBounds
    <3>3. reduced[d] \in Nat /\ wire[d] \in Nat /\ data[d] \in Nat /\ ctrl[c] \in Nat
      BY <2>1, CountFacts DEF IInv
    <3>4. QED
      BY <3>1, <3>2, <3>3, <2>4
  <2>6. Barrier!Release(c)
    BY <2>2, <2>5 DEF Barrier!Release
  <2>7. QED
    BY <2>1, <2>6 DEF Barrier!Next
<1>2. ASSUME NEW c \in Clients, Client(c) PROVE [Barrier!Next]_(Barrier!vars)
  <2>1. data' = [data EXCEPT ![c] = @ + 1] /\ ctrl' = ctrl
    BY <1>2 DEF Client, FirstPush, OnRecv, PushData
  <2>2. data[c] = ctrl[c]
    <3>1. /\ data[c] \in Nat /\ reduced[c] \in Nat /\ ctrl[c] \in Nat
          /\ wire[c] \in Nat /\ credits[c] \in Nat
      BY CountFacts DEF IInv
    <3>2. data[c] = 0 \/ (data[c] > 0 /\ credits[c] > 0)
      BY <1>2 DEF Client, FirstPush, OnRecv
    <3>3. QED
      BY <3>1, <3>2, PushBounds
  <2>3. Barrier!Contribute(c)
    BY <2>1, <2>2 DEF Barrier!Contribute
  <2>4. QED
    BY <2>3 DEF Barrier!Next
<1>3. ASSUME data' = data, ctrl' = ctrl PROVE [Barrier!Next]_(Barrier!vars)
  BY <1>3 DEF Barrier!vars
<1>4. CASE Server /\ ~BroadcastSend
  BY <1>3, <1>4 DEF Server, Accept, SessionInit, SessionInitFatal, GetEvent, Rearm,
                    ReducePoll, ReduceDone, BroadcastDone, counts
<1>5. CASE \E c \in Clients : Die(c) \/ Arrive(c) \/ SendCompletes(c)
  BY <1>3, <1>5 DEF Die, Arrive, SendCompletes, counts
<1>6. CASE UNCHANGED vars
  BY <1>3, <1>6 DEF vars, counts
<1>7. QED
  BY <1>1, <1>2, <1>4, <1>5, <1>6 DEF Next

(* Server, senders and network together are a barrier per round: no sender *)
(* is released into the next round before all have contributed to this     *)
(* one, in every topology, event mode and pattern of deaths.               *)
THEOREM Refinement == Spec => ImplementsBarrier
<1>1. Init => Barrier!Init
  BY DEF Init, Barrier!Init
<1>2. IInv /\ [Next]_vars => [Barrier!Next]_(Barrier!vars)
  BY StepSimulation
<1>3. QED
  BY <1>1, <1>2, Inductive, PTL DEF Spec, ImplementsBarrier, Barrier!Spec

=============================================================================
