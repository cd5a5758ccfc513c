------------------------- MODULE RDMASession_proofs -------------------------
(***************************************************************************)
(* Proofs, for any number of late acknowledgements and whichever side may  *)
(* be killed, that a session is type correct, that its synchronisations    *)
(* match, that every message finds its receive posted, and that data and   *)
(* credit alternate.                                                       *)
(***************************************************************************)
EXTENDS RDMASession, SequenceTheorems, FiniteSetTheorems, TLAPS

Handshake == {"greet", "create", "exchange", "to_init", "to_rtr", "to_rts", "sync_Q",
              "sync_before", "pull", "sync_after"}
Loop == {"wait", "rearm", "poll", "repost", "push"}

(* The calls of sock_sync_data, in order. *)
SyncSeq == <<"greet", "exchange", "sync_Q", "sync_before", "sync_after">>

(* How many of them a side at a label has finished. *)
Finished(label) ==
  CASE label = "greet" -> 0
    [] label \in {"create", "exchange"} -> 1
    [] label \in {"to_init", "to_rtr", "to_rts", "sync_Q"} -> 2
    [] label = "sync_before" -> 3
    [] label \in {"pull", "sync_after"} -> 4
    [] OTHER -> 5

Done(s) == Finished(pc[s])

(* How many a side has written for. *)
Written(s) == Done(s) + (IF sent[s] THEN 1 ELSE 0)

(* A side's socket holds what its peer has written and it has not read. *)
SyncOK ==
  \A s \in Sides :
    /\ sent[s] => pc[s] \in SyncPoints
    /\ Done(s) <= Written(Peer(s))
    /\ Len(sock[s]) = Written(Peer(s)) - Done(s)
    /\ \A k \in 1 .. Len(sock[s]) : sock[s][k] = SyncSeq[Done(s) + k]

(* Nothing is sent before the client has finished its handshake. *)
QuietOK ==
  pc["client"] \in Handshake =>
    \A s \in Sides : /\ wire[s] = << >> /\ cq[s] = << >> /\ unacked[s] = 0
                     /\ events[s] = 0 /\ pc[s] \notin {"repost", "push"}

(* The message a side gets. *)
Msg(s) == IF s = "client" THEN "RECV" ELSE "IMM"

(* Some entry of q, or at most one entry, is in A. *)
Some(q, A) == \E k \in 1 .. Len(q) : q[k] \in A
AtMostOne(q, A) == \A j, k \in 1 .. Len(q) : q[j] \in A /\ q[k] \in A => j = k

Pulled(s) == pc[s] \in {"sync_after"} \cup Loop
Heard(s) == Some(cq[s], Answered(s))
Acting(s) == pc[s] \in {"repost", "push"}

(* From its first receive on, a side has exactly one receive posted, or    *)
(* the message that consumed it is not polled, or is polled and the        *)
(* receive about to be replaced; a failed queue pair may have flushed it.  *)
ReceivesOK ==
  \A s \in Sides :
    /\ pc[s] \in {"sync_Q", "sync_before", "pull"} \/ Pulled(s) => qp[s] \in {"RTS", "ERR"}
    /\ qp[s] = "ERR" => ~up[Peer(s)] /\ wire[s] = << >> /\ pc["client"] \in Loop
    /\ rq[s] # 0 => Pulled(s) /\ ~Heard(s) /\ pc[s] # "repost"
    /\ Heard(s) => Pulled(s)
    /\ Pulled(s) /\ qp[s] # "ERR" => rq[s] = 1 \/ Heard(s) \/ pc[s] = "repost"

(* The turn is in at most one of six places. *)
Holds(s) == wire[s] # << >> \/ Heard(s) \/ Acting(s)

TurnOK ==
  /\ \A s \in Sides :
       /\ wire[s] \in {<< >>, <<Msg(s)>>}
       /\ AtMostOne(cq[s], Answered(s))
       /\ wire[s] # << >> => ~Heard(s) /\ ~Acting(s)
       /\ Heard(s) => ~Acting(s)
       /\ Holds(s) => ~Holds(Peer(s))
  /\ pc["client"] \in Loop /\ (\A s \in Sides : up[s]) => \E s \in Sides : Holds(s)

(* An event is only raised by disarming the queue. *)
EventsOK ==
  \A s \in Sides :
    /\ events[s] = 1 => ~armed[s]
    /\ pc[s] \in {"greet", "create"} => events[s] = 0
    /\ pc[s] = "rearm" => ~armed[s] /\ events[s] = 0

IInv == TypeOK /\ SyncOK /\ QuietOK /\ ReceivesOK /\ TurnOK /\ EventsOK

-----------------------------------------------------------------------------
(* Lemmas. *)

(* Each side has one peer. *)
LEMMA PeerFacts ==
  /\ Peer("client") = "server" /\ Peer("server") = "client"
  /\ \A s \in Sides : /\ Peer(s) \in Sides /\ Peer(s) # s /\ Peer(Peer(s)) = s
                      /\ \A r \in Sides : r = s \/ r = Peer(s)
<1>1. \E p \in Sides : p # "client"
  BY DEF Sides
<1>2. \E p \in Sides : p # "server"
  BY DEF Sides
<1>3. Peer("client") \in Sides /\ Peer("client") # "client"
  BY <1>1 DEF Peer
<1>4. Peer("server") \in Sides /\ Peer("server") # "server"
  BY <1>2 DEF Peer
<1>5. QED
  BY <1>3, <1>4 DEF Sides

(* The labels of Program, and where it goes from each. *)
LEMMA ProgramPlaces ==
  \A x : \A k \in 1 .. 10 :
    x = Program[k] => (CHOOSE j \in DOMAIN Program : Program[j] = x) = k
<1> SUFFICES ASSUME NEW x, NEW k \in 1 .. 10, x = Program[k]
             PROVE  (CHOOSE j \in DOMAIN Program : Program[j] = x) = k
  OBVIOUS
<1>1. DOMAIN Program = 1 .. 10
  BY DEF Program
<1>2. \A i, j \in 1 .. 10 : Program[i] = Program[j] => i = j
  BY DEF Program
<1>3. \E j \in DOMAIN Program : Program[j] = x
  BY <1>1
<1>4. QED
  BY <1>1, <1>2, <1>3

(* Labels by name. *)
LEMMA LabelFacts ==
  /\ Elems(Program) = Handshake
  /\ Labels = Handshake \cup Loop
  /\ DOMAIN Program = 1 .. 10 /\ Len(Program) = 10
<1>1. DOMAIN Program = 1 .. 10 /\ Len(Program) = 10
  BY DEF Program
<1>2. Elems(Program) = Handshake
  BY <1>1 DEF Elems, Program, Handshake
<1>3. QED
  BY <1>1, <1>2 DEF Labels, Loop

(* NextPc, label by label. *)
LEMMA NextPcFacts ==
  ASSUME NEW s
  PROVE  /\ pc[s] = "greet" => NextPc(s) = "create"
         /\ pc[s] = "create" => NextPc(s) = "exchange"
         /\ pc[s] = "exchange" => NextPc(s) = "to_init"
         /\ pc[s] = "to_init" => NextPc(s) = "to_rtr"
         /\ pc[s] = "to_rtr" => NextPc(s) = "to_rts"
         /\ pc[s] = "to_rts" => NextPc(s) = "sync_Q"
         /\ pc[s] = "sync_Q" => NextPc(s) = "sync_before"
         /\ pc[s] = "sync_before" => NextPc(s) = "pull"
         /\ pc[s] = "pull" => NextPc(s) = "sync_after"
         /\ pc[s] = "sync_after" => NextPc(s) = AfterHandshake(s)
<1>1. \A k \in 1 .. 10 : pc[s] = Program[k] =>
        NextPc(s) = IF k = 10 THEN AfterHandshake(s) ELSE Program[k + 1]
  <2> TAKE k \in 1 .. 10
  <2> HAVE pc[s] = Program[k]
  <2>1. (CHOOSE j \in DOMAIN Program : Program[j] = pc[s]) = k
    BY ProgramPlaces
  <2>2. QED
    BY <2>1, LabelFacts DEF NextPc
<1>2. /\ Program[1] = "greet" /\ Program[2] = "create" /\ Program[3] = "exchange"
      /\ Program[4] = "to_init" /\ Program[5] = "to_rtr" /\ Program[6] = "to_rts"
      /\ Program[7] = "sync_Q" /\ Program[8] = "sync_before" /\ Program[9] = "pull"
      /\ Program[10] = "sync_after"
  BY DEF Program
<1>3. QED
  BY <1>1, <1>2

(* Pos, label by label. *)
LEMMA PosFacts ==
  ASSUME NEW s, pc[s] \in Labels
  PROVE  /\ \A k \in 1 .. 10 : pc[s] = Program[k] => Pos(s) = k
         /\ pc[s] \in Loop => Pos(s) = 11
<1>1. \A k \in 1 .. 10 : pc[s] = Program[k] => pc[s] \in Elems(Program)
  BY LabelFacts DEF Elems
<1>2. pc[s] \in Loop => pc[s] \notin Elems(Program)
  BY LabelFacts DEF Loop, Handshake
<1>3. QED
  BY <1>1, <1>2, ProgramPlaces, LabelFacts DEF Pos

(* An entry is put at the end. *)
LEMMA AppendFacts ==
  ASSUME NEW S, NEW q \in Seq(S), NEW x \in S, NEW A
  PROVE  /\ Some(Append(q, x), A) <=> Some(q, A) \/ x \in A
         /\ AtMostOne(q, A) /\ (x \in A => ~Some(q, A)) => AtMostOne(Append(q, x), A)
<1>1. /\ Append(q, x) \in Seq(S) /\ Len(Append(q, x)) = Len(q) + 1 /\ Len(q) \in Nat
      /\ \A k \in 1 .. Len(q) : Append(q, x)[k] = q[k]
      /\ Append(q, x)[Len(q) + 1] = x
  BY AppendProperties
<1>2. \A k \in 1 .. Len(q) + 1 : k \in 1 .. Len(q) \/ k = Len(q) + 1
  BY <1>1
<1>3. QED
  BY <1>1, <1>2 DEF Some, AtMostOne

(* The first entry is taken. *)
LEMMA TailFacts ==
  ASSUME NEW S, NEW q \in Seq(S), q # << >>, NEW A, AtMostOne(q, A)
  PROVE  /\ Some(q, A) <=> Head(q) \in A \/ Some(Tail(q), A)
         /\ Head(q) \in A => ~Some(Tail(q), A)
         /\ AtMostOne(Tail(q), A)
<1>1. /\ Tail(q) \in Seq(S) /\ Len(Tail(q)) = Len(q) - 1 /\ Len(q) \in Nat /\ Len(q) > 0
      /\ \A k \in 1 .. Len(Tail(q)) : Tail(q)[k] = q[k + 1]
      /\ Head(q) = q[1]
  BY HeadTailProperties, EmptySeq
<1>2. \A k \in 1 .. Len(q) : k = 1 \/ (k - 1 \in 1 .. Len(Tail(q)) /\ Tail(q)[k - 1] = q[k])
  BY <1>1
<1>3. \A k \in 1 .. Len(Tail(q)) : k + 1 \in 1 .. Len(q) /\ k + 1 # 1
  BY <1>1
<1>4. 1 \in 1 .. Len(q)
  BY <1>1
<1>5. Some(q, A) <=> Head(q) \in A \/ Some(Tail(q), A)
  BY <1>1, <1>2, <1>3, <1>4 DEF Some
<1>6. Head(q) \in A => ~Some(Tail(q), A)
  BY <1>1, <1>3, <1>4 DEF Some, AtMostOne
<1>7. AtMostOne(Tail(q), A)
  <2> SUFFICES ASSUME NEW j \in 1 .. Len(Tail(q)), NEW k \in 1 .. Len(Tail(q)),
                      Tail(q)[j] \in A, Tail(q)[k] \in A
               PROVE  j = k
    BY DEF AtMostOne
  <2>1. j + 1 = k + 1
    BY <1>1, <1>3 DEF AtMostOne
  <2>2. QED
    BY <2>1, <1>1
<1>8. QED
  BY <1>5, <1>6, <1>7

(* What is answered, and what is not. *)
LEMMA AnswerFacts ==
  \A s \in Sides : /\ Msg(s) \in Answered(s) /\ Msg(s) \in {"IMM", "RECV"}
                   /\ "SEND" \notin Answered(s) /\ "RDMA_WRITE" \notin Answered(s)
                   /\ "FAILED" \notin Answered(s)
  BY DEF Msg, Answered

(* The initial state. *)
LEMMA InitIInv == Init => IInv
<1> SUFFICES ASSUME Init PROVE IInv
  OBVIOUS
<1> USE PeerFacts, LabelFacts DEF Init
<1>1. TypeOK
  BY UnackedAssumption DEF TypeOK, Handshake
<1>2. SyncOK
  BY DEF SyncOK, Done, Finished, Written
<1>3. QuietOK
  BY DEF QuietOK
<1>4. ~Heard("server") /\ ~Heard("client")
  BY DEF Heard, Some, Sides
<1>5. ReceivesOK
  BY <1>4 DEF ReceivesOK, Pulled, Loop, Sides
<1>6. TurnOK
  BY <1>4 DEF TurnOK, Holds, Acting, Loop, Sides, AtMostOne
<1>7. EventsOK
  BY DEF EventsOK
<1>8. QED
  BY <1>1, <1>2, <1>3, <1>5, <1>6, <1>7 DEF IInv

(* How Done and Written count. *)
LEMMA SyncCounts ==
  /\ \A l \in Labels : Finished(l) \in 0 .. 5
  /\ \A l \in SyncPoints : Finished(l) \in 0 .. 4 /\ SyncSeq[Finished(l) + 1] = l
  /\ \A l \in Loop : Finished(l) = 5
<1>1. \A l \in Labels : Finished(l) \in 0 .. 5
  BY LabelFacts DEF Finished
<1>2. \A l \in SyncPoints : Finished(l) \in 0 .. 4 /\ SyncSeq[Finished(l) + 1] = l
  BY DEF SyncPoints, Finished, SyncSeq
<1>3. \A l \in Loop : Finished(l) = 5
  BY DEF Finished, Loop
<1>4. QED
  BY <1>1, <1>2, <1>3

(* Their types. *)
LEMMA SyncTypes ==
  ASSUME TypeOK, NEW s \in Sides
  PROVE  /\ Done(s) \in 0 .. 5 /\ sent[s] \in BOOLEAN
         /\ (sent[s] /\ Written(s) = Done(s) + 1) \/ (~sent[s] /\ Written(s) = Done(s))
         /\ sock[s] \in Seq(SyncPoints) /\ Len(sock[s]) \in Nat
  BY SyncCounts DEF TypeOK, Done, Written

(* A client in its loop has heard of all five synchronisations. *)
LEMMA ServerPulled ==
  ASSUME TypeOK, SyncOK, pc["client"] \in Loop
  PROVE  Pulled("server")
<1> USE DEF Sides
<1>1. Done("client") = 5
  BY SyncCounts DEF Done
<1>2. 5 <= Written("server")
  BY <1>1, PeerFacts DEF SyncOK
<1>3. CASE sent["server"]
  <2>1. pc["server"] \in SyncPoints
    BY <1>3 DEF SyncOK
  <2>2. Done("server") >= 4
    BY <1>2, <1>3, SyncTypes
  <2>3. QED
    BY <2>1, <2>2 DEF Done, Finished, SyncPoints, Pulled
<1>4. CASE ~sent["server"]
  <2>1. Done("server") >= 5
    BY <1>2, <1>4, SyncTypes
  <2>2. pc["server"] \in Labels
    BY DEF TypeOK
  <2>3. QED
    BY <2>1, <2>2, LabelFacts DEF Done, Finished, Handshake, Loop, Pulled
<1>5. QED
  BY <1>3, <1>4

(* A step that neither calls sock_sync_data nor comes to another call. *)
LEMMA SyncFrame ==
  ASSUME TypeOK, SyncOK, UNCHANGED <<sent, sock>>,
         \A s \in Sides : \/ pc'[s] = pc[s]
                          \/ /\ pc[s] \notin SyncPoints
                             /\ Finished(pc'[s]) = Finished(pc[s])
  PROVE  SyncOK'
<1>1. \A s \in Sides : Done(s)' = Done(s) /\ Written(s)' = Written(s)
  BY DEF Done, Written
<1>2. SUFFICES ASSUME NEW s \in Sides
               PROVE  /\ sent[s] => pc'[s] \in SyncPoints
                      /\ Done(s) <= Written(Peer(s))
                      /\ Len(sock[s]) = Written(Peer(s)) - Done(s)
                      /\ \A k \in 1 .. Len(sock[s]) : sock[s][k] = SyncSeq[Done(s) + k]
  BY <1>1, PeerFacts DEF SyncOK
<1>3. QED
  BY DEF SyncOK

(* A process ends; some of what it sent may never have left it. *)
LEMMA EndIInv ==
  ASSUME IInv, NEW s \in Sides, up' = [up EXCEPT ![s] = FALSE],
         wire' \in [Sides -> Seq({"IMM", "RECV"})],
         \A r \in Sides : wire'[r] \in {<< >>, wire[r]},
         UNCHANGED <<use_event, pc, sent, sock, qp, rq, unacked, cq, armed, events>>
  PROVE  IInv'
<1> USE DEF IInv
<1>1. /\ \A r : Heard(r)' = Heard(r) /\ Acting(r)' = Acting(r) /\ Pulled(r)' = Pulled(r)
      /\ \A r \in Sides : Holds(r)' => Holds(r)
  <2>1. \A r : Heard(r)' = Heard(r) /\ Acting(r)' = Acting(r) /\ Pulled(r)' = Pulled(r)
    BY DEF Heard, Acting, Pulled
  <2>2. QED
    BY <2>1 DEF Holds
<1>2. TypeOK'
  BY DEF TypeOK
<1>3. SyncOK'
  BY SyncFrame
<1>4. QuietOK'
  BY DEF QuietOK
<1>5. \A r \in Sides : ~up[r] => ~up'[r]
  BY DEF TypeOK
<1>6. ReceivesOK'
  BY <1>1, <1>5, PeerFacts DEF ReceivesOK
<1>7. TurnOK'
  <2>1. ~up'[s]
    BY DEF TypeOK
  <2>2. QED
    BY <1>1, <2>1, PeerFacts DEF TurnOK
<1>8. EventsOK'
  BY DEF EventsOK
<1>9. QED
  BY <1>2, <1>3, <1>4, <1>6, <1>7, <1>8

-----------------------------------------------------------------------------
(* The handshake. *)

(* sock_sync_data writes. *)
LEMMA SyncSendIInv ==
  ASSUME IInv, NEW s \in Sides, SyncSend(s)
  PROVE  IInv'
<1> USE DEF IInv
<1> PICK p \in Sides : p = Peer(s) /\ p # s /\ Peer(p) = s /\ \A r \in Sides : r = s \/ r = p
  BY PeerFacts
<1>1. CASE Fatal(s)
  <2>1. wire' = wire
    BY DEF SyncSend, verbs
  <2>2. QED
    BY <1>1, <2>1, EndIInv DEF SyncSend, Fatal, verbs, TypeOK
<1>2. CASE /\ sent' = [sent EXCEPT ![s] = TRUE]
           /\ sock' = [sock EXCEPT ![Peer(s)] = Append(@, pc[s])]
           /\ UNCHANGED <<up, pc>>
  <2>1. /\ pc[s] \in SyncPoints /\ ~sent[s]
        /\ UNCHANGED <<use_event, up, pc, qp, rq, wire, unacked, cq, armed, events>>
    BY <1>2 DEF SyncSend, At, verbs
  <2>2. /\ sent'[s] = TRUE /\ sent'[p] = sent[p]
        /\ sock'[s] = sock[s] /\ sock'[p] = Append(sock[p], pc[s])
    BY <1>2 DEF TypeOK
  <2>3. TypeOK'
    BY <1>2, <2>1 DEF TypeOK
  <2>4. SyncOK'
    <3>1. /\ Done(s)' = Done(s) /\ Done(p)' = Done(p)
          /\ Written(s) = Done(s) /\ Written(s)' = Done(s) + 1 /\ Written(p)' = Written(p)
      <4>1. Done(s)' = Done(s) /\ Done(p)' = Done(p)
        BY <2>1 DEF Done
      <4>2. Written(s)' = Done(s) + 1 /\ Written(p)' = Written(p)
        BY <4>1, <2>2 DEF Written
      <4>3. Written(s) = Done(s)
        BY <2>1, SyncTypes
      <4>4. QED
        BY <4>1, <4>2, <4>3
    <3>2. Done(p) \in 0 .. 5 /\ Done(s) \in 0 .. 5 /\ Written(p) \in Nat
          /\ sock[p] \in Seq(SyncPoints) /\ Len(sock[p]) \in Nat
      BY SyncTypes
    <3>3. /\ Done(p) <= Done(s) /\ Len(sock[p]) = Done(s) - Done(p)
          /\ \A k \in 1 .. Len(sock[p]) : sock[p][k] = SyncSeq[Done(p) + k]
          /\ sent[p] => pc[p] \in SyncPoints
      BY <3>1 DEF SyncOK
    <3>4. /\ Len(Append(sock[p], pc[s])) = Len(sock[p]) + 1
          /\ \A k \in 1 .. Len(sock[p]) : Append(sock[p], pc[s])[k] = sock[p][k]
          /\ Append(sock[p], pc[s])[Len(sock[p]) + 1] = pc[s]
      BY <2>1, <3>2, AppendProperties
    <3>5. pc[s] = SyncSeq[Done(s) + 1]
      BY <2>1, SyncCounts DEF Done
    <3>6. \A k \in 1 .. Len(sock[p]) + 1 :
            Append(sock[p], pc[s])[k] = SyncSeq[Done(p) + k]
      <4> TAKE k \in 1 .. Len(sock[p]) + 1
      <4>1. CASE k \in 1 .. Len(sock[p])
        BY <4>1, <3>3, <3>4
      <4>2. CASE k = Len(sock[p]) + 1
        <5>1. Done(p) + k = Done(s) + 1
          BY <4>2, <3>2, <3>3
        <5>2. QED
          BY <4>2, <5>1, <3>4, <3>5
      <4>3. QED
        BY <4>1, <4>2, <3>2
    <3>7. /\ sent'[p] => pc'[p] \in SyncPoints
          /\ Done(p)' <= Written(s)'
          /\ Len(sock'[p]) = Written(s)' - Done(p)'
          /\ \A k \in 1 .. Len(sock'[p]) : sock'[p][k] = SyncSeq[Done(p)' + k]
      <4>1. Len(sock'[p]) = Len(sock[p]) + 1 /\ sock'[p] = Append(sock[p], pc[s])
        BY <2>2, <3>4
      <4>2. \A k \in 1 .. Len(sock'[p]) : sock'[p][k] = SyncSeq[Done(p)' + k]
        BY <4>1, <3>1, <3>6
      <4>3. sent'[p] => pc'[p] \in SyncPoints
        BY <2>1, <2>2, <3>3
      <4>4. Done(p)' <= Written(s)' /\ Len(sock'[p]) = Written(s)' - Done(p)'
        BY <4>1, <3>1, <3>2, <3>3
      <4>5. QED
        BY <4>2, <4>3, <4>4
    <3>8. /\ sent'[s] => pc'[s] \in SyncPoints
          /\ Done(s)' <= Written(p)'
          /\ Len(sock'[s]) = Written(p)' - Done(s)'
          /\ \A k \in 1 .. Len(sock'[s]) : sock'[s][k] = SyncSeq[Done(s)' + k]
      BY <2>1, <2>2, <3>1 DEF SyncOK
    <3>9. QED
      BY <3>7, <3>8 DEF SyncOK
  <2>5. \A r : /\ Heard(r)' = Heard(r) /\ Acting(r)' = Acting(r) /\ Pulled(r)' = Pulled(r)
               /\ Holds(r)' = Holds(r)
    BY <2>1 DEF Heard, Acting, Pulled, Holds
  <2>6. QuietOK' /\ EventsOK'
    BY <2>1 DEF QuietOK, EventsOK
  <2>7. ReceivesOK' /\ TurnOK'
    BY <2>1, <2>5 DEF ReceivesOK, TurnOK
  <2>8. QED
    BY <2>3, <2>4, <2>6, <2>7
<1>3. QED
  BY <1>1, <1>2 DEF SyncSend

(* Where the calls of sock_sync_data lead. *)
LEMMA SyncNext ==
  ASSUME NEW s \in Sides, pc[s] \in SyncPoints
  PROVE  /\ NextPc(s) \in Labels /\ NextPc(s) # pc[s]
         /\ Finished(NextPc(s)) = Finished(pc[s]) + 1
         /\ \/ pc[s] = "greet" /\ NextPc(s) = "create"
            \/ pc[s] = "exchange" /\ NextPc(s) = "to_init"
            \/ pc[s] = "sync_Q" /\ NextPc(s) = "sync_before"
            \/ pc[s] = "sync_before" /\ NextPc(s) = "pull"
            \/ pc[s] = "sync_after" /\ s = "client" /\ NextPc(s) = "push"
            \/ pc[s] = "sync_after" /\ s = "server" /\ NextPc(s) \in {"wait", "poll"}
<1>1. pc[s] = "sync_after" => \/ s = "client" /\ NextPc(s) = "push"
                              \/ s = "server" /\ NextPc(s) \in {"wait", "poll"}
  BY NextPcFacts DEF AfterHandshake, LoopTop, Sides
<1>2. \/ pc[s] = "greet" /\ NextPc(s) = "create"
      \/ pc[s] = "exchange" /\ NextPc(s) = "to_init"
      \/ pc[s] = "sync_Q" /\ NextPc(s) = "sync_before"
      \/ pc[s] = "sync_before" /\ NextPc(s) = "pull"
      \/ pc[s] = "sync_after" /\ s = "client" /\ NextPc(s) = "push"
      \/ pc[s] = "sync_after" /\ s = "server" /\ NextPc(s) \in {"wait", "poll"}
  BY <1>1, NextPcFacts DEF SyncPoints
<1>3. NextPc(s) \in Labels /\ NextPc(s) # pc[s]
  BY <1>2, LabelFacts DEF Handshake, Loop
<1>4. Finished(NextPc(s)) = Finished(pc[s]) + 1
  BY <1>2 DEF Finished
<1>5. QED
  BY <1>2, <1>3, <1>4

(* sock_sync_data reads. *)
LEMMA SyncRecvIInv ==
  ASSUME IInv, NEW s \in Sides, SyncRecv(s)
  PROVE  IInv'
<1> USE DEF IInv
<1> PICK p \in Sides : p = Peer(s) /\ p # s /\ Peer(p) = s /\ \A r \in Sides : r = s \/ r = p
  BY PeerFacts
<1>1. CASE Fatal(s)
  <2>1. wire' = wire
    BY DEF SyncRecv, verbs
  <2>2. QED
    BY <1>1, <2>1, EndIInv DEF SyncRecv, Fatal, verbs, TypeOK
<1>2. CASE /\ sock[s] # << >>
           /\ sent' = [sent EXCEPT ![s] = FALSE]
           /\ sock' = [sock EXCEPT ![s] = Tail(@)]
           /\ Goto(s, NextPc(s))
  <2>1. /\ pc[s] \in SyncPoints /\ sent[s]
        /\ UNCHANGED <<use_event, up, qp, rq, wire, unacked, cq, armed, events>>
    BY <1>2 DEF SyncRecv, At, Goto, verbs
  <2> PICK n \in Labels : n = NextPc(s)
    BY <2>1, SyncNext
  <2>2. /\ sent'[s] = FALSE /\ sent'[p] = sent[p]
        /\ sock'[s] = Tail(sock[s]) /\ sock'[p] = sock[p]
        /\ pc'[s] = n /\ pc'[p] = pc[p]
        /\ pc' \in [Sides -> Labels]
    BY <1>2 DEF TypeOK, Goto
  <2>3. Finished(n) = Finished(pc[s]) + 1
    BY <2>1, SyncNext
  <2>4. \/ pc[s] = "greet" /\ n = "create"
        \/ pc[s] = "exchange" /\ n = "to_init"
        \/ pc[s] = "sync_Q" /\ n = "sync_before"
        \/ pc[s] = "sync_before" /\ n = "pull"
        \/ pc[s] = "sync_after" /\ s = "client" /\ n = "push"
        \/ pc[s] = "sync_after" /\ s = "server" /\ n \in {"wait", "poll"}
    BY <2>1, SyncNext
  <2>5. /\ Tail(sock[s]) \in Seq(SyncPoints) /\ Len(Tail(sock[s])) = Len(sock[s]) - 1
        /\ Len(sock[s]) \in Nat /\ Len(sock[s]) > 0
        /\ \A k \in 1 .. Len(Tail(sock[s])) : Tail(sock[s])[k] = sock[s][k + 1]
    BY <1>2, SyncTypes, HeadTailProperties, EmptySeq
  <2>6. TypeOK'
    BY <1>2, <2>1, <2>2, <2>5 DEF TypeOK
  <2>7. SyncOK'
    <3>1. /\ Done(s) \in 0 .. 5 /\ Done(p) \in 0 .. 5 /\ Written(p) \in Nat
          /\ Written(s) = Done(s) + 1
      BY <2>1, SyncTypes
    <3>2. /\ Done(s)' = Done(s) + 1 /\ Done(p)' = Done(p)
          /\ Written(p)' = Written(p)
      BY <2>2, <2>3 DEF Done, Written
    <3>3. Written(s)' = Written(s)
      BY <2>2, <3>1, <3>2 DEF Written
    <3>4. /\ Len(sock[s]) = Written(p) - Done(s)
          /\ \A k \in 1 .. Len(sock[s]) : sock[s][k] = SyncSeq[Done(s) + k]
      BY DEF SyncOK
    <3>5. Done(s)' <= Written(p)' /\ Len(sock'[s]) = Written(p)' - Done(s)'
      BY <2>2, <2>5, <3>1, <3>2, <3>4
    <3>6. ASSUME NEW k \in 1 .. Len(Tail(sock[s]))
          PROVE  Tail(sock[s])[k] = SyncSeq[Done(s)' + k]
      <4>1. k + 1 \in 1 .. Len(sock[s]) /\ Done(s)' + k = Done(s) + (k + 1)
        BY <2>5, <3>1, <3>2
      <4>2. QED
        BY <4>1, <2>5, <3>4
    <3>7. /\ sent'[s] => pc'[s] \in SyncPoints
          /\ Done(s)' <= Written(p)'
          /\ Len(sock'[s]) = Written(p)' - Done(s)'
          /\ \A k \in 1 .. Len(sock'[s]) : sock'[s][k] = SyncSeq[Done(s)' + k]
      BY <2>2, <3>5, <3>6
    <3>8. /\ sent'[p] => pc'[p] \in SyncPoints
          /\ Done(p)' <= Written(s)'
          /\ Len(sock'[p]) = Written(s)' - Done(p)'
          /\ \A k \in 1 .. Len(sock'[p]) : sock'[p][k] = SyncSeq[Done(p)' + k]
      BY <2>2, <3>2, <3>3 DEF SyncOK
    <3>9. QED
      BY <3>7, <3>8 DEF SyncOK
  <2>8. /\ \A r : Heard(r)' = Heard(r)
        /\ Pulled(s)' = Pulled(s) /\ Pulled(p)' = Pulled(p)
        /\ Acting(p)' = Acting(p) /\ ~Acting(s)
        /\ Acting(s)' <=> pc[s] = "sync_after" /\ s = "client"
    BY <2>1, <2>2, <2>4 DEF Heard, Pulled, Acting, Loop
  <2>9. QuietOK'
    BY <2>1, <2>2, <2>4, PeerFacts DEF QuietOK, Handshake, Sides
  <2>10. ReceivesOK'
    <3>1. pc["client"] \in Loop => pc'["client"] \in Loop
      BY <2>1, <2>2 DEF Loop, SyncPoints, Sides
    <3>2. QED
      BY <3>1, <2>1, <2>2, <2>4, <2>8 DEF ReceivesOK
  <2>11. TurnOK'
    <3>1. CASE pc[s] = "sync_after" /\ s = "client"
      <4>1. \A r \in Sides : ~Acting(r) /\ wire[r] = << >> /\ cq[r] = << >>
        BY <3>1 DEF QuietOK, Acting, Handshake
      <4>2. \A r \in Sides : ~Heard(r)'
        BY <4>1, <2>8 DEF Heard, Some
      <4>3. Holds(s)' /\ ~Holds(p)'
        BY <4>1, <4>2, <2>1, <2>8, <3>1 DEF Holds
      <4>4. \A r \in Sides : wire'[r] = << >> /\ cq'[r] = << >>
        BY <4>1, <2>1
      <4>5. QED
        BY <4>2, <4>3, <4>4 DEF TurnOK, AtMostOne
    <3>2. CASE ~(pc[s] = "sync_after" /\ s = "client")
      <4>1. \A r \in Sides : (Acting(r)' <=> Acting(r)) /\ (Holds(r)' <=> Holds(r))
        BY <3>2, <2>1, <2>8 DEF Holds
      <4>2. pc'["client"] \in Loop => pc["client"] \in Loop
        BY <3>2, <2>2, <2>4 DEF Loop, Sides
      <4>3. QED
        BY <4>1, <4>2, <2>1, <2>8 DEF TurnOK
    <3>3. QED
      BY <3>1, <3>2
  <2>12. EventsOK'
    BY <2>1, <2>2, <2>4 DEF EventsOK
  <2>13. QED
    BY <2>6, <2>7, <2>9, <2>10, <2>11, <2>12
<1>3. QED
  BY <1>1, <1>2 DEF SyncRecv

(* A step of side s within its handshake that leaves the traffic alone. *)
LEMMA HandshakeStep ==
  ASSUME IInv, NEW s \in Sides, NEW n,
         \/ pc[s] = "create" /\ n = "exchange"
         \/ pc[s] = "to_init" /\ n = "to_rtr"
         \/ pc[s] = "to_rtr" /\ n = "to_rts"
         \/ pc[s] = "to_rts" /\ n = "sync_Q"
         \/ pc[s] = "pull" /\ n = "sync_after",
         pc' = [pc EXCEPT ![s] = n],
         UNCHANGED <<up, sent, sock, wire, unacked, cq, events>>
  PROVE  /\ pc'[s] = n /\ pc'[Peer(s)] = pc[Peer(s)] /\ pc' \in [Sides -> Labels]
         /\ SyncOK' /\ QuietOK' /\ TurnOK'
         /\ pc["client"] \in Loop => pc'["client"] \in Loop
         /\ \A r : Heard(r)' = Heard(r)
         /\ Pulled(Peer(s))' = Pulled(Peer(s)) /\ (Pulled(s)' <=> n = "sync_after") /\ ~Pulled(s)
<1> USE DEF IInv
<1> PICK p \in Sides : p = Peer(s) /\ p # s /\ Peer(p) = s /\ \A r \in Sides : r = s \/ r = p
  BY PeerFacts
<1>1. pc'[s] = n /\ pc'[p] = pc[p] /\ n \in Labels /\ pc' \in [Sides -> Labels]
  BY LabelFacts DEF TypeOK, Handshake
<1>2. SyncOK'
  <2>1. pc[s] \notin SyncPoints /\ Finished(n) = Finished(pc[s])
    BY DEF SyncPoints, Finished
  <2>2. QED
    BY <1>1, <2>1, SyncFrame
<1>3. /\ \A r : Heard(r)' = Heard(r)
      /\ Pulled(p)' = Pulled(p) /\ (Pulled(s)' <=> n = "sync_after") /\ ~Pulled(s)
      /\ \A r \in Sides : Acting(r)' = Acting(r)
  BY <1>1 DEF Heard, Pulled, Acting, Loop
<1>4. \A r \in Sides : Holds(r)' = Holds(r)
  BY <1>3 DEF Holds
<1>5. pc'["client"] \in Loop <=> pc["client"] \in Loop
  BY <1>1 DEF Loop, Sides
<1>6. pc'["client"] \in Handshake => pc["client"] \in Handshake
  BY <1>1 DEF Handshake, Sides
<1>7. QuietOK'
  BY <1>1, <1>6 DEF QuietOK
<1>8. TurnOK'
  BY <1>3, <1>4, <1>5 DEF TurnOK
<1>9. QED
  BY <1>1, <1>2, <1>3, <1>5, <1>7, <1>8

(* resources_create. *)
LEMMA ResourcesCreateIInv ==
  ASSUME IInv, NEW s \in Sides, ResourcesCreate(s)
  PROVE  IInv'
<1> USE DEF IInv
<1> PICK p \in Sides : p = Peer(s) /\ p # s /\ Peer(p) = s /\ \A r \in Sides : r = s \/ r = p
  BY PeerFacts
<1>1. /\ pc[s] = "create" /\ pc' = [pc EXCEPT ![s] = "exchange"]
      /\ qp' = [qp EXCEPT ![s] = "RESET"] /\ armed' = [armed EXCEPT ![s] = use_event]
      /\ UNCHANGED <<use_event, up, sent, sock, rq, wire, unacked, cq, events>>
  BY NextPcFacts DEF ResourcesCreate, At, Goto
<1>2. /\ pc'[s] = "exchange" /\ pc'[p] = pc[p] /\ pc' \in [Sides -> Labels]
      /\ SyncOK' /\ QuietOK' /\ TurnOK'
      /\ pc["client"] \in Loop => pc'["client"] \in Loop
      /\ \A r : Heard(r)' = Heard(r)
      /\ Pulled(p)' = Pulled(p) /\ ~Pulled(s)' /\ ~Pulled(s)
  BY <1>1, HandshakeStep
<1>3. TypeOK'
  BY <1>1, <1>2 DEF TypeOK
<1>4. qp'[s] = "RESET" /\ qp'[p] = qp[p] /\ armed'[p] = armed[p]
  BY <1>1 DEF TypeOK
<1>5. ReceivesOK'
  BY <1>1, <1>2, <1>4 DEF ReceivesOK
<1>6. EventsOK'
  BY <1>1, <1>2, <1>4 DEF EventsOK
<1>7. QED
  BY <1>2, <1>3, <1>5, <1>6

(* The transitions of connect_qp. *)
LEMMA ModifyQPIInv ==
  ASSUME IInv, NEW s \in Sides, ModifyQP(s)
  PROVE  IInv'
<1> USE DEF IInv
<1> PICK p \in Sides : p = Peer(s) /\ p # s /\ Peer(p) = s /\ \A r \in Sides : r = s \/ r = p
  BY PeerFacts
<1>1. PICK n \in {"to_rtr", "to_rts", "sync_Q"}, q \in {"INIT", "RTR", "RTS"} :
        /\ \/ pc[s] = "to_init" /\ n = "to_rtr"
           \/ pc[s] = "to_rtr" /\ n = "to_rts"
           \/ pc[s] = "to_rts" /\ n = "sync_Q" /\ q = "RTS"
        /\ pc' = [pc EXCEPT ![s] = n]
        /\ qp' = [qp EXCEPT ![s] = q]
  <2>1. PICK t \in {<<"to_init", "INIT">>, <<"to_rtr", "RTR">>, <<"to_rts", "RTS">>} :
          pc[s] = t[1] /\ qp' = [qp EXCEPT ![s] = t[2]]
    BY DEF ModifyQP, At
  <2>2. pc' = [pc EXCEPT ![s] = NextPc(s)]
    BY DEF ModifyQP, Goto
  <2>3. CASE t = <<"to_init", "INIT">>
    BY <2>1, <2>2, <2>3, NextPcFacts
  <2>4. CASE t = <<"to_rtr", "RTR">>
    BY <2>1, <2>2, <2>4, NextPcFacts
  <2>5. CASE t = <<"to_rts", "RTS">>
    BY <2>1, <2>2, <2>5, NextPcFacts
  <2>6. QED
    BY <2>3, <2>4, <2>5
<1>2. UNCHANGED <<use_event, up, sent, sock, rq, wire, unacked, cq, armed, events>>
  BY DEF ModifyQP, Goto
<1>3. /\ pc'[s] = n /\ pc'[p] = pc[p] /\ pc' \in [Sides -> Labels]
      /\ SyncOK' /\ QuietOK' /\ TurnOK'
      /\ pc["client"] \in Loop => pc'["client"] \in Loop
      /\ \A r : Heard(r)' = Heard(r)
      /\ Pulled(p)' = Pulled(p) /\ ~Pulled(s)' /\ ~Pulled(s)
  BY <1>1, <1>2, HandshakeStep
<1>4. TypeOK'
  BY <1>1, <1>2, <1>3 DEF TypeOK
<1>5. qp'[s] = q /\ qp'[p] = qp[p]
  BY <1>1 DEF TypeOK
<1>6. ReceivesOK'
  BY <1>1, <1>2, <1>3, <1>5 DEF ReceivesOK
<1>7. EventsOK'
  BY <1>1, <1>2, <1>3 DEF EventsOK
<1>8. QED
  BY <1>3, <1>4, <1>6, <1>7

(* The first receive. *)
LEMMA PullCtrlIInv ==
  ASSUME IInv, NEW s \in Sides, PullCtrl(s)
  PROVE  IInv'
<1> USE DEF IInv
<1> PICK p \in Sides : p = Peer(s) /\ p # s /\ Peer(p) = s /\ \A r \in Sides : r = s \/ r = p
  BY PeerFacts
<1>1. /\ pc[s] = "pull" /\ pc' = [pc EXCEPT ![s] = "sync_after"]
      /\ rq' = [rq EXCEPT ![s] = @ + 1]
      /\ UNCHANGED <<use_event, up, sent, sock, qp, wire, unacked, cq, armed, events>>
  BY NextPcFacts DEF PullCtrl, At, Goto
<1>2. /\ pc'[s] = "sync_after" /\ pc'[p] = pc[p] /\ pc' \in [Sides -> Labels]
      /\ SyncOK' /\ QuietOK' /\ TurnOK'
      /\ pc["client"] \in Loop => pc'["client"] \in Loop
      /\ \A r : Heard(r)' = Heard(r)
      /\ Pulled(p)' = Pulled(p) /\ Pulled(s)' /\ ~Pulled(s)
  BY <1>1, HandshakeStep
<1>3. rq[s] = 0 /\ ~Heard(s) /\ qp[s] \in {"RTS", "ERR"}
  BY <1>1, <1>2 DEF ReceivesOK
<1>4. rq'[s] = 1 /\ rq'[p] = rq[p] /\ rq' \in [Sides -> 0 .. 1]
  BY <1>1, <1>3 DEF TypeOK
<1>5. TypeOK'
  BY <1>1, <1>2, <1>4 DEF TypeOK
<1>6. ReceivesOK'
  BY <1>1, <1>2, <1>3, <1>4 DEF ReceivesOK
<1>7. EventsOK'
  BY <1>1, <1>2 DEF EventsOK
<1>8. QED
  BY <1>2, <1>5, <1>6, <1>7

-----------------------------------------------------------------------------
(* The loop. *)

(* A step of side s within its loop. *)
LEMMA LoopStep ==
  ASSUME IInv, NEW s \in Sides, pc[s] \in Loop, NEW n \in Loop,
         pc' = [pc EXCEPT ![s] = n], UNCHANGED <<sent, sock>>
  PROVE  /\ pc'[s] = n /\ pc'[Peer(s)] = pc[Peer(s)] /\ pc' \in [Sides -> Labels]
         /\ SyncOK'
         /\ \A r \in Sides : /\ pc'[r] \in Loop <=> pc[r] \in Loop
                             /\ pc'[r] \in Handshake <=> pc[r] \in Handshake
                             /\ Pulled(r)' <=> Pulled(r)
         /\ Pulled(s) /\ (Acting(Peer(s))' <=> Acting(Peer(s)))
         /\ qp[s] \in {"RTS", "ERR"}
<1> USE DEF IInv
<1> PICK p \in Sides : p = Peer(s) /\ p # s /\ Peer(p) = s /\ \A r \in Sides : r = s \/ r = p
  BY PeerFacts
<1>1. pc'[s] = n /\ pc'[p] = pc[p] /\ pc' \in [Sides -> Labels]
  BY LabelFacts DEF TypeOK
<1>2. SyncOK'
  <2>1. pc[s] \notin SyncPoints /\ Finished(n) = Finished(pc[s])
    BY SyncCounts DEF SyncPoints, Loop
  <2>2. QED
    BY <1>1, <2>1, SyncFrame
<1>3. \A r \in Sides : /\ pc'[r] \in Loop <=> pc[r] \in Loop
                       /\ pc'[r] \in Handshake <=> pc[r] \in Handshake
  BY <1>1 DEF Loop, Handshake
<1>4. \A r \in Sides : Pulled(r)' <=> Pulled(r)
  BY <1>1 DEF Pulled, Loop
<1>5. Pulled(s) /\ (Acting(p)' <=> Acting(p))
  BY <1>1 DEF Pulled, Acting
<1>6. qp[s] \in {"RTS", "ERR"}
  BY <1>5 DEF ReceivesOK
<1>7. QED
  BY <1>1, <1>2, <1>3, <1>4, <1>5, <1>6

(* ibv_get_cq_event. *)
LEMMA GetEventIInv ==
  ASSUME IInv, NEW s \in Sides, GetEvent(s)
  PROVE  IInv'
<1> USE DEF IInv
<1> PICK p \in Sides : p = Peer(s) /\ p # s /\ Peer(p) = s /\ \A r \in Sides : r = s \/ r = p
  BY PeerFacts
<1>1. /\ pc[s] = "wait" /\ events[s] > 0 /\ pc' = [pc EXCEPT ![s] = "rearm"]
      /\ events' = [events EXCEPT ![s] = @ - 1]
      /\ UNCHANGED <<use_event, up, sent, sock, qp, rq, wire, unacked, cq, armed>>
  BY DEF GetEvent, At, Goto
<1>2. "rearm" \in Loop /\ pc[s] \in Loop
  BY <1>1 DEF Loop
<1>3. /\ pc'[s] = "rearm" /\ pc'[p] = pc[p] /\ pc' \in [Sides -> Labels]
      /\ SyncOK'
      /\ \A r \in Sides : /\ pc'[r] \in Loop <=> pc[r] \in Loop
                          /\ pc'[r] \in Handshake <=> pc[r] \in Handshake
                          /\ Pulled(r)' <=> Pulled(r)
      /\ Pulled(s) /\ (Acting(p)' <=> Acting(p))
      /\ qp[s] \in {"RTS", "ERR"}
  BY <1>1, <1>2, LoopStep
<1>4. events[s] = 1 /\ events'[s] = 0 /\ events'[p] = events[p] /\ events' \in [Sides -> 0 .. 1]
  BY <1>1 DEF TypeOK
<1>5. /\ \A r : Heard(r)' <=> Heard(r)
      /\ \A r \in Sides : (Acting(r)' <=> Acting(r)) /\ (Holds(r)' <=> Holds(r))
  BY <1>1, <1>3 DEF Heard, Acting, Holds
<1>6. TypeOK'
  BY <1>1, <1>3, <1>4 DEF TypeOK
<1>7. QuietOK'
  BY <1>1, <1>3, <1>4, <1>5 DEF QuietOK, Sides
<1>8. ReceivesOK'
  BY <1>1, <1>3, <1>5 DEF ReceivesOK, Sides
<1>9. TurnOK'
  BY <1>1, <1>3, <1>5 DEF TurnOK, Sides
<1>10. EventsOK'
  BY <1>1, <1>3, <1>4 DEF EventsOK
<1>11. QED
  BY <1>3, <1>6, <1>7, <1>8, <1>9, <1>10

(* ibv_req_notify_cq. *)
LEMMA RearmIInv ==
  ASSUME IInv, NEW s \in Sides, Rearm(s)
  PROVE  IInv'
<1> USE DEF IInv
<1> PICK p \in Sides : p = Peer(s) /\ p # s /\ Peer(p) = s /\ \A r \in Sides : r = s \/ r = p
  BY PeerFacts
<1>1. /\ pc[s] = "rearm" /\ pc' = [pc EXCEPT ![s] = "poll"]
      /\ armed' = [armed EXCEPT ![s] = TRUE]
      /\ UNCHANGED <<use_event, up, sent, sock, qp, rq, wire, unacked, cq, events>>
  BY DEF Rearm, At, Goto
<1>2. "poll" \in Loop /\ pc[s] \in Loop
  BY <1>1 DEF Loop
<1>3. /\ pc'[s] = "poll" /\ pc'[p] = pc[p] /\ pc' \in [Sides -> Labels]
      /\ SyncOK'
      /\ \A r \in Sides : /\ pc'[r] \in Loop <=> pc[r] \in Loop
                          /\ pc'[r] \in Handshake <=> pc[r] \in Handshake
                          /\ Pulled(r)' <=> Pulled(r)
      /\ Pulled(s) /\ (Acting(p)' <=> Acting(p))
      /\ qp[s] \in {"RTS", "ERR"}
  BY <1>1, <1>2, LoopStep
<1>4. armed'[s] = TRUE /\ armed'[p] = armed[p] /\ armed' \in [Sides -> BOOLEAN]
  BY <1>1 DEF TypeOK
<1>5. /\ \A r : Heard(r)' <=> Heard(r)
      /\ \A r \in Sides : (Acting(r)' <=> Acting(r)) /\ (Holds(r)' <=> Holds(r))
  BY <1>1, <1>3 DEF Heard, Acting, Holds
<1>6. TypeOK'
  BY <1>1, <1>3, <1>4 DEF TypeOK
<1>7. QuietOK'
  BY <1>1, <1>3, <1>5 DEF QuietOK, Sides
<1>8. ReceivesOK'
  BY <1>1, <1>3, <1>5 DEF ReceivesOK, Sides
<1>9. TurnOK'
  BY <1>1, <1>3, <1>5 DEF TurnOK, Sides
<1>10. EventsOK'
  <2>1. events[s] = 0 /\ events[s] # 1
    BY <1>1 DEF EventsOK
  <2>2. QED
    BY <1>1, <1>3, <1>4, <2>1 DEF EventsOK
<1>11. QED
  BY <1>3, <1>6, <1>7, <1>8, <1>9, <1>10

(* poll_completion and the switch on the opcode. *)
LEMMA PollIInv ==
  ASSUME IInv, NEW s \in Sides, Poll(s)
  PROVE  IInv'
<1> USE DEF IInv
<1> PICK p \in Sides : p = Peer(s) /\ p # s /\ Peer(p) = s /\ \A r \in Sides : r = s \/ r = p
  BY PeerFacts
<1> PICK n \in {"repost", "wait", "poll"} :
      /\ n = (IF Head(cq[s]) \in Answered(s) THEN "repost" ELSE LoopTop)
      /\ Head(cq[s]) \in Answered(s) <=> n = "repost"
  BY DEF LoopTop
<1>1. /\ pc[s] = "poll" /\ cq[s] # << >> /\ pc' = [pc EXCEPT ![s] = n]
      /\ cq' = [cq EXCEPT ![s] = Tail(@)]
      /\ UNCHANGED <<use_event, up, sent, sock, qp, rq, wire, unacked, armed, events>>
  BY DEF Poll, At, Goto
<1>2. n \in Loop /\ pc[s] \in Loop
  BY <1>1 DEF Loop
<1>3. /\ pc'[s] = n /\ pc'[p] = pc[p] /\ pc' \in [Sides -> Labels]
      /\ SyncOK'
      /\ \A r \in Sides : /\ pc'[r] \in Loop <=> pc[r] \in Loop
                          /\ pc'[r] \in Handshake <=> pc[r] \in Handshake
                          /\ Pulled(r)' <=> Pulled(r)
      /\ Pulled(s) /\ (Acting(p)' <=> Acting(p))
      /\ qp[s] \in {"RTS", "ERR"}
  BY <1>1, <1>2, LoopStep
<1>4. /\ cq[s] \in Seq({"IMM", "RECV", "SEND", "RDMA_WRITE", "FAILED"})
      /\ Tail(cq[s]) \in Seq({"IMM", "RECV", "SEND", "RDMA_WRITE", "FAILED"})
      /\ cq'[s] = Tail(cq[s]) /\ cq'[p] = cq[p]
  BY <1>1, HeadTailProperties DEF TypeOK
<1>5. AtMostOne(cq[s], Answered(s))
  BY DEF TurnOK
<1>6. /\ Heard(s) <=> n = "repost" \/ Heard(s)'
      /\ n = "repost" => ~Heard(s)'
      /\ AtMostOne(cq'[s], Answered(s))
      /\ Heard(p)' <=> Heard(p)
  <2>1. /\ Some(cq[s], Answered(s)) <=> Head(cq[s]) \in Answered(s) \/ Some(Tail(cq[s]), Answered(s))
        /\ Head(cq[s]) \in Answered(s) => ~Some(Tail(cq[s]), Answered(s))
        /\ AtMostOne(Tail(cq[s]), Answered(s))
    BY <1>1, <1>4, <1>5, TailFacts
  <2>2. QED
    BY <2>1, <1>4 DEF Heard
<1>7. /\ ~Acting(s) /\ (Acting(s)' <=> n = "repost")
      /\ \A r \in Sides : Holds(r)' <=> Holds(r)
  BY <1>1, <1>3, <1>6 DEF Acting, Holds
<1>8. TypeOK'
  BY <1>1, <1>3, <1>4 DEF TypeOK
<1>9. QuietOK'
  BY <1>1, <1>3 DEF QuietOK, Sides
<1>10. ReceivesOK'
  BY <1>1, <1>3, <1>6 DEF ReceivesOK, Sides
<1>11. TurnOK'
  <2>1. /\ wire[s] # << >> => ~Heard(s)' /\ ~Acting(s)'
        /\ Heard(s)' => ~Acting(s)'
    BY <1>6, <1>7 DEF TurnOK
  <2>2. QED
    BY <1>1, <1>3, <1>4, <1>6, <1>7, <2>1 DEF TurnOK, Sides
<1>12. EventsOK'
  BY <1>1, <1>3 DEF EventsOK
<1>13. QED
  BY <1>3, <1>8, <1>9, <1>10, <1>11, <1>12

(* pull_ctrl after a message. *)
LEMMA RepostIInv ==
  ASSUME IInv, NEW s \in Sides, Repost(s)
  PROVE  IInv'
<1> USE DEF IInv
<1> PICK p \in Sides : p = Peer(s) /\ p # s /\ Peer(p) = s /\ \A r \in Sides : r = s \/ r = p
  BY PeerFacts
<1>1. /\ pc[s] = "repost" /\ pc' = [pc EXCEPT ![s] = "push"]
      /\ rq' = [rq EXCEPT ![s] = @ + 1]
      /\ UNCHANGED <<use_event, up, sent, sock, qp, wire, unacked, cq, armed, events>>
  BY DEF Repost, At, Goto
<1>2. "push" \in Loop /\ pc[s] \in Loop
  BY <1>1 DEF Loop
<1>3. /\ pc'[s] = "push" /\ pc'[p] = pc[p] /\ pc' \in [Sides -> Labels]
      /\ SyncOK'
      /\ \A r \in Sides : /\ pc'[r] \in Loop <=> pc[r] \in Loop
                          /\ pc'[r] \in Handshake <=> pc[r] \in Handshake
                          /\ Pulled(r)' <=> Pulled(r)
      /\ Pulled(s) /\ (Acting(p)' <=> Acting(p))
      /\ qp[s] \in {"RTS", "ERR"}
  BY <1>1, <1>2, LoopStep
<1>4. rq[s] = 0 /\ rq'[s] = 1 /\ rq'[p] = rq[p] /\ rq' \in [Sides -> 0 .. 1]
  <2>1. rq[s] = 0
    BY <1>1 DEF ReceivesOK
  <2>2. QED
    BY <1>1, <2>1 DEF TypeOK
<1>5. /\ \A r : Heard(r)' <=> Heard(r)
      /\ \A r \in Sides : (Acting(r)' <=> Acting(r)) /\ (Holds(r)' <=> Holds(r))
  BY <1>1, <1>3 DEF Heard, Acting, Holds
<1>6. ~Heard(s)
  BY <1>1 DEF TurnOK, Acting
<1>7. TypeOK'
  BY <1>1, <1>3, <1>4 DEF TypeOK
<1>8. QuietOK'
  BY <1>1, <1>3, <1>5 DEF QuietOK, Sides
<1>9. ReceivesOK'
  BY <1>1, <1>3, <1>4, <1>5, <1>6 DEF ReceivesOK, Sides
<1>10. TurnOK'
  BY <1>1, <1>3, <1>5 DEF TurnOK, Sides
<1>11. EventsOK'
  BY <1>1, <1>3 DEF EventsOK
<1>12. QED
  BY <1>3, <1>7, <1>8, <1>9, <1>10, <1>11

(* push_data and push_ctrl. *)
LEMMA PostSendIInv ==
  ASSUME IInv, NEW s \in Sides, PostSend(s, Msg(Peer(s)))
  PROVE  IInv'
<1> USE DEF IInv
<1> PICK p \in Sides : p = Peer(s) /\ p # s /\ Peer(p) = s /\ \A r \in Sides : r = s \/ r = p
  BY PeerFacts
<1> PICK n \in {"wait", "poll"} : n = LoopTop
  BY DEF LoopTop
<1>1. /\ up[s] /\ pc[s] = "push" /\ pc' = [pc EXCEPT ![s] = n]
      /\ wire' = [wire EXCEPT ![p] = Append(@, Msg(p))]
      /\ UNCHANGED <<use_event, up, sent, sock, qp, rq, unacked, cq, armed, events>>
  BY DEF PostSend, At, Goto
<1>2. n \in Loop /\ pc[s] \in Loop
  BY <1>1 DEF Loop
<1>3. /\ pc'[s] = n /\ pc'[p] = pc[p] /\ pc' \in [Sides -> Labels]
      /\ SyncOK'
      /\ \A r \in Sides : /\ pc'[r] \in Loop <=> pc[r] \in Loop
                          /\ pc'[r] \in Handshake <=> pc[r] \in Handshake
                          /\ Pulled(r)' <=> Pulled(r)
      /\ Pulled(s) /\ (Acting(p)' <=> Acting(p))
      /\ qp[s] \in {"RTS", "ERR"}
  BY <1>1, <1>2, LoopStep
<1>4. /\ Acting(s) /\ Holds(s) /\ ~Holds(p) /\ ~Heard(s) /\ wire[s] = << >>
      /\ wire[p] = << >> /\ ~Heard(p) /\ ~Acting(p)
  <2>1. Acting(s) /\ Holds(s)
    BY <1>1 DEF Acting, Holds
  <2>2. ~Holds(p) /\ ~Heard(s) /\ wire[s] = << >>
    BY <2>1 DEF TurnOK
  <2>3. QED
    BY <2>1, <2>2 DEF Holds
<1>5. wire'[s] = << >> /\ wire'[p] = <<Msg(p)>> /\ <<Msg(p)>> # << >>
  <2>1. Append(<< >>, Msg(p)) = <<Msg(p)>> /\ <<Msg(p)>> # << >>
    OBVIOUS
  <2>2. QED
    BY <1>1, <1>4, <2>1 DEF TypeOK
<1>6. TypeOK'
  <2>1. <<Msg(p)>> \in Seq({"IMM", "RECV"})
    BY AnswerFacts
  <2>2. wire' \in [Sides -> Seq({"IMM", "RECV"})]
    BY <1>1, <1>4, <1>5, <2>1 DEF TypeOK
  <2>3. QED
    BY <1>1, <1>3, <2>2 DEF TypeOK
<1>7. /\ \A r : Heard(r)' <=> Heard(r)
      /\ ~Acting(s)' /\ ~Holds(s)' /\ Holds(p)'
  BY <1>1, <1>3, <1>4, <1>5 DEF Heard, Acting, Holds
<1>8. QuietOK'
  <2>1. pc["client"] \notin Handshake
    BY <1>1 DEF QuietOK
  <2>2. QED
    BY <2>1, <1>3 DEF QuietOK, Sides
<1>9. ReceivesOK'
  <2>1. qp[p] # "ERR"
    BY <1>1 DEF ReceivesOK
  <2>2. QED
    BY <2>1, <1>1, <1>3, <1>4, <1>5, <1>7 DEF ReceivesOK, Sides
<1>10. TurnOK'
  BY <1>1, <1>3, <1>4, <1>5, <1>7 DEF TurnOK
<1>11. EventsOK'
  BY <1>1, <1>3 DEF EventsOK
<1>12. QED
  BY <1>3, <1>6, <1>8, <1>9, <1>10, <1>11

-----------------------------------------------------------------------------
(* The adapters, the network and the end of a process. *)

(* A completion enters s's queue once the client is in its loop. *)
LEMMA CompleteFacts ==
  ASSUME IInv, NEW s \in Sides, pc["client"] \in Loop,
         NEW wc \in {"IMM", "RECV", "SEND", "RDMA_WRITE", "FAILED"},
         Complete(s, wc), pc' = pc
  PROVE  /\ cq' \in [Sides -> Seq({"IMM", "RECV", "SEND", "RDMA_WRITE", "FAILED"})]
         /\ armed' \in [Sides -> BOOLEAN] /\ events' \in [Sides -> 0 .. 1]
         /\ Heard(s)' <=> Heard(s) \/ wc \in Answered(s)
         /\ Heard(Peer(s))' <=> Heard(Peer(s))
         /\ (wc \in Answered(s) => ~Heard(s)) => AtMostOne(cq'[s], Answered(s))
         /\ AtMostOne(cq'[Peer(s)], Answered(Peer(s)))
         /\ \A r \in Sides : (Acting(r)' <=> Acting(r)) /\ (Pulled(r)' <=> Pulled(r))
         /\ Pulled(s)
         /\ QuietOK' /\ EventsOK'
<1> USE DEF IInv
<1> PICK p \in Sides : p = Peer(s) /\ p # s /\ Peer(p) = s /\ \A r \in Sides : r = s \/ r = p
  BY PeerFacts
<1> DEFINE Q == {"IMM", "RECV", "SEND", "RDMA_WRITE", "FAILED"}
<1>1. cq[s] \in Seq(Q) /\ Append(cq[s], wc) \in Seq(Q) /\ wc \in Q
  BY AppendProperties DEF TypeOK
<1>2. cq'[s] = Append(cq[s], wc) /\ cq'[p] = cq[p] /\ cq' \in [Sides -> Seq(Q)]
  BY <1>1 DEF Complete, TypeOK
<1>3. /\ armed' \in [Sides -> BOOLEAN] /\ armed'[s] = FALSE /\ armed'[p] = armed[p]
      /\ events'[p] = events[p]
      /\ (armed[s] /\ events'[s] = events[s] + 1) \/ (~armed[s] /\ events'[s] = events[s])
  BY DEF Complete, TypeOK
<1>4. events'[s] \in 0 .. 1 /\ (~armed[s] => events'[s] = events[s])
  <2>1. events[s] \in 0 .. 1 /\ armed[s] \in BOOLEAN
    BY DEF TypeOK
  <2>2. armed[s] => events[s] = 0
    BY <2>1 DEF EventsOK
  <2>3. QED
    BY <1>3, <2>1, <2>2
<1>5. events' \in [Sides -> 0 .. 1]
  <2>1. events' = [events EXCEPT ![s] = events'[s]]
    BY DEF Complete, TypeOK
  <2>2. QED
    BY <2>1, <1>4 DEF TypeOK
<1>6. /\ Heard(s)' <=> Heard(s) \/ wc \in Answered(s)
      /\ Heard(p)' <=> Heard(p)
      /\ (wc \in Answered(s) => ~Heard(s)) => AtMostOne(cq'[s], Answered(s))
      /\ AtMostOne(cq'[p], Answered(p))
  <2>1. /\ Some(Append(cq[s], wc), Answered(s)) <=> Some(cq[s], Answered(s)) \/ wc \in Answered(s)
        /\ AtMostOne(cq[s], Answered(s)) /\ (wc \in Answered(s) => ~Some(cq[s], Answered(s)))
             => AtMostOne(Append(cq[s], wc), Answered(s))
    BY <1>1, AppendFacts
  <2>2. AtMostOne(cq[s], Answered(s)) /\ AtMostOne(cq[p], Answered(p))
    BY DEF TurnOK
  <2>3. QED
    BY <1>2, <2>1, <2>2 DEF Heard
<1>7. /\ \A r \in Sides : (Acting(r)' <=> Acting(r)) /\ (Pulled(r)' <=> Pulled(r))
  BY DEF Acting, Pulled
<1>8. Pulled(s)
  <2>1. CASE s = "client"
    BY <2>1 DEF Pulled
  <2>2. CASE s = "server"
    BY <2>2, ServerPulled
  <2>3. QED
    BY <2>1, <2>2 DEF Sides
<1>9. QuietOK'
  BY DEF QuietOK, Handshake, Loop
<1>10. EventsOK'
  BY <1>3, <1>4, <1>8 DEF EventsOK, Pulled, Loop
<1>11. QED
  BY <1>2, <1>3, <1>5, <1>6, <1>7, <1>8, <1>9, <1>10

(* While something is on the way, not acknowledged or failed, the client   *)
(* is in its loop.                                                         *)
LEMMA ClientInLoop ==
  ASSUME IInv, NEW s \in Sides, wire[s] # << >> \/ unacked[s] > 0 \/ qp[s] = "ERR"
  PROVE  pc["client"] \in Loop
<1>1. pc["client"] \in Handshake \cup Loop
  BY LabelFacts DEF IInv, TypeOK, Sides
<1>2. CASE qp[s] = "ERR"
  BY <1>2 DEF IInv, ReceivesOK
<1>3. CASE wire[s] # << >> \/ unacked[s] > 0
  BY <1>1, <1>3 DEF IInv, QuietOK
<1>4. QED
  BY <1>2, <1>3

(* The only message on a wire. *)
LEMMA OnWire ==
  ASSUME IInv, NEW s \in Sides, wire[s] # << >>
  PROVE  wire[s] = <<Msg(s)>> /\ Head(wire[s]) = Msg(s) /\ Tail(wire[s]) = << >>
<1>1. wire[s] = <<Msg(s)>>
  BY DEF IInv, TurnOK
<1>2. Head(<<Msg(s)>>) = Msg(s) /\ Tail(<<Msg(s)>>) = << >>
  OBVIOUS
<1>3. QED
  BY <1>1, <1>2

(* A message arrives. *)
LEMMA DeliverIInv ==
  ASSUME IInv, NEW s \in Sides, Deliver(s)
  PROVE  IInv'
<1> USE DEF IInv
<1> PICK p \in Sides : p = Peer(s) /\ p # s /\ Peer(p) = s /\ \A r \in Sides : r = s \/ r = p
  BY PeerFacts
<1>1. /\ wire[s] # << >> /\ rq[s] > 0 /\ qp[s] # "ERR"
      /\ wire' = [wire EXCEPT ![s] = << >>]
      /\ rq' = [rq EXCEPT ![s] = @ - 1]
      /\ Complete(s, Msg(s))
      /\ UNCHANGED <<use_event, up, pc, sent, sock, qp>>
  BY OnWire DEF Deliver
<1>2. unacked' \in [Sides -> 0 .. MaxUnacked]
  BY UnackedAssumption DEF Deliver, TypeOK
<1>3. /\ cq' \in [Sides -> Seq({"IMM", "RECV", "SEND", "RDMA_WRITE", "FAILED"})]
      /\ armed' \in [Sides -> BOOLEAN] /\ events' \in [Sides -> 0 .. 1]
      /\ Heard(s)'
      /\ Heard(p)' <=> Heard(p)
      /\ ~Heard(s) => AtMostOne(cq'[s], Answered(s))
      /\ AtMostOne(cq'[p], Answered(p))
      /\ \A r \in Sides : (Acting(r)' <=> Acting(r)) /\ (Pulled(r)' <=> Pulled(r))
      /\ Pulled(s)
      /\ QuietOK' /\ EventsOK'
  BY <1>1, CompleteFacts, ClientInLoop, AnswerFacts
<1>4. wire'[s] = << >> /\ wire'[p] = wire[p]
  BY <1>1 DEF TypeOK
<1>5. rq[s] = 1 /\ rq'[s] = 0 /\ rq'[p] = rq[p] /\ rq' \in [Sides -> 0 .. 1]
  BY <1>1 DEF TypeOK
<1>6. ~Heard(s) /\ ~Acting(s) /\ Holds(s)
  BY <1>1 DEF TurnOK, Holds
<1>7. \A r \in Sides : Holds(r)' <=> Holds(r)
  BY <1>3, <1>4, <1>6 DEF Holds
<1>8. TypeOK'
  <2>1. wire' \in [Sides -> Seq({"IMM", "RECV"})]
    BY <1>1 DEF TypeOK
  <2>2. QED
    BY <1>1, <1>2, <1>3, <1>5, <2>1 DEF TypeOK
<1>9. SyncOK'
  BY <1>1, SyncFrame
<1>10. ReceivesOK'
  BY <1>1, <1>3, <1>4, <1>5 DEF ReceivesOK
<1>11. TurnOK'
  BY <1>1, <1>3, <1>4, <1>6, <1>7 DEF TurnOK
<1>12. QED
  BY <1>3, <1>8, <1>9, <1>10, <1>11

(* A completion of s's own: nothing is heard by it. *)
LEMMA OwnCompletion ==
  ASSUME IInv, NEW s \in Sides, pc["client"] \in Loop,
         NEW wc \in {"SEND", "RDMA_WRITE", "FAILED"},
         Complete(s, wc), UNCHANGED <<use_event, up, pc, sent, sock>>,
         unacked' \in [Sides -> 0 .. MaxUnacked],
         wire' \in [Sides -> Seq({"IMM", "RECV"})],
         \A r \in Sides : wire'[r] \in {<< >>, wire[r]},
         rq' \in [Sides -> 0 .. 1], \A r \in Sides : rq'[r] \in {0, rq[r]},
         qp' \in [Sides -> {"none", "RESET", "INIT", "RTR", "RTS", "ERR"}],
         \A r \in Sides : /\ qp'[r] = qp[r] \/ (r = s /\ qp'[r] = "ERR")
                          /\ qp'[r] = "ERR" => ~up[Peer(r)] /\ wire'[r] = << >>
                          /\ rq'[r] = rq[r] \/ qp'[r] = "ERR",
         (\A r \in Sides : up[r]) => wire' = wire
  PROVE  IInv'
<1> USE DEF IInv
<1> PICK p \in Sides : p = Peer(s) /\ p # s /\ Peer(p) = s /\ \A r \in Sides : r = s \/ r = p
  BY PeerFacts
<1>1. wc \notin Answered(s) /\ wc \in {"IMM", "RECV", "SEND", "RDMA_WRITE", "FAILED"}
  BY AnswerFacts
<1>2. /\ cq' \in [Sides -> Seq({"IMM", "RECV", "SEND", "RDMA_WRITE", "FAILED"})]
      /\ armed' \in [Sides -> BOOLEAN] /\ events' \in [Sides -> 0 .. 1]
      /\ Heard(s)' <=> Heard(s)
      /\ Heard(p)' <=> Heard(p)
      /\ AtMostOne(cq'[s], Answered(s))
      /\ AtMostOne(cq'[p], Answered(p))
      /\ \A r \in Sides : (Acting(r)' <=> Acting(r)) /\ (Pulled(r)' <=> Pulled(r))
      /\ Pulled(s)
      /\ QuietOK' /\ EventsOK'
  BY <1>1, CompleteFacts
<1>3. /\ \A r \in Sides : Holds(r)' => Holds(r)
      /\ (\A r \in Sides : up[r]) => \A r \in Sides : Holds(r)' <=> Holds(r)
  BY <1>2, ZenonT(30) DEF Holds
<1>4. TypeOK'
  BY <1>2 DEF TypeOK
<1>5. SyncOK'
  BY SyncFrame
<1>6. ReceivesOK'
  <2> SUFFICES ASSUME NEW r \in Sides
               PROVE  /\ pc[r] \in {"sync_Q", "sync_before", "pull"} \/ Pulled(r) => qp'[r] \in {"RTS", "ERR"}
                      /\ rq'[r] # 0 => Pulled(r) /\ ~Heard(r) /\ pc[r] # "repost"
                      /\ Heard(r) => Pulled(r)
                      /\ Pulled(r) /\ qp'[r] # "ERR" => rq'[r] = 1 \/ Heard(r) \/ pc[r] = "repost"
    BY <1>2, ZenonT(30) DEF ReceivesOK
  <2>1. QED
    BY DEF ReceivesOK
<1>7. TurnOK'
  <2>1. ASSUME NEW r \in Sides
        PROVE  /\ wire'[r] \in {<< >>, <<Msg(r)>>}
               /\ wire'[r] # << >> => ~Heard(r) /\ ~Acting(r)
               /\ Heard(r) => ~Acting(r)
               /\ Holds(r)' => ~Holds(Peer(r))'
    BY <1>3 DEF TurnOK
  <2>2. pc["client"] \in Loop /\ (\A r \in Sides : up[r]) => \E r \in Sides : Holds(r)'
    BY <1>3 DEF TurnOK
  <2>3. QED
    BY <1>2, <2>1, <2>2 DEF TurnOK
<1>8. QED
  BY <1>2, <1>4, <1>5, <1>6, <1>7

(* An acknowledgement arrives. *)
LEMMA AckIInv ==
  ASSUME IInv, NEW s \in Sides, Ack(s)
  PROVE  IInv'
<1>1. PICK wc \in {"SEND", "RDMA_WRITE"} : Complete(s, wc)
  BY DEF Ack
<1>2. /\ unacked' \in [Sides -> 0 .. MaxUnacked] /\ unacked[s] > 0
      /\ UNCHANGED <<use_event, up, pc, sent, sock, qp, rq, wire>>
  BY UnackedAssumption DEF Ack, IInv, TypeOK
<1>3. pc["client"] \in Loop
  BY <1>2, ClientInLoop
<1>4. \A r \in Sides : qp[r] = "ERR" => ~up[Peer(r)] /\ wire[r] = << >>
  BY DEF IInv, ReceivesOK
<1>5. /\ wire \in [Sides -> Seq({"IMM", "RECV"})] /\ rq \in [Sides -> 0 .. 1]
      /\ qp \in [Sides -> {"none", "RESET", "INIT", "RTR", "RTS", "ERR"}]
  BY DEF IInv, TypeOK
<1>6. QED
  BY <1>1, <1>2, <1>3, <1>4, <1>5, OwnCompletion

(* The retries are exhausted. *)
LEMMA FailIInv ==
  ASSUME IInv, NEW s \in Sides, Fail(s)
  PROVE  IInv'
<1> PICK p \in Sides : p = Peer(s) /\ p # s /\ Peer(p) = s /\ \A r \in Sides : r = s \/ r = p
  BY PeerFacts
<1>1. /\ up[s] /\ ~up[p] /\ Complete(s, "FAILED")
      /\ qp' = [qp EXCEPT ![s] = "ERR"]
      /\ UNCHANGED <<use_event, up, pc, sent, sock, rq>>
  BY DEF Fail
<1>2. /\ wire \in [Sides -> Seq({"IMM", "RECV"})] /\ rq \in [Sides -> 0 .. 1]
      /\ qp \in [Sides -> {"none", "RESET", "INIT", "RTR", "RTS", "ERR"}]
      /\ unacked \in [Sides -> 0 .. MaxUnacked]
  BY DEF IInv, TypeOK
<1>3. /\ pc["client"] \in Loop
      /\ unacked' \in [Sides -> 0 .. MaxUnacked]
      /\ wire' \in [Sides -> Seq({"IMM", "RECV"})]
      /\ wire'[s] = << >> /\ wire'[p] \in {<< >>, wire[p]}
  <2>1. CASE unacked[s] > 0 /\ unacked' = [unacked EXCEPT ![s] = @ - 1]
             /\ wire' = [wire EXCEPT ![s] = << >>]
    BY <2>1, <1>2, ClientInLoop, UnackedAssumption
  <2>2. CASE /\ unacked[s] = 0 /\ wire[p] # << >>
             /\ wire' = [wire EXCEPT ![s] = << >>, ![p] = Tail(@)]
             /\ UNCHANGED unacked
    <3>1. Tail(wire[p]) = << >>
      BY <2>2, OnWire
    <3>2. /\ wire' \in [Sides -> Seq({"IMM", "RECV"})]
          /\ wire'[s] = << >> /\ wire'[p] = << >>
      <4> DEFINE m == [wire EXCEPT ![s] = << >>]
      <4>1. m \in [Sides -> Seq({"IMM", "RECV"})] /\ m[s] = << >> /\ m[p] = wire[p]
        BY <1>2
      <4>2. wire' = [m EXCEPT ![p] = Tail(m[p])]
        BY <2>2
      <4>3. wire' = [m EXCEPT ![p] = << >>]
        BY <3>1, <4>1, <4>2
      <4> HIDE DEF m
      <4>4. QED
        BY <4>1, <4>3
    <3>3. QED
      BY <2>2, <3>2, <1>2, ClientInLoop
  <2>3. QED
    BY <2>1, <2>2 DEF Fail
<1>4. /\ qp' \in [Sides -> {"none", "RESET", "INIT", "RTR", "RTS", "ERR"}]
      /\ qp'[s] = "ERR" /\ qp'[p] = qp[p]
  BY <1>1, <1>2
<1>5. qp[p] # "ERR"
  BY <1>1 DEF IInv, ReceivesOK
<1>6. /\ \A r \in Sides : wire'[r] \in {<< >>, wire[r]}
      /\ \A r \in Sides : /\ qp'[r] = qp[r] \/ (r = s /\ qp'[r] = "ERR")
                          /\ qp'[r] = "ERR" => ~up[Peer(r)] /\ wire'[r] = << >>
  BY <1>1, <1>3, <1>4, <1>5
<1>7. QED
  BY <1>1, <1>2, <1>3, <1>4, <1>6, OwnCompletion

(* A receive is given back. *)
LEMMA FlushIInv ==
  ASSUME IInv, NEW s \in Sides, Flush(s)
  PROVE  IInv'
<1> PICK p \in Sides : p = Peer(s) /\ p # s /\ Peer(p) = s /\ \A r \in Sides : r = s \/ r = p
  BY PeerFacts
<1>1. /\ qp[s] = "ERR" /\ rq[s] > 0 /\ rq' = [rq EXCEPT ![s] = @ - 1]
      /\ Complete(s, "FAILED")
      /\ UNCHANGED <<use_event, up, pc, sent, sock, qp, wire, unacked>>
  BY DEF Flush
<1>2. /\ wire \in [Sides -> Seq({"IMM", "RECV"})] /\ rq \in [Sides -> 0 .. 1]
      /\ qp \in [Sides -> {"none", "RESET", "INIT", "RTR", "RTS", "ERR"}]
      /\ unacked \in [Sides -> 0 .. MaxUnacked]
  BY DEF IInv, TypeOK
<1>3. rq' \in [Sides -> 0 .. 1] /\ rq'[s] = 0 /\ rq'[p] = rq[p]
  BY <1>1, <1>2
<1>4. pc["client"] \in Loop
  BY <1>1, ClientInLoop
<1>5. \A r \in Sides : qp[r] = "ERR" => ~up[Peer(r)] /\ wire[r] = << >>
  BY DEF IInv, ReceivesOK
<1>6. \A r \in Sides : rq'[r] \in {0, rq[r]} /\ (rq'[r] = rq[r] \/ qp[r] = "ERR")
  BY <1>1, <1>3
<1>7. QED
  BY <1>1, <1>2, <1>3, <1>4, <1>5, <1>6, OwnCompletion

(* A side is killed. *)
LEMMA DieIInv ==
  ASSUME IInv, NEW s \in Sides, Die(s)
  PROVE  IInv'
<1> PICK p \in Sides : p = Peer(s) /\ p # s /\ Peer(p) = s /\ \A r \in Sides : r = s \/ r = p
  BY PeerFacts
<1>1. PICK n \in 0 .. Len(wire[p]) : wire' = [wire EXCEPT ![p] = SubSeq(@, 1, n)]
  BY DEF Die
<1>2. wire \in [Sides -> Seq({"IMM", "RECV"})] /\ wire[p] \in {<< >>, <<Msg(p)>>}
  BY DEF IInv, TypeOK, TurnOK
<1>3. SubSeq(wire[p], 1, n) \in {<< >>, wire[p]}
  <2>1. CASE wire[p] = << >>
    BY <2>1
  <2>2. CASE wire[p] = <<Msg(p)>>
    <3>1. Len(<<Msg(p)>>) = 1
      OBVIOUS
    <3>2. CASE n = 0
      BY <3>2, <1>2
    <3>3. CASE n = 1
      BY <2>2, <3>1, <3>3, <1>2, SubSeqFull
    <3>4. QED
      BY <2>2, <3>1, <3>2, <3>3
  <2>3. QED
    BY <1>2, <2>1, <2>2
<1>4. /\ wire' \in [Sides -> Seq({"IMM", "RECV"})]
      /\ \A r \in Sides : wire'[r] \in {<< >>, wire[r]}
  BY <1>1, <1>2, <1>3
<1>5. QED
  BY <1>4, EndIInv DEF Die

-----------------------------------------------------------------------------
(* The theorems. *)

(* Every step preserves the inductive invariant. *)
LEMMA NextIInv == IInv /\ [Next]_vars => IInv'
<1> SUFFICES ASSUME IInv, [Next]_vars PROVE IInv'
  OBVIOUS
<1>1. CASE UNCHANGED vars
  <2>1. UNCHANGED <<use_event, up, pc, sent, sock, qp, rq, wire, unacked, cq, armed, events>>
    BY <1>1 DEF vars, verbs
  <2>2. \A r : /\ Heard(r)' <=> Heard(r)
               /\ Acting(r)' <=> Acting(r)
               /\ Pulled(r)' <=> Pulled(r)
               /\ Holds(r)' <=> Holds(r)
    BY <2>1 DEF Heard, Acting, Pulled, Holds
  <2>3. SyncOK'
    BY <2>1, SyncFrame DEF IInv
  <2>4. QED
    BY <2>1, <2>2, <2>3
    DEF IInv, TypeOK, QuietOK, ReceivesOK, TurnOK, EventsOK
<1>2. ASSUME NEW s \in Sides, Thread(s)
      PROVE  IInv'
  <2>1. PushData(s) => PostSend(s, Msg(Peer(s)))
    BY PeerFacts DEF PushData, Msg
  <2>2. PushCtrl(s) => PostSend(s, Msg(Peer(s)))
    BY PeerFacts DEF PushCtrl, Msg
  <2>3. QED
    BY <1>2, <2>1, <2>2, SyncSendIInv, SyncRecvIInv, ResourcesCreateIInv, ModifyQPIInv,
       PullCtrlIInv, GetEventIInv, RearmIInv, PollIInv, RepostIInv, PostSendIInv
    DEF Thread
<1>3. QED
  BY <1>1, <1>2, DeliverIInv, AckIInv, FailIInv, FlushIInv, DieIInv DEF Next

(* The inductive invariant is an invariant. *)
LEMMA Invariance == Spec => []IInv
  BY InitIInv, NextIInv, PTL DEF Spec

(* Both sides' variables keep their types, with at most one receive posted *)
(* and one event outstanding, for any number of late acknowledgements.     *)
THEOREM TypeCorrect == Spec => []TypeOK
<1>1. IInv => TypeOK
  BY DEF IInv
<1>2. QED
  BY <1>1, Invariance, PTL

(* sock_sync_data reads what the peer wrote at the same point, and no side *)
(* is past a synchronisation its peer has not come to.                     *)
THEOREM Synchronised == Spec => []SyncsMatch
<1>1. IInv => SyncsMatch
  <2> SUFFICES ASSUME IInv, NEW s \in Sides
               PROVE  /\ pc[s] \in SyncPoints /\ sent[s] /\ sock[s] # << >> => Head(sock[s]) = pc[s]
                      /\ \A k \in DOMAIN Program :
                           Program[k] \in SyncPoints /\ k < Pos(s) =>
                             k < Pos(Peer(s)) \/ (k = Pos(Peer(s)) /\ sent[Peer(s)])
    BY DEF SyncsMatch
  <2> USE DEF IInv
  <2> PICK p \in Sides : p = Peer(s) /\ p # s
    BY PeerFacts
  <2>1. ASSUME pc[s] \in SyncPoints, sock[s] # << >>
        PROVE  Head(sock[s]) = pc[s]
    <3>1. sock[s] \in Seq(SyncPoints) /\ Len(sock[s]) \in Nat /\ Len(sock[s]) > 0
      BY <2>1, SyncTypes, EmptySeq
    <3>2. Head(sock[s]) = sock[s][1] /\ 1 \in 1 .. Len(sock[s])
      BY <3>1
    <3>3. sock[s][1] = SyncSeq[Done(s) + 1]
      BY <3>2 DEF SyncOK
    <3>4. QED
      BY <2>1, <3>2, <3>3, SyncCounts DEF Done
  <2>2. ASSUME NEW k \in 1 .. 10, Program[k] \in SyncPoints, k < Pos(s)
        PROVE  k < Pos(p) \/ (k = Pos(p) /\ sent[p])
    <3> DEFINE n == Finished(Program[k])
    <3>1. /\ Program[1] = "greet" /\ Program[2] = "create" /\ Program[3] = "exchange"
          /\ Program[4] = "to_init" /\ Program[5] = "to_rtr" /\ Program[6] = "to_rts"
          /\ Program[7] = "sync_Q" /\ Program[8] = "sync_before" /\ Program[9] = "pull"
          /\ Program[10] = "sync_after"
      BY DEF Program
    <3>2. \A r \in Sides : \/ \E i \in 1 .. 10 : pc[r] = Program[i] /\ Pos(r) = i
                           \/ pc[r] \in Loop /\ Pos(r) = 11
      <4> TAKE r \in Sides
      <4>1. pc[r] \in Labels
        BY DEF TypeOK
      <4>2. pc[r] \in Loop \/ \E i \in 1 .. 10 : pc[r] = Program[i]
        BY <4>1, LabelFacts DEF Elems
      <4>3. QED
        BY <4>1, <4>2, PosFacts
    <3>3. \A i \in 1 .. 10 :
            /\ k < i => Finished(Program[i]) >= n + 1
            /\ Finished(Program[i]) >= n + 1 => k < i
            /\ Finished(Program[i]) = n /\ Program[i] \in SyncPoints => i = k
      BY <2>2, <3>1 DEF Finished, SyncPoints
    <3>4. n \in 0 .. 4 /\ \A l \in Loop : Finished(l) = 5
      BY <2>2, SyncCounts
    <3> HIDE DEF n
    <3>5. Done(s) >= n + 1
      BY <2>2, <3>2, <3>3, <3>4 DEF Done
    <3>6. Done(s) <= Written(p) /\ (sent[p] => pc[p] \in SyncPoints)
      BY DEF SyncOK
    <3>7. Done(s) \in 0 .. 5 /\ Done(p) \in 0 .. 5
          /\ ((sent[p] /\ Written(p) = Done(p) + 1) \/ (~sent[p] /\ Written(p) = Done(p)))
      BY SyncTypes
    <3>8. CASE Done(p) >= n + 1
      BY <3>8, <3>2, <3>3, <2>2 DEF Done
    <3>9. CASE Done(p) = n /\ sent[p]
      <4>1. pc[p] \notin Loop
        BY <3>9, <3>4 DEF Done
      <4>2. QED
        BY <4>1, <3>9, <3>2, <3>3, <3>6 DEF Done
    <3>10. QED
      BY <3>4, <3>5, <3>6, <3>7, <3>8, <3>9
  <2>3. QED
    BY <2>1, <2>2, LabelFacts
<1>2. QED
  BY <1>1, Invariance, PTL

(* A message under way has a ready queue pair and a receive waiting for    *)
(* it: the receiver-not-ready flow is never entered.                       *)
THEOREM ReceivesPosted == Spec => []NoRNR
<1>1. IInv => NoRNR
  <2> SUFFICES ASSUME IInv, NEW s \in Sides, wire[s] # << >>
               PROVE  qp[s] \in {"RTR", "RTS"} /\ rq[s] >= Len(wire[s])
    BY DEF NoRNR
  <2> USE DEF IInv
  <2>1. pc["client"] \in Loop
    BY ClientInLoop
  <2>2. Pulled(s)
    <3>1. CASE s = "client"
      BY <2>1, <3>1 DEF Pulled
    <3>2. CASE s = "server"
      BY <2>1, <3>2, ServerPulled
    <3>3. QED
      BY <3>1, <3>2 DEF Sides
  <2>3. ~Heard(s) /\ pc[s] # "repost"
    BY DEF TurnOK, Acting
  <2>4. qp[s] = "RTS" /\ rq[s] = 1
    BY <2>2, <2>3 DEF ReceivesOK
  <2>5. Len(wire[s]) = 1
    <3>1. Len(<<Msg(s)>>) = 1
      OBVIOUS
    <3>2. QED
      BY <3>1, OnWire
  <2>6. QED
    BY <2>4, <2>5
<1>2. QED
  BY <1>1, Invariance, PTL

(* Data and credit alternate: one turn, never two, and none only after the *)
(* end of a process.                                                       *)
THEOREM Alternation == Spec => []OneTurn
<1>1. IInv => OneTurn
  <2> SUFFICES ASSUME IInv, pc["client"] \in Loop
               PROVE  \/ Turns("client") + Turns("server") = 1
                      \/ Turns("client") + Turns("server") = 0 /\ \E s \in Sides : ~up[s]
    BY DEF OneTurn, Loop
  <2> USE DEF IInv
  <2>1. ASSUME NEW s \in Sides
        PROVE  /\ Holds(s) => Turns(s) = 1
               /\ ~Holds(s) => Turns(s) = 0
    <3>1. /\ wire[s] # << >> => Len(wire[s]) = 1
          /\ wire[s] = << >> => Len(wire[s]) = 0
      <4>1. Len(<<Msg(s)>>) = 1 /\ Len(<< >>) = 0
        OBVIOUS
      <4>2. QED
        BY <4>1, OnWire
    <3>2. /\ Heard(s) => Cardinality(Received(s)) = 1
          /\ ~Heard(s) => Cardinality(Received(s)) = 0
      <4>1. DOMAIN cq[s] = 1 .. Len(cq[s])
        BY DEF TypeOK
      <4>2. CASE Heard(s)
        <5>1. PICK k \in 1 .. Len(cq[s]) : cq[s][k] \in Answered(s)
          BY <4>2 DEF Heard, Some
        <5>2. AtMostOne(cq[s], Answered(s))
          BY DEF TurnOK
        <5>3. Received(s) = {k}
          BY <4>1, <5>1, <5>2 DEF Received, AtMostOne
        <5>4. QED
          BY <4>2, <5>3, FS_Singleton
      <4>3. CASE ~Heard(s)
        <5>1. Received(s) = {}
          BY <4>1, <4>3 DEF Received, Heard, Some
        <5>2. QED
          BY <4>3, <5>1, FS_EmptySet
      <4>4. QED
        BY <4>2, <4>3
    <3>3. LET L == {l \in {"repost", "push"} : pc[s] = l}
          IN  /\ Acting(s) => Cardinality(L) = 1
              /\ ~Acting(s) => Cardinality(L) = 0
      <4> DEFINE L == {l \in {"repost", "push"} : pc[s] = l}
      <4>1. Acting(s) => L = {pc[s]}
        BY DEF Acting
      <4>2. ~Acting(s) => L = {}
        BY DEF Acting
      <4>3. QED
        BY <4>1, <4>2, FS_Singleton, FS_EmptySet
    <3>4. /\ wire[s] # << >> => ~Heard(s) /\ ~Acting(s)
          /\ Heard(s) => ~Acting(s)
      BY DEF TurnOK
    <3>5. PICK a, b, c : /\ Turns(s) = a + b + c
                         /\ (wire[s] # << >> /\ a = 1) \/ (wire[s] = << >> /\ a = 0)
                         /\ (Heard(s) /\ b = 1) \/ (~Heard(s) /\ b = 0)
                         /\ (Acting(s) /\ c = 1) \/ (~Acting(s) /\ c = 0)
      BY <3>1, <3>2, <3>3 DEF Turns
    <3>6. QED
      BY <3>4, <3>5 DEF Holds
  <2>2. /\ Holds("client") => ~Holds("server")
        /\ (\A s \in Sides : up[s]) => Holds("client") \/ Holds("server")
    BY PeerFacts DEF TurnOK, Sides
  <2>3. QED
    BY <2>1, <2>2 DEF Sides
<1>2. QED
  BY <1>1, Invariance, PTL

=============================================================================
