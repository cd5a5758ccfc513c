----------------------- MODULE NewRdmaSession_proofs -----------------------
(***************************************************************************)
(* Proofs, for any number of clients of which any may be killed, that the  *)
(* two ends of a connection of new_rdma read what they expect, that every  *)
(* message finds its receive posted, that completions never pile up, and   *)
(* that a process ends only after a loss.                                  *)
(***************************************************************************)
EXTENDS NewRdmaSession, SequenceTheorems, TLAPS

ClientLabels ==
  {"connect", "write_dest", "read_dest", "connect_qp", "prepost", "write_ready",
   "wait_data", "wait_ctrl", "handle", "write", "asleep"}
ServerLabels ==
  {"accept", "read_dest", "connect_qp", "write_dest", "read_ready",
   "post_recv", "send", "wait_ctrl", "wait_data", "decide", "asleep"}

Kinds == {"IMM", "SEND", "WRITE", "RECV", "ERR"}

Types ==
  /\ up \in [Clients \cup {"server"} -> BOOLEAN]
  /\ listening \in BOOLEAN
  /\ pc \in [Threads -> ClientLabels \cup ServerLabels]
  /\ \A c \in Clients : pc[Client(c)] \in ClientLabels /\ pc[Server(c)] \in ServerLabels
  /\ chan \in [Threads -> Channels]
  /\ connected \in [Clients -> BOOLEAN]
  /\ sock \in [Threads -> Seq(Channels \X {"dest", "ready"})]
  /\ qp \in [Threads -> [Channels -> {"none", "INIT", "RTS"}]]
  /\ rq \in [Threads -> [Channels -> Nat]]
  /\ wire \in [Threads -> [Channels -> Nat]]
  /\ unacked \in [Threads -> [Channels -> Nat]]
  /\ cq \in [Threads -> [Channels -> Seq(Kinds)]]
  /\ wc \in [Threads -> [Channels -> Kinds \cup {"none"}]]
  /\ data_inflight \in [Clients -> BOOLEAN]

(* A thread has left the handshake. *)
Serving(t) ==
  IF IsServer(t) THEN pc[t] \in {"post_recv", "send", "wait_ctrl", "wait_data", "decide"}
                 ELSE pc[t] \in {"wait_data", "wait_ctrl", "handle", "write"}

-----------------------------------------------------------------------------
(* The handshake.  What a thread reads, in order, and how much of it it    *)
(* has read, and how much of what its peer reads it has written.           *)

Script(t) ==
  IF IsServer(t)
    THEN <<<<"data", "dest">>, <<"data", "ready">>, <<"ctrl", "dest">>, <<"ctrl", "ready">>>>
    ELSE <<<<"data", "dest">>, <<"ctrl", "dest">>>>

ReadAt(t, label, h) ==
  IF IsServer(t)
    THEN (IF h = "data" THEN 0 ELSE 2)
           + CASE label \in {"accept", "read_dest"} -> 0
               [] label \in {"connect_qp", "write_dest", "read_ready"} -> 1
               [] OTHER -> 2
    ELSE (IF h = "data" THEN 0 ELSE 1)
           + IF label \in {"connect", "write_dest", "read_dest"} THEN 0 ELSE 1

WroteAt(t, label, h) ==
  IF IsServer(t)
    THEN (IF h = "data" THEN 0 ELSE 1)
           + IF label \in {"accept", "read_dest", "connect_qp", "write_dest"} THEN 0 ELSE 1
    ELSE (IF h = "data" THEN 0 ELSE 2)
           + CASE label \in {"connect", "write_dest"} -> 0
               [] label \in {"read_dest", "connect_qp", "prepost", "write_ready"} -> 1
               [] OTHER -> 2

ReadBy(t) == ReadAt(t, pc[t], chan[t])
WroteBy(t) == WroteAt(t, pc[t], chan[t])

(* A thread's socket holds what comes next in its script, as far as its    *)
(* peer has written it.                                                    *)
Flow(t) ==
  pc[t] # "asleep" =>
    /\ ReadBy(t) + Len(sock[t]) <= Len(Script(t))
    /\ \A k \in 1 .. Len(sock[t]) : sock[t][k] = Script(t)[ReadBy(t) + k]
    /\ pc[Peer(t)] # "asleep" => ReadBy(t) + Len(sock[t]) = WroteBy(Peer(t))

Posture(t) ==
  /\ pc[t] = "asleep" => PeerGone(t)
  /\ pc[t] \in {"connect", "accept"} => chan[t] = "data"
  /\ Serving(t) => chan[t] = "ctrl"

(* Its queue pairs are connected channel by channel. *)
Paired(t) ==
  /\ chan[t] = "ctrl" => qp[t]["data"] = "RTS"
  /\ \/ Serving(t)
     \/ IsServer(t) /\ pc[t] \in {"write_dest", "read_ready"}
     \/ ~IsServer(t) /\ pc[t] \in {"prepost", "write_ready"}
     => qp[t][chan[t]] = "RTS"

-----------------------------------------------------------------------------
(* The service.  Between the ends of a connection one token goes round.    *)

Handling(c) == pc[Client(c)] = "handle" /\ wc[Client(c)]["ctrl"] = "RECV"

AtServer(c) == pc[Server(c)] \in {"post_recv", "send", "decide"}
CtrlSent(c) == wire[Client(c)]["ctrl"] # 0
CtrlHere(c) == cq[Client(c)]["ctrl"] # << >>
AtClient(c) == Handling(c) \/ pc[Client(c)] = "write"
DataSent(c) == wire[Server(c)]["data"] # 0
DataHere(c) == cq[Server(c)]["data"] # << >>

Token(c) ==
  /\ AtServer(c) => ~CtrlSent(c) /\ ~CtrlHere(c) /\ ~AtClient(c) /\ ~DataSent(c) /\ ~DataHere(c)
  /\ CtrlSent(c) => ~CtrlHere(c) /\ ~AtClient(c) /\ ~DataSent(c) /\ ~DataHere(c)
  /\ CtrlHere(c) => ~AtClient(c) /\ ~DataSent(c) /\ ~DataHere(c)
  /\ AtClient(c) => ~DataSent(c) /\ ~DataHere(c)
  /\ DataSent(c) => ~DataHere(c)
  /\ CtrlSent(c) \/ CtrlHere(c) \/ AtClient(c) \/ DataSent(c) \/ DataHere(c) => Serving(Server(c))

(* What becomes of a message t has sent on h is on the wire, delivered, or *)
(* completed; and nothing is left unless t awaits it.                      *)
Own(t, h, awaits) ==
  /\ wire[Peer(t)][h] \in {0, 1} /\ unacked[t][h] \in {0, 1}
  /\ wire[Peer(t)][h] = 1 => unacked[t][h] = 0 /\ cq[t][h] = << >>
  /\ unacked[t][h] = 1 => cq[t][h] = << >>
  /\ ~awaits => wire[Peer(t)][h] = 0 /\ unacked[t][h] = 0 /\ cq[t][h] = << >>
  /\ cq[t][h] = <<"ERR">> => PeerGone(t)

ServerAwaits(c) == pc[Server(c)] = "wait_ctrl"
ClientAwaits(c) ==
  \/ pc[Client(c)] = "handle" /\ wc[Client(c)]["ctrl"] # "RECV"
  \/ pc[Client(c)] = "wait_data" /\ data_inflight[c]

Completions(c) ==
  /\ Own(Server(c), "ctrl", ServerAwaits(c)) /\ Own(Client(c), "data", ClientAwaits(c))
  /\ cq[Server(c)]["ctrl"] \in {<< >>, <<"SEND">>, <<"ERR">>}
  /\ cq[Client(c)]["data"] \in {<< >>, <<"WRITE">>, <<"ERR">>}
  /\ cq[Server(c)]["data"] \in {<< >>, <<"IMM">>}
  /\ cq[Client(c)]["ctrl"] \in {<< >>, <<"RECV">>}
  /\ wire[Client(c)]["data"] = 0 /\ wire[Server(c)]["ctrl"] = 0
  /\ unacked[Client(c)]["ctrl"] = 0 /\ unacked[Server(c)]["data"] = 0
  /\ wc[Server(c)]["data"] \in {"none", "IMM"} /\ wc[Client(c)]["data"] # "RECV"
  /\ wc[Server(c)]["ctrl"] \in {"none", "SEND", "ERR"}
  /\ wc[Server(c)]["ctrl"] = "ERR" => PeerGone(Server(c))
  /\ pc[Server(c)] = "decide" => wc[Server(c)]["data"] = "IMM"

(* A receive is posted unless it is consumed and not yet replaced. *)
Receives(c) ==
  /\ Serving(Client(c)) => rq[Client(c)]["ctrl"] = IF CtrlHere(c) \/ Handling(c) THEN 0 ELSE 1
  /\ ~Serving(Client(c)) /\ pc[Client(c)] # "asleep" => rq[Client(c)]["ctrl"] =
       IF chan[Client(c)] = "ctrl" /\ pc[Client(c)] = "write_ready" THEN 1 ELSE 0
  /\ rq[Server(c)]["data"] =
       IF pc[Server(c)] \in {"send", "wait_ctrl", "wait_data"} /\ ~DataHere(c) THEN 1 ELSE 0

(* The handshake and the service of a connection. *)
Shake(c) ==
  /\ Flow(Client(c)) /\ Flow(Server(c))
  /\ Posture(Client(c)) /\ Posture(Server(c))
  /\ Paired(Client(c)) /\ Paired(Server(c))
  /\ pc[Server(c)] # "accept" => connected[c]
  /\ pc[Client(c)] = "asleep" => ~Serving(Server(c))

Service(c) == Token(c) /\ Completions(c) /\ Receives(c)

IInv == Types /\ (\A c \in Clients : Shake(c) /\ Service(c)) /\ FatalOnlyAfterLoss

-----------------------------------------------------------------------------
(* Lemmas. *)

(* The two threads of a connection. *)
LEMMA ThreadFacts ==
  ASSUME NEW c \in Clients
  PROVE  /\ Client(c) \in Threads /\ Server(c) \in Threads /\ Client(c) # Server(c)
         /\ ~IsServer(Client(c)) /\ IsServer(Server(c))
         /\ Peer(Client(c)) = Server(c) /\ Peer(Server(c)) = Client(c)
         /\ Proc(Client(c)) = c /\ Proc(Server(c)) = "server" /\ c # "server"
         /\ Client(c)[1] = c /\ Server(c)[1] = c
         /\ \A d \in Clients : d # c => /\ Client(d) # Client(c) /\ Client(d) # Server(c)
                                        /\ Server(d) # Client(c) /\ Server(d) # Server(c)
  BY MortalAssumption DEF Client, Server, Threads, IsServer, Peer, Proc

(* There are no others. *)
LEMMA ThreadIs == \A t \in Threads : \E c \in Clients : t = Client(c) \/ t = Server(c)
  BY DEF Client, Server, Threads

(* The places of Steps. *)
LEMMA StepPlaces ==
  ASSUME NEW S, NEW n \in Nat, DOMAIN S = 1 .. n,
         \A i, j \in 1 .. n : S[i] = S[j] => i = j,
         NEW x, NEW k \in 1 .. n, S[k] = x
  PROVE  (CHOOSE j \in DOMAIN S : S[j] = x) = k
<1>1. \E j \in DOMAIN S : S[j] = x
  OBVIOUS
<1>2. QED
  BY <1>1

(* Where a client goes in its handshake, and what it has then read and     *)
(* written.                                                                *)
ClientMove(l, h, m, g) ==
  \/ l = "write_dest" /\ m = "read_dest" /\ g = h
  \/ l = "read_dest" /\ m = "connect_qp" /\ g = h
  \/ l = "connect_qp" /\ m = "prepost" /\ g = h
  \/ l = "prepost" /\ m = "write_ready" /\ g = h
  \/ l = "write_ready" /\ h = "data" /\ m = "write_dest" /\ g = "ctrl"
  \/ l = "write_ready" /\ h = "ctrl" /\ m = "wait_data" /\ g = h

ServerMove(l, h, m, g) ==
  \/ l = "read_dest" /\ m = "connect_qp" /\ g = h
  \/ l = "connect_qp" /\ m = "write_dest" /\ g = h
  \/ l = "write_dest" /\ m = "read_ready" /\ g = h
  \/ l = "read_ready" /\ h = "data" /\ m = "read_dest" /\ g = "ctrl"
  \/ l = "read_ready" /\ h = "ctrl" /\ m = "post_recv" /\ g = h

Moves(t, l, h, m, g) == IF IsServer(t) THEN ServerMove(l, h, m, g) ELSE ClientMove(l, h, m, g)

(* Advance, step by step. *)
LEMMA AdvanceFacts ==
  ASSUME Types, NEW t \in Threads, Advance(t),
         pc[t] \in {Steps(t)[k] : k \in DOMAIN Steps(t)}
  PROVE  /\ up' = up
         /\ \E m \in ClientLabels \cup ServerLabels, g \in Channels :
              /\ pc' = [pc EXCEPT ![t] = m] /\ chan' = [chan EXCEPT ![t] = g]
              /\ Moves(t, pc[t], chan[t], m, g)
<1> DEFINE S == Steps(t)  i == CHOOSE k \in DOMAIN S : S[k] = pc[t]
<1>1. /\ up' = up
      /\ IF i < Len(S)
           THEN pc' = [pc EXCEPT ![t] = S[i + 1]] /\ chan' = chan
           ELSE IF chan[t] = "data"
             THEN pc' = [pc EXCEPT ![t] = S[1]] /\ chan' = [chan EXCEPT ![t] = "ctrl"]
             ELSE /\ pc' = [pc EXCEPT ![t] = IF IsServer(t) THEN "post_recv" ELSE "wait_data"]
                  /\ chan' = chan
  BY DEF Advance, Goto
<1>2. chan[t] \in {"data", "ctrl"} /\ chan' = [chan EXCEPT ![t] = chan'[t]]
      /\ (chan' = chan => chan'[t] = chan[t]) /\ chan = [chan EXCEPT ![t] = chan[t]]
  BY <1>1 DEF Types, Channels
<1>3. CASE IsServer(t)
  <2>1. S = <<"read_dest", "connect_qp", "write_dest", "read_ready">>
    BY <1>3 DEF Steps
  <2>2. /\ DOMAIN S = 1 .. 4 /\ Len(S) = 4
        /\ S[1] = "read_dest" /\ S[2] = "connect_qp" /\ S[3] = "write_dest" /\ S[4] = "read_ready"
    BY <2>1
  <2> HIDE DEF S
  <2>3. PICK k \in 1 .. 4 : pc[t] = S[k]
    BY <2>2 DEF S
  <2>4. \A a, b \in 1 .. 4 : S[a] = S[b] => a = b
    BY <2>2
  <2>5. i = k
    BY <2>2, <2>3, <2>4, StepPlaces
  <2> HIDE DEF i
  <2>6. QED
    BY <1>1, <1>2, <1>3, <2>2, <2>3, <2>5 DEF Moves, ServerMove, ServerLabels, Channels
<1>4. CASE ~IsServer(t)
  <2>1. S = <<"write_dest", "read_dest", "connect_qp", "prepost", "write_ready">>
    BY <1>4 DEF Steps
  <2>2. /\ DOMAIN S = 1 .. 5 /\ Len(S) = 5
        /\ S[1] = "write_dest" /\ S[2] = "read_dest" /\ S[3] = "connect_qp" /\ S[4] = "prepost"
        /\ S[5] = "write_ready"
    BY <2>1
  <2> HIDE DEF S
  <2>3. PICK k \in 1 .. 5 : pc[t] = S[k]
    BY <2>2 DEF S
  <2>4. \A a, b \in 1 .. 5 : S[a] = S[b] => a = b
    BY <2>2
  <2>5. i = k
    BY <2>2, <2>3, <2>4, StepPlaces
  <2> HIDE DEF i
  <2>6. QED
    BY <1>1, <1>2, <1>4, <2>2, <2>3, <2>5 DEF Moves, ClientMove, ClientLabels, Channels
<1>5. QED
  BY <1>3, <1>4

(* Both counts go along the scripts. *)
LEMMA MoveCounts ==
  ASSUME NEW c \in Clients, NEW t \in {Client(c), Server(c)}, NEW l, NEW h \in Channels,
         NEW m, NEW g, Moves(t, l, h, m, g)
  PROVE  /\ ReadAt(t, l, h) \in Nat /\ WroteAt(t, l, h) \in Nat
         /\ l \in {"read_dest", "read_ready"} =>
              /\ ReadAt(t, m, g) = ReadAt(t, l, h) + 1
              /\ Script(t)[ReadAt(t, l, h) + 1] = <<h, IF l = "read_dest" THEN "dest" ELSE "ready">>
         /\ l \notin {"read_dest", "read_ready"} => ReadAt(t, m, g) = ReadAt(t, l, h)
         /\ l \in {"write_dest", "write_ready"} =>
              /\ WroteAt(t, m, g) = WroteAt(t, l, h) + 1
              /\ WroteAt(t, l, h) + 1 <= Len(Script(Peer(t)))
              /\ Script(Peer(t))[WroteAt(t, l, h) + 1] = <<h, IF l = "write_dest" THEN "dest" ELSE "ready">>
         /\ l \notin {"write_dest", "write_ready"} => WroteAt(t, m, g) = WroteAt(t, l, h)
<1> USE ThreadFacts DEF Channels
<1>0. /\ Script(Client(c)) = <<<<"data", "dest">>, <<"ctrl", "dest">>>>
      /\ Script(Server(c)) =
           <<<<"data", "dest">>, <<"data", "ready">>, <<"ctrl", "dest">>, <<"ctrl", "ready">>>>
  BY DEF Script
<1>1. /\ Len(Script(Client(c))) = 2 /\ Len(Script(Server(c))) = 4
      /\ Script(Client(c))[1] = <<"data", "dest">> /\ Script(Client(c))[2] = <<"ctrl", "dest">>
      /\ Script(Server(c))[1] = <<"data", "dest">> /\ Script(Server(c))[2] = <<"data", "ready">>
      /\ Script(Server(c))[3] = <<"ctrl", "dest">> /\ Script(Server(c))[4] = <<"ctrl", "ready">>
  BY <1>0
<1>2. CASE t = Client(c)
  BY <1>1, <1>2 DEF Moves, ClientMove, ReadAt, WroteAt
<1>3. CASE t = Server(c)
  BY <1>1, <1>3 DEF Moves, ServerMove, ReadAt, WroteAt
<1>4. QED
  BY <1>2, <1>3

(* The counts are numbers, and what bounds them. *)
LEMMA CountTypes ==
  ASSUME Types, NEW c \in Clients, NEW t \in {Client(c), Server(c)}
  PROVE  /\ ReadBy(t) \in Nat /\ WroteBy(t) \in Nat
         /\ sock[t] \in Seq(Channels \X {"dest", "ready"}) /\ Len(sock[t]) \in Nat
         /\ Len(Script(t)) \in Nat
         /\ t \in Threads /\ Peer(t) \in Threads /\ Peer(t) # t /\ Peer(Peer(t)) = t
         /\ Peer(t) \in {Client(c), Server(c)}
<1>1. /\ t \in Threads /\ Peer(t) \in Threads /\ Peer(t) # t /\ Peer(Peer(t)) = t
      /\ Peer(t) \in {Client(c), Server(c)}
  BY ThreadFacts
<1>2. ReadBy(t) \in Nat /\ WroteBy(t) \in Nat
  BY DEF ReadBy, WroteBy, ReadAt, WroteAt
<1>3. sock[t] \in Seq(Channels \X {"dest", "ready"}) /\ Len(sock[t]) \in Nat
  BY <1>1, SMTT(30) DEF Types
<1>4. Len(Script(t)) \in Nat
  <2>1. /\ Len(<<<<"data", "dest">>, <<"ctrl", "dest">>>>) = 2
        /\ Len(<<<<"data", "dest">>, <<"data", "ready">>, <<"ctrl", "dest">>, <<"ctrl", "ready">>>>) = 4
    OBVIOUS
  <2>2. QED
    BY <2>1 DEF Script
<1>5. QED
  BY <1>1, <1>2, <1>3, <1>4

(* A server thread serves only a client that serves. *)
LEMMA ServingBoth ==
  ASSUME Types, NEW c \in Clients, Shake(c), Serving(Server(c))
  PROVE  Serving(Client(c))
<1> USE ThreadFacts
<1>1. pc[Client(c)] # "asleep" /\ pc[Server(c)] # "asleep" /\ chan[Server(c)] = "ctrl"
  BY DEF Shake, Posture, Serving
<1>2. ReadBy(Server(c)) = 4
  BY <1>1 DEF ReadBy, ReadAt, Serving
<1>3. 4 <= WroteBy(Client(c))
  <2>1. ReadBy(Server(c)) + Len(sock[Server(c)]) = WroteBy(Client(c))
    BY <1>1 DEF Shake, Flow
  <2>2. QED
    BY <2>1, <1>2, CountTypes
<1>4. pc[Client(c)] \in ClientLabels
  BY DEF Types
<1>5. QED
  BY <1>1, <1>3, <1>4 DEF WroteBy, WroteAt, Serving, ClientLabels

(* A step that leaves thread t alone. *)
SameAt(t) ==
  /\ pc'[t] = pc[t] /\ chan'[t] = chan[t] /\ sock'[t] = sock[t] /\ qp'[t] = qp[t] /\ rq'[t] = rq[t]
  /\ wire'[t] = wire[t] /\ unacked'[t] = unacked[t] /\ cq'[t] = cq[t] /\ wc'[t] = wc[t]

Same(c) ==
  /\ SameAt(Client(c)) /\ SameAt(Server(c))
  /\ connected'[c] = connected[c] /\ data_inflight'[c] = data_inflight[c]

(* Processes that have ended do not come back. *)
Downward == \A x \in Clients \cup {"server"} : ~up[x] => ~up'[x]

(* A connection is not affected by what happens to others, or by the end   *)
(* of a process.                                                           *)
LEMMA SameFrame ==
  ASSUME Types, Downward, NEW c \in Clients, Same(c), Shake(c), Service(c)
  PROVE  Shake(c)' /\ Service(c)'
<1> USE ThreadFacts DEF Same, SameAt
<1>1. \A t \in {Client(c), Server(c)} :
        /\ ReadBy(t)' = ReadBy(t) /\ WroteBy(t)' = WroteBy(t) /\ (Serving(t)' <=> Serving(t))
        /\ PeerGone(t) => PeerGone(t)'
  BY DEF ReadBy, WroteBy, Serving, Downward, PeerGone
<1>2. /\ Handling(c)' <=> Handling(c)
      /\ AtServer(c)' <=> AtServer(c)
      /\ CtrlSent(c)' <=> CtrlSent(c)
      /\ CtrlHere(c)' <=> CtrlHere(c)
      /\ AtClient(c)' <=> AtClient(c)
      /\ DataSent(c)' <=> DataSent(c)
      /\ DataHere(c)' <=> DataHere(c)
      /\ ServerAwaits(c)' <=> ServerAwaits(c)
      /\ ClientAwaits(c)' <=> ClientAwaits(c)
  BY DEF Handling, AtServer, CtrlSent, CtrlHere, AtClient, DataSent, DataHere,
         ServerAwaits, ClientAwaits
<1>3. Flow(Client(c))' /\ Flow(Server(c))'
  BY <1>1 DEF Shake, Flow
<1>4. Posture(Client(c))' /\ Posture(Server(c))' /\ Paired(Client(c))' /\ Paired(Server(c))'
  BY <1>1 DEF Shake, Posture, Paired
<1>5. Shake(c)'
  BY <1>1, <1>3, <1>4 DEF Shake
<1>6. Token(c)'
  BY <1>1, <1>2 DEF Service, Token
<1>7. Completions(c)'
  BY <1>1, <1>2 DEF Service, Completions, Own
<1>8. Receives(c)'
  BY <1>1, <1>2 DEF Service, Receives
<1>9. QED
  BY <1>5, <1>6, <1>7, <1>8 DEF Service

-----------------------------------------------------------------------------
(* The handshake. *)

(* Thread t goes from one step of its handshake to the next. *)
Step(t, m, g) ==
  /\ up[Proc(t)] /\ up' = up /\ connected' = connected
  /\ pc' = [pc EXCEPT ![t] = m] /\ chan' = [chan EXCEPT ![t] = g]
  /\ Moves(t, pc[t], chan[t], m, g)

(* What that changes. *)
LEMMA StepFacts ==
  ASSUME Types, NEW c \in Clients, NEW t \in {Client(c), Server(c)}, NEW m, NEW g,
         Step(t, m, g), Shake(c)
  PROVE  /\ pc'[t] = m /\ pc'[Peer(t)] = pc[Peer(t)]
         /\ chan'[t] = g /\ chan'[Peer(t)] = chan[Peer(t)]
         /\ pc[t] # "asleep" /\ m # "asleep" /\ ~Serving(t)
         /\ Serving(Peer(t))' <=> Serving(Peer(t))
         /\ Posture(t)' /\ Posture(Peer(t))'
         /\ pc'[Server(c)] # "accept" => connected'[c]
         /\ pc'[Client(c)] = "asleep" => ~Serving(Server(c))'
         /\ pc' \in [Threads -> ClientLabels \cup ServerLabels] /\ chan' \in [Threads -> Channels]
         /\ \A d \in Clients : pc'[Client(d)] \in ClientLabels /\ pc'[Server(d)] \in ServerLabels
         /\ \A r \in Threads : r # t => pc'[r] = pc[r] /\ chan'[r] = chan[r]
<1> PICK p \in {Client(c), Server(c)} : p = Peer(t) /\ p # t /\ Peer(p) = t
  BY ThreadFacts
<1>1. chan[t] \in Channels /\ Client(c) \in Threads /\ Server(c) \in Threads
  BY ThreadFacts DEF Types
<1>2. /\ m \in (IF IsServer(t) THEN ServerLabels ELSE ClientLabels) /\ g \in Channels
      /\ m \notin {"asleep", "connect", "accept"}
      /\ pc[t] \notin {"asleep", "connect", "accept"} /\ ~Serving(t)
      /\ m \in {"wait_data", "post_recv"} => g = "ctrl"
      /\ ~IsServer(t) => m \notin {"wait_ctrl", "handle", "write"}
      /\ IsServer(t) => m \notin {"send", "wait_ctrl", "wait_data", "decide"}
  BY <1>1 DEF Step, Moves, ClientMove, ServerMove, ClientLabels, ServerLabels, Serving, Channels
<1>3. /\ pc'[t] = m /\ chan'[t] = g
      /\ \A r \in Threads : r # t => pc'[r] = pc[r] /\ chan'[r] = chan[r]
  BY <1>1 DEF Step, Types
<1>4. pc'[p] = pc[p] /\ chan'[p] = chan[p]
  BY <1>1, <1>3
<1>5. Serving(p)' <=> Serving(p)
  BY <1>4 DEF Serving
<1>6. Posture(p)'
  BY <1>4, <1>5 DEF Shake, Posture, Step, PeerGone
<1>7. Posture(t)'
  BY <1>2, <1>3 DEF Posture, Serving
<1>8. pc'[Server(c)] # "accept" => connected'[c]
  BY <1>2, <1>4 DEF Shake, Step
<1>9. pc'[Client(c)] = "asleep" => ~Serving(Server(c))'
  <2>1. CASE t = Client(c)
    BY <2>1, <1>2, <1>3
  <2>2. CASE t = Server(c)
    <3>1. up["server"]
      BY <2>2, ThreadFacts DEF Step
    <3>2. pc[Client(c)] # "asleep"
      BY <3>1, ThreadFacts DEF Shake, Posture, PeerGone
    <3>3. QED
      BY <2>2, <3>2, <1>4, ThreadFacts
  <2>3. QED
    BY <2>1, <2>2
<1>10. /\ pc' \in [Threads -> ClientLabels \cup ServerLabels] /\ chan' \in [Threads -> Channels]
  BY <1>1, <1>2 DEF Step, Types
<1>11. \A d \in Clients : pc'[Client(d)] \in ClientLabels /\ pc'[Server(d)] \in ServerLabels
  <2> TAKE d \in Clients
  <2>1. CASE d = c
    BY <2>1, <1>2, <1>3, <1>4, ThreadFacts, ZenonT(30) DEF Types
  <2>2. CASE d # c
    <3>1. /\ Client(d) \in Threads /\ Server(d) \in Threads
          /\ Client(d) # t /\ Server(d) # t
      BY <2>2, ThreadFacts
    <3>2. QED
      BY <3>1, <1>3 DEF Types
  <2>3. QED
    BY <2>1, <2>2
<1>12. QED
  BY <1>2, <1>3, <1>4, <1>5, <1>6, <1>7, <1>8, <1>9, <1>10, <1>11

(* A step that does not use the socket. *)
LEMMA FlowStill ==
  ASSUME Types, NEW c \in Clients, NEW t \in {Client(c), Server(c)}, NEW m, NEW g,
         Step(t, m, g), Shake(c), sock' = sock,
         pc[t] \notin {"read_dest", "read_ready", "write_dest", "write_ready"}
  PROVE  Flow(Client(c))' /\ Flow(Server(c))'
<1> PICK p \in {Client(c), Server(c)} :
      p = Peer(t) /\ p # t /\ Peer(p) = t /\ {Client(c), Server(c)} = {t, p}
  BY ThreadFacts
<1>1. /\ pc'[t] = m /\ pc'[p] = pc[p] /\ chan'[t] = g /\ chan'[p] = chan[p]
      /\ pc[t] # "asleep" /\ m # "asleep"
  BY StepFacts, SMTT(30)
<1>2. chan[t] \in Channels
  BY ThreadFacts, SMTT(30) DEF Types
<1>3. /\ ReadBy(t)' = ReadBy(t) /\ WroteBy(t)' = WroteBy(t)
      /\ ReadBy(p)' = ReadBy(p) /\ WroteBy(p)' = WroteBy(p)
  BY <1>1, <1>2, MoveCounts DEF Step, ReadBy, WroteBy
<1>4. Flow(t) /\ Flow(p)
  BY DEF Shake
<1>5. Flow(t)' /\ Flow(p)'
  BY <1>1, <1>3, <1>4 DEF Flow
<1>6. QED
  BY <1>5

(* write_exact. *)
LEMMA FlowWrite ==
  ASSUME Types, NEW c \in Clients, NEW t \in {Client(c), Server(c)}, NEW m, NEW g,
         Step(t, m, g), Shake(c), pc[t] \in {"write_dest", "write_ready"},
         sock' = [sock EXCEPT ![Peer(t)] =
           Append(@, <<chan[t], IF pc[t] = "write_dest" THEN "dest" ELSE "ready">>)]
  PROVE  /\ Flow(Client(c))' /\ Flow(Server(c))'
         /\ sock' \in [Threads -> Seq(Channels \X {"dest", "ready"})]
<1> PICK p \in {Client(c), Server(c)} :
      p = Peer(t) /\ p # t /\ Peer(p) = t /\ {Client(c), Server(c)} = {t, p}
      /\ t \in Threads /\ p \in Threads
  BY ThreadFacts
<1>0. chan[t] \in Channels
  BY DEF Types
<1> PICK x \in Channels \X {"dest", "ready"} :
      x = <<chan[t], IF pc[t] = "write_dest" THEN "dest" ELSE "ready">>
  <2>1. <<chan[t], IF pc[t] = "write_dest" THEN "dest" ELSE "ready">> \in Channels \X {"dest", "ready"}
    BY <1>0
  <2>2. QED
    BY <2>1
<1>1. /\ pc'[t] = m /\ pc'[p] = pc[p] /\ chan'[t] = g /\ chan'[p] = chan[p]
      /\ pc[t] # "asleep" /\ m # "asleep"
  BY StepFacts, SMTT(30)
<1>2. chan[t] \in Channels /\ sock[p] \in Seq(Channels \X {"dest", "ready"})
  BY ThreadFacts DEF Types
<1>3. /\ ReadBy(t)' = ReadBy(t) /\ WroteBy(t)' = WroteBy(t) + 1
      /\ ReadBy(p)' = ReadBy(p) /\ WroteBy(p)' = WroteBy(p)
      /\ WroteBy(t) + 1 <= Len(Script(p)) /\ Script(p)[WroteBy(t) + 1] = x
  BY <1>1, <1>2, MoveCounts DEF Step, ReadBy, WroteBy
<1>4. /\ sock'[t] = sock[t] /\ sock'[p] = Append(sock[p], x)
      /\ sock' \in [Threads -> Seq(Channels \X {"dest", "ready"})]
  BY AppendProperties DEF Types
<1>5. Flow(t)'
  BY <1>1, <1>3, <1>4 DEF Shake, Flow
<1>6. Flow(p)'
  <2>1. CASE pc[p] = "asleep"
    BY <2>1, <1>1 DEF Flow
  <2>2. CASE pc[p] # "asleep"
    <3>1. /\ ReadBy(p) \in Nat /\ WroteBy(t) \in Nat /\ Len(sock[p]) \in Nat
      BY CountTypes
    <3>2. /\ ReadBy(p) + Len(sock[p]) = WroteBy(t)
          /\ \A k \in 1 .. Len(sock[p]) : sock[p][k] = Script(p)[ReadBy(p) + k]
      BY <2>2, <1>1 DEF Shake, Flow
    <3>3. /\ Len(sock'[p]) = Len(sock[p]) + 1
          /\ \A k \in 1 .. Len(sock[p]) : sock'[p][k] = sock[p][k]
          /\ sock'[p][Len(sock[p]) + 1] = x
      BY <1>2, <1>4, AppendProperties
    <3>4. ASSUME NEW k \in 1 .. Len(sock'[p])
          PROVE  sock'[p][k] = Script(p)[ReadBy(p) + k]
      <4>1. CASE k \in 1 .. Len(sock[p])
        BY <4>1, <3>2, <3>3
      <4>2. CASE k = Len(sock[p]) + 1
        <5>1. ReadBy(p) + k = WroteBy(t) + 1
          BY <4>2, <3>1, <3>2
        <5>2. QED
          BY <4>2, <5>1, <3>3, <1>3
      <4>3. QED
        BY <4>1, <4>2, <3>1, <3>3
    <3>5. ReadBy(p) + Len(sock'[p]) = WroteBy(t) + 1
      BY <3>1, <3>2, <3>3
    <3>6. QED
      BY <1>1, <1>3, <3>4, <3>5 DEF Flow
  <2>3. QED
    BY <2>1, <2>2
<1>7. QED
  BY <1>4, <1>5, <1>6

(* read_exact finds the next entry of its script. *)
LEMMA ReadExpected ==
  ASSUME Types, NEW c \in Clients, NEW t \in {Client(c), Server(c)}, Shake(c),
         pc[t] \in {"read_dest", "read_ready"}, sock[t] # << >>
  PROVE  Head(sock[t]) = <<chan[t], IF pc[t] = "read_dest" THEN "dest" ELSE "ready">>
<1>1. sock[t] \in Seq(Channels \X {"dest", "ready"}) /\ Len(sock[t]) > 0 /\ chan[t] \in Channels
      /\ 1 \in 1 .. Len(sock[t])
  <2>1. t \in Threads /\ sock[t] \in Seq(Channels \X {"dest", "ready"})
    BY CountTypes
  <2>2. chan[t] \in Channels
    BY <2>1 DEF Types
  <2>3. QED
    BY <2>1, <2>2, EmptySeq
<1>2. Head(sock[t]) = Script(t)[ReadBy(t) + 1]
  <2>1. sock[t][1] = Script(t)[ReadBy(t) + 1]
    BY <1>1 DEF Shake, Flow
  <2>2. QED
    BY <2>1, <1>1
<1>3. pc[t] = "read_ready" => IsServer(t)
  BY ThreadFacts DEF Types, ClientLabels
<1>4. \E m, g : Moves(t, pc[t], chan[t], m, g)
  BY <1>1, <1>3 DEF Moves, ClientMove, ServerMove, Channels
<1>5. QED
  BY <1>1, <1>2, <1>4, MoveCounts DEF ReadBy

(* read_exact. *)
LEMMA FlowRead ==
  ASSUME Types, NEW c \in Clients, NEW t \in {Client(c), Server(c)}, NEW m, NEW g,
         Step(t, m, g), Shake(c), pc[t] \in {"read_dest", "read_ready"},
         sock[t] # << >>, sock' = [sock EXCEPT ![t] = Tail(@)]
  PROVE  /\ Flow(Client(c))' /\ Flow(Server(c))'
         /\ sock' \in [Threads -> Seq(Channels \X {"dest", "ready"})]
<1> PICK p \in {Client(c), Server(c)} :
      p = Peer(t) /\ p # t /\ Peer(p) = t /\ {Client(c), Server(c)} = {t, p}
      /\ t \in Threads /\ p \in Threads
  BY ThreadFacts
<1>1. /\ pc'[t] = m /\ pc'[p] = pc[p] /\ chan'[t] = g /\ chan'[p] = chan[p]
      /\ pc[t] # "asleep" /\ m # "asleep"
  BY StepFacts, SMTT(30)
<1>2. chan[t] \in Channels /\ sock[t] \in Seq(Channels \X {"dest", "ready"})
  BY ThreadFacts DEF Types
<1>3. /\ ReadBy(t)' = ReadBy(t) + 1 /\ WroteBy(t)' = WroteBy(t)
      /\ ReadBy(p)' = ReadBy(p) /\ WroteBy(p)' = WroteBy(p)
  <2>1. Moves(t, pc[t], chan[t], m, g) /\ pc[t] \notin {"write_dest", "write_ready"}
    BY DEF Step
  <2>2. /\ ReadAt(t, m, g) = ReadAt(t, pc[t], chan[t]) + 1
        /\ WroteAt(t, m, g) = WroteAt(t, pc[t], chan[t])
    BY <1>2, <2>1, MoveCounts
  <2>3. QED
    BY <1>1, <2>2 DEF ReadBy, WroteBy
<1>4. /\ Tail(sock[t]) \in Seq(Channels \X {"dest", "ready"})
      /\ Len(Tail(sock[t])) = Len(sock[t]) - 1 /\ Len(sock[t]) \in Nat /\ Len(sock[t]) > 0
      /\ \A k \in 1 .. Len(Tail(sock[t])) : Tail(sock[t])[k] = sock[t][k + 1]
  BY <1>2, HeadTailProperties, EmptySeq
<1>5. /\ sock'[p] = sock[p] /\ sock'[t] = Tail(sock[t])
      /\ sock' \in [Threads -> Seq(Channels \X {"dest", "ready"})]
  BY <1>4 DEF Types
<1>6. Flow(p)'
  BY <1>1, <1>3, <1>5 DEF Shake, Flow
<1>7. Flow(t)'
  <2>1. ReadBy(t) \in Nat /\ WroteBy(p) \in Nat /\ Len(Script(t)) \in Nat
    BY CountTypes
  <2>2. /\ ReadBy(t) + Len(sock[t]) <= Len(Script(t))
        /\ \A k \in 1 .. Len(sock[t]) : sock[t][k] = Script(t)[ReadBy(t) + k]
        /\ pc[p] # "asleep" => ReadBy(t) + Len(sock[t]) = WroteBy(p)
    BY <1>1 DEF Shake, Flow
  <2>3. ASSUME NEW k \in 1 .. Len(sock'[t])
        PROVE  sock'[t][k] = Script(t)[(ReadBy(t) + 1) + k]
    <3>1. k + 1 \in 1 .. Len(sock[t]) /\ (ReadBy(t) + 1) + k = ReadBy(t) + (k + 1)
      BY <1>4, <1>5, <2>1
    <3>2. QED
      BY <3>1, <2>2, <1>4, <1>5
  <2>4. (ReadBy(t) + 1) + Len(sock'[t]) = ReadBy(t) + Len(sock[t])
    BY <1>4, <1>5, <2>1
  <2>5. QED
    BY <1>1, <1>3, <2>2, <2>3, <2>4 DEF Flow
<1>8. QED
  BY <1>5, <1>6, <1>7

(* The service has not begun, or begins. *)
LEMMA ServiceStep ==
  ASSUME Types, NEW c \in Clients, NEW t \in {Client(c), Server(c)}, NEW m, NEW g,
         Step(t, m, g), Shake(c), Service(c),
         UNCHANGED <<wire, unacked, cq, wc, data_inflight>>,
         rq'[Server(c)] = rq[Server(c)],
         t = Client(c) /\ pc[t] = "prepost" /\ chan[t] = "ctrl" =>
           rq'[Client(c)]["ctrl"] = rq[Client(c)]["ctrl"] + 1,
         ~(t = Client(c) /\ pc[t] = "prepost" /\ chan[t] = "ctrl") =>
           rq'[Client(c)]["ctrl"] = rq[Client(c)]["ctrl"]
  PROVE  Service(c)'
<1> USE ThreadFacts
<1> PICK p \in {Client(c), Server(c)} : p = Peer(t) /\ p # t
  OBVIOUS
<1>1. /\ pc'[t] = m /\ pc'[p] = pc[p] /\ chan'[t] = g /\ chan'[p] = chan[p]
      /\ ~Serving(t) /\ (Serving(p)' <=> Serving(p))
  BY StepFacts, SMTT(30)
<1>2. Moves(t, pc[t], chan[t], m, g) /\ up' = up
  BY DEF Step
<1>3. \A r : PeerGone(r)' <=> PeerGone(r)
  BY <1>2 DEF PeerGone
<1>4. /\ CtrlSent(c)' <=> CtrlSent(c)
      /\ CtrlHere(c)' <=> CtrlHere(c)
      /\ DataSent(c)' <=> DataSent(c)
      /\ DataHere(c)' <=> DataHere(c)
  BY DEF CtrlSent, CtrlHere, DataSent, DataHere
<1>5. CASE t = Client(c)
  <2>1. p = Server(c) /\ ~Serving(Client(c)) /\ ~Serving(Server(c)) /\ ~Serving(Server(c))'
    BY <1>1, <1>5, ServingBoth
  <2>2. ClientMove(pc[Client(c)], chan[Client(c)], m, g)
    BY <1>2, <1>5 DEF Moves
  <2>3. ~CtrlSent(c) /\ ~CtrlHere(c) /\ ~DataSent(c) /\ ~DataHere(c)
    BY <2>1 DEF Service, Token
  <2>4. ~AtClient(c)' /\ ~Handling(c)' /\ ~AtServer(c)'
    BY <1>1, <1>5, <2>1, <2>2 DEF AtClient, Handling, AtServer, ClientMove, Serving
  <2>5. Token(c)'
    BY <1>4, <2>3, <2>4 DEF Token
  <2>6. Completions(c)'
    <3>1. ServerAwaits(c)' <=> ServerAwaits(c)
      BY <1>1, <2>1 DEF ServerAwaits
    <3>2. ~ClientAwaits(c)
      BY <2>1 DEF ClientAwaits, Serving
    <3>3. pc'[Server(c)] = pc[Server(c)]
      BY <1>1, <2>1
    <3>4. Own(Server(c), "ctrl", ServerAwaits(c))' /\ Own(Client(c), "data", ClientAwaits(c))'
      BY <1>3, <3>1, <3>2 DEF Service, Completions, Own
    <3>5. QED
      BY <1>3, <3>3, <3>4 DEF Service, Completions
  <2>7. Receives(c)'
    <3>1. rq'[Server(c)]["data"] =
            IF pc'[Server(c)] \in {"send", "wait_ctrl", "wait_data"} /\ ~DataHere(c)' THEN 1 ELSE 0
      BY <1>1, <1>4, <2>1 DEF Service, Receives
    <3>2. rq[Client(c)]["ctrl"] =
            IF chan[Client(c)] = "ctrl" /\ pc[Client(c)] = "write_ready" THEN 1 ELSE 0
      BY <1>1, <1>5, <2>1, StepFacts DEF Service, Receives
    <3>3. CASE m = "wait_data"
      BY <3>1, <3>2, <3>3, <1>1, <1>4, <1>5, <2>2, <2>3, <2>4 DEF ClientMove, Receives, Serving
    <3>4. CASE m # "wait_data"
      <4>1. ~Serving(Client(c))'
        BY <3>4, <1>1, <1>5, <2>2 DEF ClientMove, Serving
      <4>2. rq'[Client(c)]["ctrl"] = IF g = "ctrl" /\ m = "write_ready" THEN 1 ELSE 0
        BY <3>2, <3>4, <1>5, <2>2 DEF ClientMove
      <4>3. QED
        BY <3>1, <4>1, <4>2, <1>1, <1>5 DEF Receives
    <3>5. QED
      BY <3>3, <3>4
  <2>8. QED
    BY <2>5, <2>6, <2>7 DEF Service
<1>6. CASE t = Server(c)
  <2>1. p = Client(c) /\ ~Serving(Server(c)) /\ pc'[Client(c)] = pc[Client(c)]
        /\ chan'[Client(c)] = chan[Client(c)] /\ (Serving(Client(c))' <=> Serving(Client(c)))
    BY <1>1, <1>6
  <2>2. ServerMove(pc[Server(c)], chan[Server(c)], m, g)
    BY <1>2, <1>6 DEF Moves
  <2>3. ~CtrlSent(c) /\ ~CtrlHere(c) /\ ~DataSent(c) /\ ~DataHere(c) /\ ~AtClient(c)
    BY <2>1 DEF Service, Token
  <2>4. (Handling(c)' <=> Handling(c)) /\ ~AtClient(c)'
    BY <2>1, <2>3 DEF AtClient, Handling
  <2>5. Token(c)'
    BY <1>4, <2>3, <2>4 DEF Token
  <2>6. Completions(c)'
    <3>1. ClientAwaits(c)' <=> ClientAwaits(c)
      BY <2>1 DEF ClientAwaits
    <3>2. ~ServerAwaits(c) /\ pc'[Server(c)] # "decide"
      BY <2>1, <2>2, <1>1, <1>6 DEF ServerAwaits, Serving, ServerMove
    <3>3. Own(Server(c), "ctrl", ServerAwaits(c))' /\ Own(Client(c), "data", ClientAwaits(c))'
      BY <1>3, <3>1, <3>2 DEF Service, Completions, Own
    <3>4. QED
      BY <1>3, <3>2, <3>3 DEF Service, Completions
  <2>7. Receives(c)'
    <3>1. /\ pc[Server(c)] \notin {"send", "wait_ctrl", "wait_data"}
          /\ pc'[Server(c)] \notin {"send", "wait_ctrl", "wait_data"}
      BY <2>1, <2>2, <1>1, <1>6 DEF Serving, ServerMove
    <3>2. QED
      BY <3>1, <1>4, <1>6, <2>1, <2>4 DEF Service, Receives
  <2>8. QED
    BY <2>5, <2>6, <2>7 DEF Service
<1>7. QED
  BY <1>5, <1>6

(* No process ends and no connection is made. *)
LEMMA LossFrame ==
  ASSUME FatalOnlyAfterLoss, UNCHANGED <<up, connected>>
  PROVE  FatalOnlyAfterLoss'
  BY DEF FatalOnlyAfterLoss

(* A step of the handshake. *)
LEMMA StepIInv ==
  ASSUME IInv, NEW c \in Clients, NEW t \in {Client(c), Server(c)}, NEW m, NEW g,
         Step(t, m, g), Flow(Client(c))', Flow(Server(c))',
         sock' \in [Threads -> Seq(Channels \X {"dest", "ready"})],
         \A r \in Threads : r \notin {Client(c), Server(c)} => sock'[r] = sock[r],
         qp' \in [Threads -> [Channels -> {"none", "INIT", "RTS"}]],
         rq' \in [Threads -> [Channels -> Nat]],
         \A r \in Threads : r # t => qp'[r] = qp[r] /\ rq'[r] = rq[r],
         pc[t] = "connect_qp" =>
           qp'[t][chan[t]] = "RTS" /\ \A h \in Channels : h # chan[t] => qp'[t][h] = qp[t][h],
         pc[t] # "connect_qp" => qp'[t] = qp[t],
         pc[t] = "prepost" =>
           /\ rq'[t][chan[t]] = rq[t][chan[t]] + 1
           /\ \A h \in Channels : h # chan[t] => rq'[t][h] = rq[t][h],
         pc[t] # "prepost" => rq'[t] = rq[t],
         UNCHANGED <<listening, wire, unacked, cq, wc, data_inflight>>
  PROVE  IInv'
<1> USE ThreadFacts DEF IInv
<1> PICK p \in {Client(c), Server(c)} :
      p = Peer(t) /\ p # t /\ t \in Threads /\ p \in Threads /\ {Client(c), Server(c)} = {t, p}
  OBVIOUS
<1>1. /\ pc'[t] = m /\ pc'[p] = pc[p] /\ chan'[t] = g /\ chan'[p] = chan[p]
      /\ ~Serving(t) /\ (Serving(p)' <=> Serving(p))
      /\ Posture(t)' /\ Posture(p)'
      /\ pc'[Server(c)] # "accept" => connected'[c]
      /\ pc'[Client(c)] = "asleep" => ~Serving(Server(c))'
      /\ pc' \in [Threads -> ClientLabels \cup ServerLabels] /\ chan' \in [Threads -> Channels]
      /\ \A d \in Clients : pc'[Client(d)] \in ClientLabels /\ pc'[Server(d)] \in ServerLabels
      /\ \A r \in Threads : r # t => pc'[r] = pc[r] /\ chan'[r] = chan[r]
  BY StepFacts, SMTT(30)
<1>2. UNCHANGED <<up, connected>> /\ Moves(t, pc[t], chan[t], m, g)
  BY DEF Step
<1>3. Types'
  BY <1>1, <1>2 DEF Types
<1>0. Paired(t) /\ Paired(p) /\ qp'[p] = qp[p]
  <2>1. Paired(Client(c)) /\ Paired(Server(c))
    BY DEF Shake
  <2>2. QED
    BY <2>1
<1>4. Paired(p)'
  BY <1>0, <1>1 DEF Paired
<1>5. Paired(t)'
  <2>1. chan[t] \in {"data", "ctrl"} /\ Paired(t)
    BY <1>0 DEF Types, Channels
  <2>2. CASE IsServer(t)
    BY <1>1, <1>2, <2>1, <2>2 DEF Moves, ServerMove, Paired, Serving, Channels
  <2>3. CASE ~IsServer(t)
    BY <1>1, <1>2, <2>1, <2>3 DEF Moves, ClientMove, Paired, Serving, Channels
  <2>4. QED
    BY <2>2, <2>3
<1>6. Shake(c)'
  BY <1>1, <1>4, <1>5, ZenonT(30) DEF Shake
<1>7. Service(c)'
  <2>1. rq'[Server(c)] = rq[Server(c)]
    <3>1. t = Server(c) => pc[t] # "prepost"
      BY DEF Types, ServerLabels
    <3>2. QED
      BY <3>1
  <2>2. /\ t = Client(c) /\ pc[t] = "prepost" /\ chan[t] = "ctrl" =>
             rq'[Client(c)]["ctrl"] = rq[Client(c)]["ctrl"] + 1
        /\ ~(t = Client(c) /\ pc[t] = "prepost" /\ chan[t] = "ctrl") =>
             rq'[Client(c)]["ctrl"] = rq[Client(c)]["ctrl"]
    BY DEF Channels
  <2>3. QED
    BY <2>1, <2>2, ServiceStep
<1>8. ASSUME NEW d \in Clients, d # c
      PROVE  Shake(d)' /\ Service(d)'
  <2>1. /\ Client(d) \in Threads \ {Client(c), Server(c)}
        /\ Server(d) \in Threads \ {Client(c), Server(c)}
    BY <1>8
  <2>2. Same(d)
    BY <1>1, <1>2, <2>1 DEF Same, SameAt
  <2>3. Downward
    BY <1>2 DEF Downward
  <2>4. QED
    BY <2>2, <2>3, SameFrame
<1>9. QED
  BY <1>2, <1>3, <1>6, <1>7, <1>8, LossFrame

(* A process ends, and its reason was a loss. *)
LEMMA FatalLoss ==
  ASSUME IInv, NEW c \in Clients, NEW t \in {Client(c), Server(c)},
         up' = [up EXCEPT ![Proc(t)] = FALSE], connected' = connected,
         t = Server(c) => connected[c] /\ ~up[c],
         t = Client(c) => ~connected[c] \/ ~up["server"]
  PROVE  /\ FatalOnlyAfterLoss' /\ Downward
         /\ up' \in [Clients \cup {"server"} -> BOOLEAN]
<1> USE ThreadFacts DEF IInv
<1>1. up' \in [Clients \cup {"server"} -> BOOLEAN] /\ Downward
  BY DEF Types, Downward
<1>2. CASE t = Server(c)
  <2>1. up' = [up EXCEPT !["server"] = FALSE] /\ \A d \in Clients : up'[d] = up[d]
    BY <1>2, MortalAssumption, ZenonT(30) DEF Types
  <2>2. \E d \in Mortal : connected[d] /\ ~up[d]
    <3>1. CASE ~up["server"]
      BY <3>1 DEF FatalOnlyAfterLoss
    <3>2. CASE up["server"]
      BY <1>2, <3>2 DEF FatalOnlyAfterLoss
    <3>3. QED
      BY <3>1, <3>2
  <2>3. ~up'["server"]
    BY <2>1 DEF Types
  <2>4. QED
    BY <1>1, <2>1, <2>2, <2>3, MortalAssumption DEF FatalOnlyAfterLoss
<1>3. CASE t = Client(c)
  <2>1. up' = [up EXCEPT ![c] = FALSE] /\ up'["server"] = up["server"]
        /\ \A d \in Clients : d # c => up'[d] = up[d]
    BY <1>3 DEF Types
  <2>2. ~up["server"] => \E d \in Mortal : connected[d] /\ ~up'[d]
    <3> HAVE ~up["server"]
    <3>1. PICK d \in Mortal : connected[d] /\ ~up[d]
      BY DEF FatalOnlyAfterLoss
    <3>2. ~up'[d]
      BY <1>1, <3>1, MortalAssumption DEF Downward
    <3>3. QED
      BY <3>1, <3>2
  <2>3. QED
    BY <1>1, <1>3, <2>1, <2>2 DEF FatalOnlyAfterLoss
<1>4. QED
  BY <1>2, <1>3

(* LOG(FATAL) in a step that changes nothing else. *)
LEMMA FatalIInv ==
  ASSUME IInv, NEW c \in Clients, NEW t \in {Client(c), Server(c)}, Fatal(t),
         UNCHANGED <<listening, connected, sock, verbs, loop>>,
         t = Server(c) => connected[c] /\ ~up[c],
         t = Client(c) => ~connected[c] \/ ~up["server"]
  PROVE  IInv'
<1> USE DEF IInv
<1>1. UNCHANGED <<listening, connected, sock, qp, rq, wire, unacked, cq, wc, data_inflight, pc, chan>>
  BY DEF Fatal, verbs, loop
<1>2. /\ FatalOnlyAfterLoss' /\ Downward
      /\ up' \in [Clients \cup {"server"} -> BOOLEAN]
  BY <1>1, FatalLoss DEF Fatal
<1>3. Types'
  BY <1>1, <1>2 DEF Types
<1>4. ASSUME NEW d \in Clients
      PROVE  Shake(d)' /\ Service(d)'
  <2>1. Same(d)
    BY <1>1 DEF Same, SameAt
  <2>2. QED
    BY <1>2, <2>1, SameFrame
<1>5. QED
  BY <1>2, <1>3, <1>4

(* read_exact and write_exact after a reset. *)
LEMMA SleepIInv ==
  ASSUME IInv, NEW c \in Clients, NEW t \in {Client(c), Server(c)}, SleepForEver(t),
         pc[t] \in {"write_dest", "write_ready", "read_dest", "read_ready"},
         UNCHANGED <<listening, connected, sock, verbs, loop>>
  PROVE  IInv'
<1> USE DEF IInv
<1> PICK p \in {Client(c), Server(c)} :
      /\ p = Peer(t) /\ p # t /\ Peer(p) = t /\ {Client(c), Server(c)} = {t, p}
      /\ t \in Threads /\ p \in Threads
  BY ThreadFacts
<1>1. /\ UNCHANGED <<listening, connected, sock, qp, rq, wire, unacked, cq, wc, data_inflight, chan, up>>
      /\ pc' = [pc EXCEPT ![t] = "asleep"] /\ PeerGone(t)
  BY DEF SleepForEver, Reset, Goto, verbs, loop
<1>2. pc'[t] = "asleep" /\ \A r \in Threads : r # t => pc'[r] = pc[r]
  BY <1>1 DEF Types
<1>3. Types'
  <2>1. pc' \in [Threads -> ClientLabels \cup ServerLabels]
    BY <1>1 DEF Types, ClientLabels
  <2>2. ASSUME NEW d \in Clients
        PROVE  pc'[Client(d)] \in ClientLabels /\ pc'[Server(d)] \in ServerLabels
    <3>1. /\ pc'[Client(d)] = pc[Client(d)] \/ pc'[Client(d)] = "asleep"
          /\ pc'[Server(d)] = pc[Server(d)] \/ pc'[Server(d)] = "asleep"
      BY <1>2, ThreadFacts
    <3>2. QED
      BY <3>1 DEF Types, ClientLabels, ServerLabels
  <2>3. QED
    BY <1>1, <2>1, <2>2 DEF Types
<1>4. /\ ~Serving(t) /\ ~Serving(t)' /\ (Serving(p)' <=> Serving(p))
      /\ \A r : PeerGone(r)' <=> PeerGone(r)
  BY <1>1, <1>2 DEF Serving, PeerGone
<1>5. ~Serving(Client(c)) => ~Serving(Server(c))
  BY ServingBoth
<1>6. Shake(c)'
  <2>1. Flow(t)' /\ Flow(p)'
    <3>1. Flow(t)'
      BY <1>2 DEF Flow
    <3>2. ReadBy(p)' = ReadBy(p) /\ pc'[p] = pc[p]
      BY <1>1, <1>2 DEF ReadBy
    <3>3. Flow(p)
      BY DEF Shake
    <3>4. Flow(p)'
      BY <3>2, <3>3, <1>1, <1>2 DEF Flow
    <3>5. QED
      BY <3>1, <3>4
  <2>2. Posture(t) /\ Posture(p) /\ Paired(t) /\ Paired(p)
    <3>1. /\ Posture(Client(c)) /\ Posture(Server(c))
          /\ Paired(Client(c)) /\ Paired(Server(c))
      BY DEF Shake
    <3>2. QED
      BY <3>1
  <2>3. Posture(t)' /\ Posture(p)'
    BY <1>1, <1>2, <1>4, <2>2 DEF Posture
  <2>4. Paired(t)' /\ Paired(p)'
    BY <1>1, <1>2, <1>4, <2>2 DEF Paired
  <2>5. pc'[Server(c)] # "accept" => connected'[c]
    BY <1>1, <1>2, ThreadFacts DEF Shake
  <2>6. pc'[Client(c)] = "asleep" => ~Serving(Server(c))'
    <3>1. CASE t = Client(c)
      BY <3>1, <1>4, <1>5
    <3>2. CASE t = Server(c)
      BY <3>2, <1>4
    <3>3. QED
      BY <3>1, <3>2
  <2>7. QED
    BY <2>1, <2>3, <2>4, <2>5, <2>6 DEF Shake
<1>7. Service(c)'
  <2>1. /\ CtrlSent(c)' <=> CtrlSent(c)
        /\ CtrlHere(c)' <=> CtrlHere(c)
        /\ DataSent(c)' <=> DataSent(c)
        /\ DataHere(c)' <=> DataHere(c)
    BY <1>1 DEF CtrlSent, CtrlHere, DataSent, DataHere
  <2>2. ~Serving(Server(c))
    BY <1>4, <1>5
  <2>3. ~CtrlSent(c) /\ ~CtrlHere(c) /\ ~AtClient(c) /\ ~DataSent(c) /\ ~DataHere(c)
    BY <2>2 DEF Service, Token
  <2>4. ~AtClient(c)' /\ (Handling(c)' <=> Handling(c))
    BY <1>1, <1>2, <2>3, ThreadFacts DEF AtClient, Handling
  <2>5. Token(c)'
    BY <2>1, <2>3, <2>4 DEF Token
  <2>6. /\ pc'[Client(c)] = pc[Client(c)] \/ (pc'[Client(c)] = "asleep" /\ ~Serving(Client(c)))
        /\ pc'[Server(c)] = pc[Server(c)] \/ pc'[Server(c)] = "asleep"
    BY <1>2, <1>4, ThreadFacts
  <2>7. Completions(c)'
    <3>1. (ServerAwaits(c) => ServerAwaits(c)') /\ (ClientAwaits(c) => ClientAwaits(c)')
      BY <1>1, <2>2, <2>6, ThreadFacts DEF ServerAwaits, ClientAwaits, Serving
    <3>2. Own(Server(c), "ctrl", ServerAwaits(c))' /\ Own(Client(c), "data", ClientAwaits(c))'
      BY <1>1, <1>4, <3>1 DEF Service, Completions, Own
    <3>3. QED
      BY <1>1, <1>4, <2>6, <3>2 DEF Service, Completions
  <2>8. Receives(c)'
    <3>1. /\ pc[Server(c)] \notin {"send", "wait_ctrl", "wait_data"}
          /\ pc'[Server(c)] \notin {"send", "wait_ctrl", "wait_data"}
      BY <2>2, <2>6, ThreadFacts DEF Serving
    <3>2. CASE t = Client(c)
      BY <3>1, <3>2, <1>1, <1>2, <1>4 DEF Service, Receives
    <3>3. CASE t = Server(c)
      <4>1. p = Client(c)
        BY <3>3
      <4>2. QED
        BY <3>1, <4>1, <1>1, <1>2, <1>4, <2>1, <2>4 DEF Service, Receives
    <3>4. QED
      BY <3>2, <3>3
  <2>9. QED
    BY <2>5, <2>7, <2>8 DEF Service
<1>8. ASSUME NEW d \in Clients, d # c
      PROVE  Shake(d)' /\ Service(d)'
  <2>1. /\ Client(d) \in Threads \ {Client(c), Server(c)}
        /\ Server(d) \in Threads \ {Client(c), Server(c)}
    BY <1>8, ThreadFacts
  <2>2. Same(d) /\ Downward
    BY <1>1, <1>2, <2>1 DEF Same, SameAt, Downward
  <2>3. QED
    BY <2>2, SameFrame
<1>9. QED
  BY <1>1, <1>3, <1>6, <1>7, <1>8, LossFrame

(* An Advance of a thread is a Step. *)
LEMMA AdvanceStep ==
  ASSUME Types, NEW c \in Clients, NEW t \in {Client(c), Server(c)}, Advance(t), up[Proc(t)],
         connected' = connected,
         pc[t] \in {"write_dest", "write_ready", "read_dest", "read_ready", "connect_qp", "prepost"}
  PROVE  \E m, g : Step(t, m, g)
<1>1. t \in Threads
  BY ThreadFacts
<1>2. pc[t] \in {Steps(t)[k] : k \in DOMAIN Steps(t)}
  <2>1. CASE t = Client(c)
    <3>1. pc[t] \in {"write_dest", "read_dest", "connect_qp", "prepost", "write_ready"}
      BY <2>1 DEF Types, ClientLabels
    <3>2. Steps(t) = <<"write_dest", "read_dest", "connect_qp", "prepost", "write_ready">>
      BY <2>1, ThreadFacts DEF Steps
    <3>3. QED
      BY <3>1, <3>2
  <2>2. CASE t = Server(c)
    <3>1. pc[t] \in {"read_dest", "connect_qp", "write_dest", "read_ready"}
      BY <2>2 DEF Types, ServerLabels
    <3>2. Steps(t) = <<"read_dest", "connect_qp", "write_dest", "read_ready">>
      BY <2>2, ThreadFacts DEF Steps
    <3>3. QED
      BY <3>1, <3>2
  <2>3. QED
    BY <2>1, <2>2
<1>3. QED
  BY <1>1, <1>2, AdvanceFacts DEF Step

(* A server thread that is past accept has a connection. *)
LEMMA ThreadConnected ==
  ASSUME IInv, NEW c \in Clients, NEW t \in {Client(c), Server(c)}
  PROVE  /\ t = Server(c) /\ pc[t] # "accept" => connected[c]
         /\ t = Server(c) => (PeerGone(t) <=> ~up[c])
         /\ t = Client(c) => (PeerGone(t) <=> ~up["server"])
         /\ t[1] = c
  BY ThreadFacts DEF IInv, Shake, PeerGone

(* write_exact: the write, the sleep, or the end of the process. *)
LEMMA WriteIInv ==
  ASSUME IInv, NEW c \in Clients, NEW t \in {Client(c), Server(c)}, Write(t)
  PROVE  IInv'
<1>1. /\ up[Proc(t)] /\ pc[t] \in {"write_dest", "write_ready"}
      /\ UNCHANGED <<listening, connected, verbs, loop>>
  BY DEF Write, At
<1>2. ASSUME sock' = [sock EXCEPT ![Peer(t)] =
               Append(@, <<chan[t], IF pc[t] = "write_dest" THEN "dest" ELSE "ready">>)],
             Advance(t)
      PROVE  IInv'
  <2>0. Types /\ Shake(c) /\ t \in Threads /\ Peer(t) \in {Client(c), Server(c)}
    BY ThreadFacts DEF IInv
  <2>1. PICK m, g : Step(t, m, g)
    BY <1>1, <1>2, <2>0, AdvanceStep
  <2>2. /\ Flow(Client(c))' /\ Flow(Server(c))'
        /\ sock' \in [Threads -> Seq(Channels \X {"dest", "ready"})]
    BY <1>1, <1>2, <2>0, <2>1, FlowWrite
  <2>3. \A r \in Threads : r \notin {Client(c), Server(c)} => sock'[r] = sock[r]
    BY <1>2, <2>0 DEF Types
  <2>4. /\ UNCHANGED <<listening, qp, rq, wire, unacked, cq, wc, data_inflight>>
        /\ qp' \in [Threads -> [Channels -> {"none", "INIT", "RTS"}]]
        /\ rq' \in [Threads -> [Channels -> Nat]]
        /\ pc[t] # "connect_qp" /\ pc[t] # "prepost"
    BY <1>1, <2>0 DEF verbs, loop, Types
  <2>5. QED
    BY <2>1, <2>2, <2>3, <2>4, StepIInv
<1>3. ASSUME SleepForEver(t), UNCHANGED sock
      PROVE  IInv'
  BY <1>1, <1>3, SleepIInv
<1>4. ASSUME connected[t[1]] => Reset(t), Fatal(t), UNCHANGED sock
      PROVE  IInv'
  <2>1. /\ t = Server(c) => connected[c] /\ ~up[c]
        /\ t = Client(c) => ~connected[c] \/ ~up["server"]
    BY <1>1, <1>4, ThreadConnected DEF Reset
  <2>2. QED
    BY <1>1, <1>4, <2>1, FatalIInv
<1>5. QED
  BY <1>2, <1>3, <1>4 DEF Write

(* read_exact: the wrong answer never comes, so only a lost peer is fatal. *)
LEMMA ReadIInv ==
  ASSUME IInv, NEW c \in Clients, NEW t \in {Client(c), Server(c)}, Read(t)
  PROVE  IInv'
<1>1. /\ up[Proc(t)] /\ pc[t] \in {"read_dest", "read_ready"}
      /\ UNCHANGED <<listening, connected, verbs, loop>>
  BY DEF Read, At
<1>2. ASSUME sock[t] # << >>, sock' = [sock EXCEPT ![t] = Tail(@)],
             IF pc[t] = "read_ready" /\ Head(sock[t])[2] # "ready" THEN Fatal(t) ELSE Advance(t)
      PROVE  IInv'
  <2>0. Types /\ Shake(c) /\ t \in Threads /\ Peer(t) \in {Client(c), Server(c)}
    BY ThreadFacts DEF IInv
  <2>1. Advance(t)
    <3>1. Head(sock[t]) = <<chan[t], IF pc[t] = "read_dest" THEN "dest" ELSE "ready">>
      BY <1>1, <1>2, <2>0, ReadExpected
    <3>2. pc[t] = "read_ready" => Head(sock[t])[2] = "ready"
      BY <3>1
    <3>3. QED
      BY <1>2, <3>2
  <2>2. PICK m, g : Step(t, m, g)
    BY <1>1, <2>0, <2>1, AdvanceStep
  <2>3. /\ Flow(Client(c))' /\ Flow(Server(c))'
        /\ sock' \in [Threads -> Seq(Channels \X {"dest", "ready"})]
    BY <1>1, <1>2, <2>0, <2>2, FlowRead
  <2>4. \A r \in Threads : r \notin {Client(c), Server(c)} => sock'[r] = sock[r]
    BY <1>2, <2>0 DEF Types
  <2>5. /\ UNCHANGED <<listening, qp, rq, wire, unacked, cq, wc, data_inflight>>
        /\ qp' \in [Threads -> [Channels -> {"none", "INIT", "RTS"}]]
        /\ rq' \in [Threads -> [Channels -> Nat]]
        /\ pc[t] # "connect_qp" /\ pc[t] # "prepost"
    BY <1>1, <2>0 DEF verbs, loop, Types
  <2>6. QED
    BY <2>2, <2>3, <2>4, <2>5, StepIInv
<1>3. ASSUME PeerGone(t), Fatal(t), UNCHANGED sock
      PROVE  IInv'
  <2>1. /\ t = Server(c) => connected[c] /\ ~up[c]
        /\ t = Client(c) => ~connected[c] \/ ~up["server"]
    BY <1>1, <1>3, ThreadConnected
  <2>2. QED
    BY <1>1, <1>3, <2>1, FatalIInv
<1>4. ASSUME SleepForEver(t), UNCHANGED sock
      PROVE  IInv'
  BY <1>1, <1>4, SleepIInv
<1>5. QED
  BY <1>2, <1>3, <1>4 DEF Read

(* A queue pair goes to RTS. *)
LEMMA ConnectQpIInv ==
  ASSUME IInv, NEW c \in Clients, NEW t \in {Client(c), Server(c)}, ConnectQp(t)
  PROVE  IInv'
<1>0. Types /\ Shake(c) /\ t \in Threads
  BY ThreadFacts DEF IInv
<1>1. /\ up[Proc(t)] /\ pc[t] = "connect_qp" /\ Advance(t)
      /\ UNCHANGED <<listening, connected, sock, rq, wire, unacked, cq, wc, data_inflight>>
      /\ qp' = [qp EXCEPT ![t][chan[t]] = "RTS"]
  BY DEF ConnectQp, At, loop
<1>2. PICK m, g : Step(t, m, g)
  BY <1>0, <1>1, AdvanceStep
<1>3. Flow(Client(c))' /\ Flow(Server(c))'
  BY <1>0, <1>1, <1>2, FlowStill
<1>4. /\ qp' \in [Threads -> [Channels -> {"none", "INIT", "RTS"}]]
      /\ \A r \in Threads : r # t => qp'[r] = qp[r]
      /\ qp'[t][chan[t]] = "RTS"
      /\ \A h \in Channels : h # chan[t] => qp'[t][h] = qp[t][h]
  BY <1>0, <1>1 DEF Types
<1>5. /\ rq' \in [Threads -> [Channels -> Nat]]
      /\ sock' \in [Threads -> Seq(Channels \X {"dest", "ready"})]
      /\ \A r \in Threads : rq'[r] = rq[r] /\ sock'[r] = sock[r]
  BY <1>0, <1>1 DEF Types
<1>6. QED
  BY <1>0, <1>1, <1>2, <1>3, <1>4, <1>5, StepIInv

(* The client posts a receive before it says "Ready". *)
LEMMA PrePostIInv ==
  ASSUME IInv, NEW c \in Clients, NEW t \in {Client(c), Server(c)}, PrePost(t)
  PROVE  IInv'
<1>0. Types /\ Shake(c) /\ t \in Threads
  BY ThreadFacts DEF IInv
<1>1. /\ up[Proc(t)] /\ pc[t] = "prepost" /\ Advance(t)
      /\ UNCHANGED <<listening, connected, sock, qp, wire, unacked, cq, wc, data_inflight>>
      /\ rq' = [rq EXCEPT ![t][chan[t]] = @ + 1]
  BY DEF PrePost, At, loop
<1>2. PICK m, g : Step(t, m, g)
  BY <1>0, <1>1, AdvanceStep
<1>3. Flow(Client(c))' /\ Flow(Server(c))'
  BY <1>0, <1>1, <1>2, FlowStill
<1>4. /\ rq' \in [Threads -> [Channels -> Nat]]
      /\ \A r \in Threads : r # t => rq'[r] = rq[r]
      /\ rq'[t][chan[t]] = rq[t][chan[t]] + 1
      /\ \A h \in Channels : h # chan[t] => rq'[t][h] = rq[t][h]
  BY <1>0, <1>1 DEF Types
<1>5. /\ qp' \in [Threads -> [Channels -> {"none", "INIT", "RTS"}]]
      /\ sock' \in [Threads -> Seq(Channels \X {"dest", "ready"})]
      /\ \A r \in Threads : qp'[r] = qp[r] /\ sock'[r] = sock[r]
  BY <1>0, <1>1 DEF Types
<1>6. QED
  BY <1>0, <1>1, <1>2, <1>3, <1>4, <1>5, StepIInv

(* A thread begins its handshake. *)
LEMMA BeginIInv ==
  ASSUME IInv, NEW c \in Clients, NEW t \in {Client(c), Server(c)}, NEW m,
         pc[t] = (IF IsServer(t) THEN "accept" ELSE "connect"),
         m = (IF IsServer(t) THEN "read_dest" ELSE "write_dest"),
         pc' = [pc EXCEPT ![t] = m], InitChannels(t),
         connected' \in [Clients -> BOOLEAN], \A d \in Clients : d # c => connected'[d] = connected[d],
         connected[c] \/ t = Server(c) => connected'[c], FatalOnlyAfterLoss',
         UNCHANGED <<procs, chan, sock, rq, wire, unacked, cq, loop>>
  PROVE  IInv'
<1> USE DEF IInv
<1> PICK p \in {Client(c), Server(c)} :
      /\ p = Peer(t) /\ p # t /\ Peer(p) = t /\ {Client(c), Server(c)} = {t, p}
      /\ t \in Threads /\ p \in Threads /\ (t = Client(c) <=> ~IsServer(t)) /\ (t = Server(c) <=> IsServer(t))
  BY ThreadFacts
<1>1. UNCHANGED <<up, listening, chan, sock, rq, wire, unacked, cq, wc, data_inflight>>
  BY DEF procs, loop
<1>2. pc'[t] = m /\ \A r \in Threads : r # t => pc'[r] = pc[r]
  BY DEF Types
<1>3. /\ qp' \in [Threads -> [Channels -> {"none", "INIT", "RTS"}]]
      /\ \A r \in Threads : r # t => qp'[r] = qp[r]
  BY DEF Types, InitChannels
<1>4. Types'
  <2>1. pc' \in [Threads -> ClientLabels \cup ServerLabels]
    BY DEF Types, ClientLabels
  <2>2. ASSUME NEW d \in Clients
        PROVE  pc'[Client(d)] \in ClientLabels /\ pc'[Server(d)] \in ServerLabels
    <3>1. CASE d = c
      BY <1>2, <3>1, ThreadFacts DEF Types, ClientLabels, ServerLabels
    <3>2. CASE d # c
      <4>1. Client(d) \in Threads \ {t} /\ Server(d) \in Threads \ {t}
        BY <3>2, ThreadFacts
      <4>2. QED
        BY <1>2, <4>1 DEF Types
    <3>3. QED
      BY <3>1, <3>2
  <2>3. QED
    BY <1>1, <1>3, <2>1, <2>2 DEF Types
<1>5. /\ ~Serving(t) /\ ~Serving(t)' /\ (Serving(p)' <=> Serving(p))
      /\ \A r : PeerGone(r)' <=> PeerGone(r)
  BY <1>1, <1>2 DEF Serving, PeerGone
<1>6. /\ Posture(t) /\ Posture(p) /\ Paired(t) /\ Paired(p) /\ Flow(t) /\ Flow(p)
  <2>1. /\ Posture(Client(c)) /\ Posture(Server(c)) /\ Paired(Client(c)) /\ Paired(Server(c))
        /\ Flow(Client(c)) /\ Flow(Server(c))
    BY DEF Shake
  <2>2. QED
    BY <2>1
<1>7. chan[t] = "data"
  BY <1>6 DEF Posture
<1>8. Shake(c)'
  <2>1. /\ ReadBy(t)' = ReadBy(t) /\ WroteBy(t)' = WroteBy(t)
        /\ ReadBy(p)' = ReadBy(p) /\ WroteBy(p)' = WroteBy(p)
    BY <1>1, <1>2 DEF ReadBy, WroteBy, ReadAt, WroteAt
  <2>2. pc[t] # "asleep" /\ pc'[t] # "asleep" /\ pc'[p] = pc[p]
    BY <1>2
  <2>3. Flow(t)' /\ Flow(p)'
    BY <1>1, <1>6, <2>1, <2>2 DEF Flow
  <2>4. Posture(t)' /\ Posture(p)'
    BY <1>1, <1>2, <1>5, <1>6 DEF Posture
  <2>5. Paired(p)'
    BY <1>1, <1>2, <1>3, <1>5, <1>6 DEF Paired
  <2>6. Paired(t)'
    BY <1>1, <1>2, <1>5, <1>7 DEF Paired
  <2>7. pc'[Server(c)] # "accept" => connected'[c]
    BY <1>2, ThreadFacts DEF Shake
  <2>8. pc'[Client(c)] = "asleep" => ~Serving(Server(c))'
    <3>1. CASE t = Client(c)
      BY <3>1, <2>2
    <3>2. CASE t = Server(c)
      BY <3>2, <1>5
    <3>3. QED
      BY <3>1, <3>2
  <2>9. QED
    BY <2>3, <2>4, <2>5, <2>6, <2>7, <2>8 DEF Shake
<1>9. Service(c)'
  <2>1. /\ CtrlSent(c)' <=> CtrlSent(c)
        /\ CtrlHere(c)' <=> CtrlHere(c)
        /\ DataSent(c)' <=> DataSent(c)
        /\ DataHere(c)' <=> DataHere(c)
    BY <1>1 DEF CtrlSent, CtrlHere, DataSent, DataHere
  <2>2. ~Serving(Server(c))
    <3>1. CASE t = Server(c)
      BY <3>1, <1>5
    <3>2. CASE t = Client(c)
      BY <3>2, <1>5, ServingBoth
    <3>3. QED
      BY <3>1, <3>2
  <2>3. ~CtrlSent(c) /\ ~CtrlHere(c) /\ ~AtClient(c) /\ ~DataSent(c) /\ ~DataHere(c)
    BY <2>2 DEF Service, Token
  <2>4. ~AtClient(c)' /\ (Handling(c)' <=> Handling(c))
    BY <1>1, <1>2, <2>3, ThreadFacts DEF AtClient, Handling
  <2>5. Token(c)'
    BY <2>1, <2>3, <2>4 DEF Token
  <2>6. /\ pc'[Client(c)] = pc[Client(c)] \/ (pc[Client(c)] = "connect" /\ pc'[Client(c)] = "write_dest")
        /\ pc'[Server(c)] = pc[Server(c)] \/ (pc[Server(c)] = "accept" /\ pc'[Server(c)] = "read_dest")
    BY <1>2, ThreadFacts
  <2>7. Completions(c)'
    <3>1. (ServerAwaits(c)' <=> ServerAwaits(c)) /\ (ClientAwaits(c)' <=> ClientAwaits(c))
      BY <1>1, <2>6 DEF ServerAwaits, ClientAwaits
    <3>2. Own(Server(c), "ctrl", ServerAwaits(c))' /\ Own(Client(c), "data", ClientAwaits(c))'
      BY <1>1, <1>5, <3>1 DEF Service, Completions, Own
    <3>3. QED
      BY <1>1, <1>5, <2>6, <3>2 DEF Service, Completions
  <2>8. Receives(c)'
    <3>1. /\ pc[Server(c)] \notin {"send", "wait_ctrl", "wait_data"}
          /\ pc'[Server(c)] \notin {"send", "wait_ctrl", "wait_data"}
      BY <2>2, <2>6, ThreadFacts DEF Serving
    <3>2. CASE t = Client(c)
      BY <3>1, <3>2, <1>1, <1>2, <1>5, <1>7 DEF Service, Receives
    <3>3. CASE t = Server(c)
      <4>1. p = Client(c)
        BY <3>3
      <4>2. QED
        BY <3>1, <4>1, <1>1, <1>2, <1>5, <2>1, <2>4 DEF Service, Receives
    <3>4. QED
      BY <3>2, <3>3
  <2>9. QED
    BY <2>5, <2>7, <2>8 DEF Service
<1>10. ASSUME NEW d \in Clients, d # c
       PROVE  Shake(d)' /\ Service(d)'
  <2>1. /\ Client(d) \in Threads \ {Client(c), Server(c)}
        /\ Server(d) \in Threads \ {Client(c), Server(c)}
    BY <1>10, ThreadFacts
  <2>2. Same(d) /\ Downward
    BY <1>1, <1>2, <1>3, <1>10, <2>1 DEF Same, SameAt, Downward
  <2>3. QED
    BY <2>2, SameFrame
<1>11. QED
  BY <1>4, <1>8, <1>9, <1>10

(* pre_connecting succeeds. *)
LEMMA ConnectIInv ==
  ASSUME IInv, NEW c \in Clients, Connect(c)
  PROVE  IInv'
<1>1. /\ pc[Client(c)] = "connect" /\ up[c] /\ up["server"] /\ InitChannels(Client(c))
      /\ connected' = [connected EXCEPT ![c] = TRUE] /\ pc' = [pc EXCEPT ![Client(c)] = "write_dest"]
      /\ UNCHANGED <<procs, chan, sock, rq, wire, unacked, cq, loop>>
  BY ThreadFacts DEF Connect, At, Goto
<1>2. /\ connected' \in [Clients -> BOOLEAN] /\ connected'[c]
      /\ \A d \in Clients : d # c => connected'[d] = connected[d]
  BY <1>1 DEF IInv, Types
<1>3. FatalOnlyAfterLoss'
  BY <1>1, <1>2 DEF IInv, FatalOnlyAfterLoss, procs
<1>4. ~IsServer(Client(c)) /\ Client(c) # Server(c)
  BY ThreadFacts
<1>5. QED
  BY <1>1, <1>2, <1>3, <1>4, BeginIInv

(* All retries fail. *)
LEMMA ConnectTimeoutIInv ==
  ASSUME IInv, NEW c \in Clients, ConnectTimeout(c)
  PROVE  IInv'
<1>1. /\ pc[Client(c)] = "connect" /\ InitChannels(Client(c))
      /\ connected' = connected /\ pc' = [pc EXCEPT ![Client(c)] = "write_dest"]
      /\ UNCHANGED <<procs, chan, sock, rq, wire, unacked, cq, loop>>
  BY DEF ConnectTimeout, At, Goto
<1>2. connected' \in [Clients -> BOOLEAN]
  BY <1>1 DEF IInv, Types
<1>3. FatalOnlyAfterLoss'
  BY <1>1, LossFrame DEF IInv, procs
<1>4. ~IsServer(Client(c)) /\ Client(c) # Server(c)
  BY ThreadFacts
<1>5. QED
  BY <1>1, <1>2, <1>3, <1>4, BeginIInv

(* The server accepts. *)
LEMMA AcceptIInv ==
  ASSUME IInv, NEW c \in Clients, Accept(c)
  PROVE  IInv'
<1>1. /\ pc[Server(c)] = "accept" /\ InitChannels(Server(c)) /\ connected[c]
      /\ connected' = connected /\ pc' = [pc EXCEPT ![Server(c)] = "read_dest"]
      /\ UNCHANGED <<procs, chan, sock, rq, wire, unacked, cq, loop>>
  BY DEF Accept, At, Goto
<1>2. connected' \in [Clients -> BOOLEAN]
  BY <1>1 DEF IInv, Types
<1>3. FatalOnlyAfterLoss'
  BY <1>1, LossFrame DEF IInv, procs
<1>4. IsServer(Server(c))
  BY ThreadFacts
<1>5. QED
  BY <1>1, <1>2, <1>3, <1>4, BeginIInv

(* The server listens. *)
LEMMA ListenIInv ==
  ASSUME IInv, Listen
  PROVE  IInv'
<1> USE DEF IInv
<1>1. /\ listening' = TRUE
      /\ UNCHANGED <<up, pc, chan, connected, sock, qp, rq, wire, unacked, cq, wc, data_inflight>>
  BY DEF Listen, verbs, loop
<1>2. Types'
  BY <1>1 DEF Types
<1>3. ASSUME NEW d \in Clients
      PROVE  Shake(d)' /\ Service(d)'
  <2>1. Same(d) /\ Downward
    BY <1>1 DEF Same, SameAt, Downward
  <2>2. QED
    BY <2>1, SameFrame
<1>4. QED
  BY <1>1, <1>2, <1>3, LossFrame

(* A client is killed. *)
LEMMA DieIInv ==
  ASSUME IInv, NEW c \in Clients, Die(c)
  PROVE  IInv'
<1> USE DEF IInv
<1>1. /\ c \in Mortal /\ up' = [up EXCEPT ![c] = FALSE]
      /\ UNCHANGED <<listening, pc, chan, connected, sock, qp, rq, wire, unacked, cq, wc, data_inflight>>
  BY DEF Die, verbs, loop
<1>2. Types' /\ Downward
  BY <1>1 DEF Types, Downward
<1>3. ASSUME NEW d \in Clients
      PROVE  Shake(d)' /\ Service(d)'
  <2>1. Same(d)
    BY <1>1 DEF Same, SameAt
  <2>2. QED
    BY <1>2, <2>1, SameFrame
<1>4. /\ up'["server"] = up["server"] /\ \A d \in Clients \ Mortal : up'[d] = up[d]
      /\ \A d \in Mortal : ~up[d] => ~up'[d]
  BY <1>1, MortalAssumption DEF Types
<1>5. FatalOnlyAfterLoss'
  BY <1>1, <1>4 DEF FatalOnlyAfterLoss
<1>6. QED
  BY <1>2, <1>3, <1>5

(* Initially. *)
LEMMA InitIInv == Init => IInv
<1> SUFFICES ASSUME Init PROVE IInv
  OBVIOUS
<1> USE DEF Init
<1>1. /\ \A t \in Threads, h \in Channels :
           /\ qp[t][h] = "none" /\ rq[t][h] = 0 /\ wire[t][h] = 0 /\ unacked[t][h] = 0
           /\ cq[t][h] = << >> /\ wc[t][h] = "none"
  BY DEF PerChannel
<1>2. "data" \in Channels /\ "ctrl" \in Channels
  BY DEF Channels
<1>3. Types
  <2>1. /\ qp \in [Threads -> [Channels -> {"none", "INIT", "RTS"}]]
        /\ rq \in [Threads -> [Channels -> Nat]] /\ wire \in [Threads -> [Channels -> Nat]]
        /\ unacked \in [Threads -> [Channels -> Nat]]
        /\ wc \in [Threads -> [Channels -> Kinds \cup {"none"}]]
    BY DEF PerChannel
  <2>2. cq \in [Threads -> [Channels -> Seq(Kinds)]]
    BY EmptySeq DEF PerChannel
  <2>3. sock \in [Threads -> Seq(Channels \X {"dest", "ready"})]
    BY EmptySeq
  <2>4. \A c \in Clients : pc[Client(c)] \in ClientLabels /\ pc[Server(c)] \in ServerLabels
    BY ThreadFacts DEF ClientLabels, ServerLabels
  <2>5. QED
    BY <1>2, <2>1, <2>2, <2>3, <2>4 DEF Types, ClientLabels, ServerLabels
<1>4. ASSUME NEW c \in Clients
      PROVE  Shake(c) /\ Service(c)
  <2> USE ThreadFacts
  <2>1. /\ pc[Client(c)] = "connect" /\ pc[Server(c)] = "accept"
        /\ chan[Client(c)] = "data" /\ chan[Server(c)] = "data"
        /\ sock[Client(c)] = << >> /\ sock[Server(c)] = << >>
    OBVIOUS
  <2>2. /\ ReadBy(Client(c)) = 0 /\ ReadBy(Server(c)) = 0
        /\ WroteBy(Client(c)) = 0 /\ WroteBy(Server(c)) = 0
    BY <2>1 DEF ReadBy, WroteBy, ReadAt, WroteAt
  <2>3. Len(Script(Client(c))) \in Nat /\ Len(Script(Server(c))) \in Nat
    BY <1>3, CountTypes
  <2>4. Flow(Client(c)) /\ Flow(Server(c))
    BY <2>1, <2>2, <2>3 DEF Flow
  <2>5. ~Serving(Client(c)) /\ ~Serving(Server(c))
    BY <2>1 DEF Serving
  <2>6. Shake(c)
    BY <2>1, <2>4, <2>5 DEF Shake, Posture, Paired
  <2>7. ~AtServer(c) /\ ~CtrlSent(c) /\ ~CtrlHere(c) /\ ~AtClient(c) /\ ~DataSent(c) /\ ~DataHere(c)
    BY <1>1, <1>2, <2>1 DEF AtServer, CtrlSent, CtrlHere, AtClient, DataSent, DataHere, Handling
  <2>8. Token(c)
    BY <2>7 DEF Token
  <2>9. Completions(c)
    <3>1. \A h \in {"data", "ctrl"} :
            /\ wire[Client(c)][h] = 0 /\ unacked[Client(c)][h] = 0 /\ cq[Client(c)][h] = << >>
            /\ wire[Server(c)][h] = 0 /\ unacked[Server(c)][h] = 0 /\ cq[Server(c)][h] = << >>
            /\ wc[Client(c)][h] = "none" /\ wc[Server(c)][h] = "none"
      BY <1>1, <1>2
    <3>2. << >> # <<"ERR">>
      OBVIOUS
    <3> HIDE DEF Init
    <3>3. Own(Server(c), "ctrl", ServerAwaits(c)) /\ Own(Client(c), "data", ClientAwaits(c))
      <4>1. /\ wire[Peer(Server(c))]["ctrl"] = 0 /\ unacked[Server(c)]["ctrl"] = 0
            /\ cq[Server(c)]["ctrl"] = << >>
            /\ wire[Peer(Client(c))]["data"] = 0 /\ unacked[Client(c)]["data"] = 0
            /\ cq[Client(c)]["data"] = << >>
        BY <3>1
      <4>2. Own(Server(c), "ctrl", ServerAwaits(c))
        BY <4>1, <3>2 DEF Own
      <4>3. Own(Client(c), "data", ClientAwaits(c))
        BY <4>1, <3>2 DEF Own
      <4>4. QED
        BY <4>2, <4>3
    <3>4. QED
      BY <2>1, <3>1, <3>3 DEF Completions
  <2>10. Receives(c)
    BY <1>1, <1>2, <2>1, <2>5 DEF Receives
  <2>11. QED
    BY <2>6, <2>8, <2>9, <2>10 DEF Service
<1>5. FatalOnlyAfterLoss
  BY MortalAssumption DEF FatalOnlyAfterLoss
<1>6. QED
  BY <1>3, <1>4, <1>5 DEF IInv

-----------------------------------------------------------------------------
(* The service. *)

ServiceLabels(t) ==
  IF IsServer(t) THEN {"post_recv", "send", "wait_ctrl", "wait_data", "decide"}
                 ELSE {"wait_data", "wait_ctrl", "handle", "write"}

(* Thread t goes from one step of its service to the next, or nowhere. *)
Serve(t, m) ==
  /\ pc' = [pc EXCEPT ![t] = m]
  /\ (Serving(t) /\ m \in ServiceLabels(t)) \/ m = pc[t]
  /\ UNCHANGED <<listening, chan, connected, sock, qp>>

(* The handshake is over, or untouched. *)
LEMMA ServeShake ==
  ASSUME Types, Downward, NEW c \in Clients, NEW t \in {Client(c), Server(c)}, NEW m,
         Serve(t, m), Shake(c)
  PROVE  /\ Shake(c)' /\ pc'[t] = m /\ \A r \in Threads : r # t => pc'[r] = pc[r]
         /\ Serving(Client(c))' <=> Serving(Client(c))
         /\ Serving(Server(c))' <=> Serving(Server(c))
         /\ PeerGone(Client(c)) => PeerGone(Client(c))'
         /\ PeerGone(Server(c)) => PeerGone(Server(c))'
         /\ pc' \in [Threads -> ClientLabels \cup ServerLabels]
         /\ \A d \in Clients : pc'[Client(d)] \in ClientLabels /\ pc'[Server(d)] \in ServerLabels
<1> PICK p \in {Client(c), Server(c)} :
      /\ p = Peer(t) /\ p # t /\ Peer(p) = t /\ {Client(c), Server(c)} = {t, p}
      /\ t \in Threads /\ p \in Threads /\ (t = Client(c) <=> ~IsServer(t)) /\ (t = Server(c) <=> IsServer(t))
  BY ThreadFacts
<1>1. /\ pc' = [pc EXCEPT ![t] = m] /\ UNCHANGED <<listening, chan, connected, sock, qp>>
      /\ (Serving(t) /\ m \in ServiceLabels(t)) \/ m = pc[t]
  BY DEF Serve
<1>2. pc'[t] = m /\ \A r \in Threads : r # t => pc'[r] = pc[r]
  BY <1>1 DEF Types
<1>3. /\ PeerGone(Client(c)) => PeerGone(Client(c))'
      /\ PeerGone(Server(c)) => PeerGone(Server(c))'
  BY ThreadFacts DEF PeerGone, Downward
<1>4. /\ Serving(t)' <=> Serving(t)
      /\ Serving(p)' <=> Serving(p)
      /\ pc'[t] = pc[t] \/ (pc[t] \in ServiceLabels(t) /\ pc'[t] \in ServiceLabels(t))
  <2>1. \A r : (Serving(r) <=> pc[r] \in ServiceLabels(r)) /\ (Serving(r)' <=> pc'[r] \in ServiceLabels(r))
    BY DEF Serving, ServiceLabels
  <2>2. pc'[p] = pc[p]
    BY <1>2
  <2>3. QED
    BY <1>1, <1>2, <2>1, <2>2
<1>5. /\ pc' \in [Threads -> ClientLabels \cup ServerLabels]
      /\ \A d \in Clients : pc'[Client(d)] \in ClientLabels /\ pc'[Server(d)] \in ServerLabels
  <2>1. pc[t] \in (IF IsServer(t) THEN ServerLabels ELSE ClientLabels)
    BY DEF Types
  <2>2. m \in (IF IsServer(t) THEN ServerLabels ELSE ClientLabels)
    BY <1>1, <2>1 DEF ServiceLabels, ServerLabels, ClientLabels
  <2>3. pc' \in [Threads -> ClientLabels \cup ServerLabels]
    BY <1>1, <2>2 DEF Types
  <2>4. ASSUME NEW d \in Clients
        PROVE  pc'[Client(d)] \in ClientLabels /\ pc'[Server(d)] \in ServerLabels
    <3>1. CASE d = c
      BY <1>2, <2>2, <3>1 DEF Types
    <3>2. CASE d # c
      <4>1. Client(d) \in Threads \ {t} /\ Server(d) \in Threads \ {t}
        BY <3>2, ThreadFacts
      <4>2. QED
        BY <1>2, <4>1 DEF Types
    <3>3. QED
      BY <3>1, <3>2
  <2>5. QED
    BY <2>3, <2>4
<1>6. /\ Posture(t) /\ Posture(p) /\ Paired(t) /\ Paired(p) /\ Flow(t) /\ Flow(p)
      /\ PeerGone(t) => PeerGone(t)'
      /\ PeerGone(p) => PeerGone(p)'
  <2>1. /\ Posture(Client(c)) /\ Posture(Server(c)) /\ Paired(Client(c)) /\ Paired(Server(c))
        /\ Flow(Client(c)) /\ Flow(Server(c))
    BY DEF Shake
  <2>2. QED
    BY <1>3, <2>1
<1>7. /\ ReadBy(t)' = ReadBy(t) /\ WroteBy(t)' = WroteBy(t)
      /\ ReadBy(p)' = ReadBy(p) /\ WroteBy(p)' = WroteBy(p)
  BY <1>1, <1>2, <1>4 DEF ReadBy, WroteBy, ReadAt, WroteAt, ServiceLabels
<1>8. /\ pc'[t] = "asleep" <=> pc[t] = "asleep"
      /\ pc'[t] = "accept" <=> pc[t] = "accept"
      /\ pc'[p] = pc[p]
  BY <1>2, <1>4 DEF ServiceLabels
<1>9. Flow(t)' /\ Flow(p)'
  BY <1>1, <1>6, <1>7, <1>8 DEF Flow
<1>10. Posture(t)' /\ Posture(p)'
  BY <1>1, <1>4, <1>6, <1>8 DEF Posture, ServiceLabels
<1>11. Paired(p)'
  BY <1>1, <1>4, <1>6, <1>8 DEF Paired
<1>12. Paired(t)'
  BY <1>1, <1>4, <1>6, <1>8 DEF Paired, ServiceLabels, Serving
<1>13. /\ Serving(Client(c))' <=> Serving(Client(c))
       /\ Serving(Server(c))' <=> Serving(Server(c))
       /\ pc'[Client(c)] = "asleep" <=> pc[Client(c)] = "asleep"
       /\ pc'[Server(c)] = "accept" <=> pc[Server(c)] = "accept"
  BY <1>4, <1>8
<1>14. Shake(c)'
  BY <1>1, <1>9, <1>10, <1>11, <1>12, <1>13 DEF Shake
<1>15. QED
  BY <1>2, <1>3, <1>5, <1>13, <1>14

(* A step of the service of c or of its messages. *)
LEMMA ServeIInv ==
  ASSUME IInv, Downward, NEW c \in Clients, NEW t \in {Client(c), Server(c)}, NEW m, Serve(t, m),
         up' \in [Clients \cup {"server"} -> BOOLEAN],
         rq' \in [Threads -> [Channels -> Nat]], wire' \in [Threads -> [Channels -> Nat]],
         unacked' \in [Threads -> [Channels -> Nat]], cq' \in [Threads -> [Channels -> Seq(Kinds)]],
         wc' \in [Threads -> [Channels -> Kinds \cup {"none"}]],
         data_inflight' \in [Clients -> BOOLEAN],
         \A r \in Threads : r \notin {Client(c), Server(c)} =>
           /\ rq'[r] = rq[r] /\ wire'[r] = wire[r] /\ unacked'[r] = unacked[r]
           /\ cq'[r] = cq[r] /\ wc'[r] = wc[r],
         \A d \in Clients : d # c => data_inflight'[d] = data_inflight[d],
         Service(c)', FatalOnlyAfterLoss'
  PROVE  IInv'
<1> USE DEF IInv
<1>1. /\ Shake(c)' /\ \A r \in Threads : r # t => pc'[r] = pc[r]
      /\ pc' \in [Threads -> ClientLabels \cup ServerLabels]
      /\ \A d \in Clients : pc'[Client(d)] \in ClientLabels /\ pc'[Server(d)] \in ServerLabels
  BY ServeShake
<1>2. UNCHANGED <<listening, chan, connected, sock, qp>>
  BY DEF Serve
<1>3. Types'
  BY <1>1, <1>2 DEF Types
<1>4. ASSUME NEW d \in Clients, d # c
      PROVE  Shake(d)' /\ Service(d)'
  <2>1. /\ Client(d) \in Threads \ {Client(c), Server(c)}
        /\ Server(d) \in Threads \ {Client(c), Server(c)}
    BY <1>4, ThreadFacts
  <2>2. Same(d)
    BY <1>1, <1>2, <1>4, <2>1 DEF Same, SameAt
  <2>3. QED
    BY <2>2, SameFrame
<1>5. QED
  BY <1>1, <1>3, <1>4

(* One entry of a table changes. *)
LEMMA Update ==
  ASSUME NEW S, NEW f \in [Threads -> [Channels -> S]], NEW t \in Threads, NEW h \in Channels,
         NEW v \in S, NEW g, g = [f EXCEPT ![t][h] = v]
  PROVE  /\ g \in [Threads -> [Channels -> S]] /\ g[t][h] = v
         /\ \A r \in Threads : r # t => g[r] = f[r]
         /\ \A r \in Threads, k \in Channels : k # h => g[r][k] = f[r][k]
  OBVIOUS

(* A step in which no process ends. *)
LEMMA AllLive ==
  ASSUME IInv, up' = up
  PROVE  Downward /\ up' \in [Clients \cup {"server"} -> BOOLEAN]
  BY DEF Downward, IInv, Types

(* The server posts a receive on the data channel. *)
LEMMA ServerPostRecvIInv ==
  ASSUME IInv, NEW c \in Clients, ServerPostRecv(c)
  PROVE  IInv'
<1> USE ThreadFacts DEF IInv
<1>1. /\ pc[Server(c)] = "post_recv" /\ Serve(Server(c), "send") /\ Serving(Server(c))
      /\ rq' = [rq EXCEPT ![Server(c)]["data"] = rq[Server(c)]["data"] + 1]
      /\ UNCHANGED <<up, connected, wire, unacked, cq, wc, data_inflight>>
  BY DEF ServerPostRecv, At, Goto, procs, loop, Serve, Serving, ServiceLabels
<1>2. Downward /\ up' \in [Clients \cup {"server"} -> BOOLEAN] /\ FatalOnlyAfterLoss'
  BY <1>1, AllLive, LossFrame
<1>3. /\ pc'[Server(c)] = "send" /\ pc'[Client(c)] = pc[Client(c)]
      /\ Serving(Client(c))' <=> Serving(Client(c))
      /\ Serving(Server(c))' <=> Serving(Server(c))
      /\ PeerGone(Client(c)) => PeerGone(Client(c))'
      /\ PeerGone(Server(c)) => PeerGone(Server(c))'
  BY <1>1, <1>2, ServeShake
<1>4. /\ rq' \in [Threads -> [Channels -> Nat]]
      /\ rq'[Server(c)]["data"] = rq[Server(c)]["data"] + 1
      /\ \A r \in Threads : r # Server(c) => rq'[r] = rq[r]
  <2>1. /\ rq \in [Threads -> [Channels -> Nat]] /\ "data" \in Channels /\ Server(c) \in Threads
        /\ rq[Server(c)]["data"] + 1 \in Nat
    BY SMTT(30) DEF Types, Channels
  <2>2. QED
    BY <1>1, <2>1, Update
<1>5. Token(c)'
  BY <1>1, <1>3 DEF Service, Token, AtServer, CtrlSent, CtrlHere, AtClient, DataSent, DataHere, Handling
<1>6. Completions(c)'
  <2>1. (ServerAwaits(c)' <=> ServerAwaits(c)) /\ (ClientAwaits(c)' <=> ClientAwaits(c))
    BY <1>1, <1>3 DEF ServerAwaits, ClientAwaits
  <2>2. Own(Server(c), "ctrl", ServerAwaits(c))' /\ Own(Client(c), "data", ClientAwaits(c))'
    BY <1>1, <1>3, <2>1 DEF Service, Completions, Own
  <2>3. QED
    BY <1>1, <1>3, <2>2 DEF Service, Completions
<1>7. Receives(c)'
  <2>1. ~DataHere(c)
    BY <1>1 DEF Service, Token, AtServer
  <2>2. QED
    BY <1>1, <1>3, <1>4, <2>1 DEF Service, Receives, DataHere, CtrlHere, Handling, Serve
<1>8. Service(c)'
  BY <1>5, <1>6, <1>7 DEF Service
<1>9. QED
  <2>1. /\ wire' \in [Threads -> [Channels -> Nat]] /\ unacked' \in [Threads -> [Channels -> Nat]]
        /\ cq' \in [Threads -> [Channels -> Seq(Kinds)]]
        /\ wc' \in [Threads -> [Channels -> Kinds \cup {"none"}]]
        /\ data_inflight' \in [Clients -> BOOLEAN]
    BY <1>1 DEF Types
  <2>2. QED
    BY <1>1, <1>2, <1>4, <1>8, <2>1, ServeIInv

(* Sequences of one element. *)
LEMMA OneElement == \A x : Head(<<x>>) = x /\ Tail(<<x>>) = << >> /\ <<x>> # << >> /\ Append(<< >>, x) = <<x>>
  OBVIOUS

(* The server sends its memory information. *)
LEMMA ServerSendIInv ==
  ASSUME IInv, NEW c \in Clients, ServerSend(c)
  PROVE  IInv'
<1> USE ThreadFacts DEF IInv
<1>1. /\ pc[Server(c)] = "send" /\ Serve(Server(c), "wait_ctrl") /\ Serving(Server(c))
      /\ wire' = [wire EXCEPT ![Client(c)]["ctrl"] = wire[Client(c)]["ctrl"] + 1]
      /\ UNCHANGED <<up, connected, rq, unacked, cq, wc, data_inflight>>
  BY DEF ServerSend, At, Goto, procs, loop, Serve, Serving, ServiceLabels
<1>2. Downward /\ up' \in [Clients \cup {"server"} -> BOOLEAN] /\ FatalOnlyAfterLoss'
  BY <1>1, AllLive, LossFrame
<1>3. /\ pc'[Server(c)] = "wait_ctrl" /\ pc'[Client(c)] = pc[Client(c)]
      /\ Serving(Client(c))' <=> Serving(Client(c))
      /\ Serving(Server(c))' <=> Serving(Server(c))
      /\ PeerGone(Client(c)) => PeerGone(Client(c))'
      /\ PeerGone(Server(c)) => PeerGone(Server(c))'
  BY <1>1, <1>2, ServeShake
<1>4. ~CtrlSent(c) /\ ~CtrlHere(c) /\ ~AtClient(c) /\ ~DataSent(c) /\ ~DataHere(c)
  BY <1>1 DEF Service, Token, AtServer
<1>5. /\ wire' \in [Threads -> [Channels -> Nat]]
      /\ wire'[Client(c)]["ctrl"] = 1 /\ wire'[Client(c)]["data"] = wire[Client(c)]["data"]
      /\ \A r \in Threads : r # Client(c) => wire'[r] = wire[r]
  <2>1. /\ wire \in [Threads -> [Channels -> Nat]] /\ "ctrl" \in Channels /\ Client(c) \in Threads
        /\ wire[Client(c)]["ctrl"] + 1 \in Nat /\ "data" \in Channels
    BY SMTT(30) DEF Types, Channels
  <2>2. wire[Client(c)]["ctrl"] = 0
    BY <1>4 DEF CtrlSent
  <2>3. QED
    BY <1>1, <2>1, <2>2, Update
<1>6. Token(c)'
  <2>1. ~CtrlHere(c)' /\ ~AtClient(c)' /\ ~DataSent(c)' /\ ~DataHere(c)' /\ ~AtServer(c)'
    BY <1>1, <1>3, <1>4, <1>5 DEF AtServer, CtrlHere, AtClient, DataSent, DataHere, Handling
  <2>2. QED
    BY <1>1, <1>3, <2>1 DEF Token
<1>7. Completions(c)'
  <2>1. ~ServerAwaits(c) /\ ServerAwaits(c)' /\ (ClientAwaits(c)' <=> ClientAwaits(c))
    BY <1>1, <1>3 DEF ServerAwaits, ClientAwaits
  <2>2. Own(Client(c), "data", ClientAwaits(c))'
    BY <1>1, <1>3, <1>5, <2>1 DEF Service, Completions, Own
  <2>3. Own(Server(c), "ctrl", ServerAwaits(c))'
    BY <1>1, <1>3, <1>5, <2>1 DEF Service, Completions, Own
  <2>4. QED
    BY <1>1, <1>3, <1>5, <2>2, <2>3 DEF Service, Completions
<1>8. Receives(c)'
  BY <1>1, <1>3, <1>4 DEF Service, Receives, DataHere, CtrlHere, Handling, Serve
<1>9. Service(c)'
  BY <1>6, <1>7, <1>8 DEF Service
<1>10. QED
  <2>1. /\ rq' \in [Threads -> [Channels -> Nat]] /\ unacked' \in [Threads -> [Channels -> Nat]]
        /\ cq' \in [Threads -> [Channels -> Seq(Kinds)]]
        /\ wc' \in [Threads -> [Channels -> Kinds \cup {"none"}]]
        /\ data_inflight' \in [Clients -> BOOLEAN]
    BY <1>1 DEF Types
  <2>2. QED
    BY <1>1, <1>2, <1>5, <1>9, <2>1, ServeIInv

(* wait_for_wc. *)
LEMMA TakeFacts ==
  ASSUME Types, NEW t \in Threads, NEW h \in Channels, NEW x \in Kinds, cq[t][h] = <<x>>, TakeWc(t, h)
  PROVE  /\ cq' \in [Threads -> [Channels -> Seq(Kinds)]] /\ cq'[t][h] = << >>
         /\ \A r \in Threads : r # t => cq'[r] = cq[r]
         /\ \A r \in Threads, k \in Channels : k # h => cq'[r][k] = cq[r][k]
         /\ wc' \in [Threads -> [Channels -> Kinds \cup {"none"}]] /\ wc'[t][h] = x
         /\ \A r \in Threads : r # t => wc'[r] = wc[r]
         /\ \A r \in Threads, k \in Channels : k # h => wc'[r][k] = wc[r][k]
<1>1. cq' = [cq EXCEPT ![t][h] = << >>] /\ wc' = [wc EXCEPT ![t][h] = x]
  BY OneElement DEF TakeWc
<1>2. /\ cq \in [Threads -> [Channels -> Seq(Kinds)]] /\ << >> \in Seq(Kinds)
      /\ wc \in [Threads -> [Channels -> Kinds \cup {"none"}]] /\ x \in Kinds \cup {"none"}
  BY EmptySeq DEF Types
<1>3. /\ cq' \in [Threads -> [Channels -> Seq(Kinds)]] /\ cq'[t][h] = << >>
      /\ \A r \in Threads : r # t => cq'[r] = cq[r]
      /\ \A r \in Threads, k \in Channels : k # h => cq'[r][k] = cq[r][k]
  BY <1>1, <1>2, Update
<1>4. /\ wc' \in [Threads -> [Channels -> Kinds \cup {"none"}]] /\ wc'[t][h] = x
      /\ \A r \in Threads : r # t => wc'[r] = wc[r]
      /\ \A r \in Threads, k \in Channels : k # h => wc'[r][k] = wc[r][k]
  BY <1>1, <1>2, Update
<1>5. QED
  BY <1>3, <1>4

(* The server polls its control channel. *)
LEMMA ServerWaitCtrlIInv ==
  ASSUME IInv, NEW c \in Clients, ServerWaitCtrl(c)
  PROVE  IInv'
<1> USE ThreadFacts DEF IInv
<1>1. /\ pc[Server(c)] = "wait_ctrl" /\ Serve(Server(c), "wait_data") /\ Serving(Server(c))
      /\ TakeWc(Server(c), "ctrl")
      /\ UNCHANGED <<up, connected, rq, wire, unacked, data_inflight>>
  BY DEF ServerWaitCtrl, At, Goto, procs, Serve, Serving, ServiceLabels
<1>2. Downward /\ up' \in [Clients \cup {"server"} -> BOOLEAN] /\ FatalOnlyAfterLoss'
  BY <1>1, AllLive, LossFrame
<1>3. /\ pc'[Server(c)] = "wait_data" /\ pc'[Client(c)] = pc[Client(c)]
      /\ Serving(Client(c))' <=> Serving(Client(c))
      /\ Serving(Server(c))' <=> Serving(Server(c))
      /\ PeerGone(Client(c)) => PeerGone(Client(c))'
      /\ PeerGone(Server(c)) => PeerGone(Server(c))'
  BY <1>1, <1>2, ServeShake
<1>4. PICK x \in {"SEND", "ERR"} : cq[Server(c)]["ctrl"] = <<x>>
  BY <1>1 DEF TakeWc, Service, Completions
<1>5. /\ cq' \in [Threads -> [Channels -> Seq(Kinds)]] /\ cq'[Server(c)]["ctrl"] = << >>
      /\ \A r \in Threads : r # Server(c) => cq'[r] = cq[r]
      /\ cq'[Server(c)]["data"] = cq[Server(c)]["data"]
      /\ wc' \in [Threads -> [Channels -> Kinds \cup {"none"}]] /\ wc'[Server(c)]["ctrl"] = x
      /\ \A r \in Threads : r # Server(c) => wc'[r] = wc[r]
      /\ wc'[Server(c)]["data"] = wc[Server(c)]["data"]
  <2>1. x \in Kinds /\ "ctrl" \in Channels /\ "data" \in Channels /\ "data" # "ctrl"
    BY DEF Kinds, Channels
  <2>2. QED
    BY <1>1, <1>4, <2>1, TakeFacts
<1>6. /\ wire[Client(c)]["ctrl"] = 0 /\ unacked[Server(c)]["ctrl"] = 0
      /\ x = "ERR" => PeerGone(Server(c))
  BY <1>4, OneElement DEF Service, Completions, Own
<1>7. Token(c)'
  BY <1>1, <1>3, <1>5, ZenonT(30) DEF Service, Token, AtServer, CtrlSent, CtrlHere, AtClient, DataSent, DataHere, Handling
<1>8. Completions(c)'
  <2>1. ~ServerAwaits(c)' /\ (ClientAwaits(c)' <=> ClientAwaits(c))
    BY <1>1, <1>3, <1>5 DEF ServerAwaits, ClientAwaits
  <2>2. Own(Client(c), "data", ClientAwaits(c))'
    BY <1>1, <1>3, <1>5, <2>1, ZenonT(30) DEF Service, Completions, Own
  <2>3. Own(Server(c), "ctrl", ServerAwaits(c))'
    BY <1>1, <1>3, <1>5, <1>6, <2>1, OneElement DEF Own
  <2>4. QED
    BY <1>1, <1>3, <1>5, <1>6, <2>2, <2>3, ZenonT(30) DEF Service, Completions
<1>9. Receives(c)'
  <2>1. /\ DataHere(c)' <=> DataHere(c)
        /\ CtrlHere(c)' <=> CtrlHere(c)
        /\ Handling(c)' <=> Handling(c)
        /\ chan' = chan
    BY <1>1, <1>3, <1>5 DEF DataHere, CtrlHere, Handling, Serve
  <2>2. Receives(c)
    BY DEF Service
  <2>3. QED
    BY <1>1, <1>3, <2>1, <2>2 DEF Receives
<1>10. Service(c)'
  BY <1>7, <1>8, <1>9 DEF Service
<1>11. QED
  <2>1. /\ rq' \in [Threads -> [Channels -> Nat]] /\ unacked' \in [Threads -> [Channels -> Nat]]
        /\ wire' \in [Threads -> [Channels -> Nat]] /\ data_inflight' \in [Clients -> BOOLEAN]
    BY <1>1 DEF Types
  <2>2. QED
    BY <1>1, <1>2, <1>5, <1>10, <2>1, ServeIInv

(* The server polls its data channel. *)
LEMMA ServerWaitDataIInv ==
  ASSUME IInv, NEW c \in Clients, ServerWaitData(c)
  PROVE  IInv'
<1> USE ThreadFacts DEF IInv
<1>1. /\ pc[Server(c)] = "wait_data" /\ Serve(Server(c), "decide") /\ Serving(Server(c))
      /\ TakeWc(Server(c), "data")
      /\ UNCHANGED <<up, connected, rq, wire, unacked, data_inflight>>
  BY DEF ServerWaitData, At, Goto, procs, Serve, Serving, ServiceLabels
<1>2. Downward /\ up' \in [Clients \cup {"server"} -> BOOLEAN] /\ FatalOnlyAfterLoss'
  BY <1>1, AllLive, LossFrame
<1>3. /\ pc'[Server(c)] = "decide" /\ pc'[Client(c)] = pc[Client(c)]
      /\ Serving(Client(c))' <=> Serving(Client(c))
      /\ Serving(Server(c))' <=> Serving(Server(c))
      /\ PeerGone(Client(c)) => PeerGone(Client(c))'
      /\ PeerGone(Server(c)) => PeerGone(Server(c))'
  BY <1>1, <1>2, ServeShake
<1>4. cq[Server(c)]["data"] = <<"IMM">> /\ DataHere(c)
  BY <1>1 DEF TakeWc, Service, Completions, DataHere
<1>5. /\ cq' \in [Threads -> [Channels -> Seq(Kinds)]] /\ cq'[Server(c)]["data"] = << >>
      /\ \A r \in Threads : r # Server(c) => cq'[r] = cq[r]
      /\ cq'[Server(c)]["ctrl"] = cq[Server(c)]["ctrl"]
      /\ wc' \in [Threads -> [Channels -> Kinds \cup {"none"}]] /\ wc'[Server(c)]["data"] = "IMM"
      /\ \A r \in Threads : r # Server(c) => wc'[r] = wc[r]
      /\ wc'[Server(c)]["ctrl"] = wc[Server(c)]["ctrl"]
  <2>1. "IMM" \in Kinds /\ "ctrl" \in Channels /\ "data" \in Channels /\ "data" # "ctrl"
    BY DEF Kinds, Channels
  <2>2. QED
    BY <1>1, <1>4, <2>1, TakeFacts
<1>6. ~CtrlSent(c) /\ ~CtrlHere(c) /\ ~AtClient(c) /\ ~DataSent(c)
  BY <1>4 DEF Service, Token
<1>7. Token(c)'
  <2>1. ~CtrlSent(c)' /\ ~CtrlHere(c)' /\ ~AtClient(c)' /\ ~DataSent(c)' /\ ~DataHere(c)'
    BY <1>1, <1>3, <1>5, <1>6 DEF CtrlSent, CtrlHere, AtClient, DataSent, DataHere, Handling
  <2>2. QED
    BY <2>1 DEF Token
<1>8. Completions(c)'
  <2>1. ~ServerAwaits(c) /\ ~ServerAwaits(c)' /\ (ClientAwaits(c)' <=> ClientAwaits(c))
    BY <1>1, <1>3, <1>5 DEF ServerAwaits, ClientAwaits
  <2>2. Own(Client(c), "data", ClientAwaits(c))'
    BY <1>1, <1>3, <1>5, <2>1, ZenonT(30) DEF Service, Completions, Own
  <2>3. Own(Server(c), "ctrl", ServerAwaits(c))'
    BY <1>1, <1>3, <1>5, <2>1 DEF Service, Completions, Own
  <2>4. QED
    BY <1>1, <1>3, <1>5, <2>2, <2>3, ZenonT(30) DEF Service, Completions
<1>9. Receives(c)'
  <2>1. /\ CtrlHere(c)' <=> CtrlHere(c)
        /\ Handling(c)' <=> Handling(c)
        /\ chan' = chan
    BY <1>1, <1>3, <1>5 DEF CtrlHere, Handling, Serve
  <2>2. Receives(c)
    BY DEF Service
  <2>3. QED
    BY <1>1, <1>3, <1>4, <2>1, <2>2 DEF Receives
<1>10. Service(c)'
  BY <1>7, <1>8, <1>9 DEF Service
<1>11. QED
  <2>1. /\ rq' \in [Threads -> [Channels -> Nat]] /\ unacked' \in [Threads -> [Channels -> Nat]]
        /\ wire' \in [Threads -> [Channels -> Nat]] /\ data_inflight' \in [Clients -> BOOLEAN]
    BY <1>1 DEF Types
  <2>2. QED
    BY <1>1, <1>2, <1>5, <1>10, <2>1, ServeIInv

(* The server looks at what it polled. *)
LEMMA ServerDecideIInv ==
  ASSUME IInv, NEW c \in Clients, ServerDecide(c)
  PROVE  IInv'
<1> USE ThreadFacts DEF IInv
<1> DEFINE got == {wc[Server(c)][h] : h \in Channels}
<1>1. /\ pc[Server(c)] = "decide" /\ UNCHANGED <<listening, connected, sock, verbs, loop>>
      /\ IF "ERR" \in got
           THEN Fatal(Server(c))
           ELSE /\ Goto(Server(c), IF got \cap {"RECV", "IMM"} # {} THEN "post_recv" ELSE "wait_ctrl")
                /\ UNCHANGED <<up, chan>>
  BY DEF ServerDecide, At
<1>2. /\ wc[Server(c)]["data"] = "IMM" /\ connected[c]
      /\ wc[Server(c)]["ctrl"] = "ERR" => PeerGone(Server(c))
  BY <1>1 DEF Service, Completions, Shake
<1>3. "IMM" \in got /\ ("ERR" \in got => wc[Server(c)]["ctrl"] = "ERR")
  BY <1>2 DEF Channels
<1> HIDE DEF got
<1>4. CASE "ERR" \in got
  BY <1>1, <1>2, <1>3, <1>4, FatalIInv DEF PeerGone
<1>5. CASE "ERR" \notin got
  <2>1. /\ Serve(Server(c), "post_recv") /\ Serving(Server(c))
        /\ UNCHANGED <<up, connected, rq, wire, unacked, cq, wc, data_inflight>>
    BY <1>1, <1>3, <1>5 DEF Goto, verbs, loop, Serve, Serving, ServiceLabels
  <2>2. Downward /\ up' \in [Clients \cup {"server"} -> BOOLEAN] /\ FatalOnlyAfterLoss'
    BY <2>1, AllLive, LossFrame
  <2>3. /\ pc'[Server(c)] = "post_recv" /\ pc'[Client(c)] = pc[Client(c)]
        /\ Serving(Client(c))' <=> Serving(Client(c))
        /\ Serving(Server(c))' <=> Serving(Server(c))
        /\ PeerGone(Client(c)) => PeerGone(Client(c))'
        /\ PeerGone(Server(c)) => PeerGone(Server(c))'
    BY <2>1, <2>2, ServeShake
  <2>4. Token(c)'
    BY <1>1, <2>1, <2>3 DEF Service, Token, AtServer, CtrlSent, CtrlHere, AtClient, DataSent, DataHere, Handling
  <2>5. Completions(c)'
    <3>1. (ServerAwaits(c)' <=> ServerAwaits(c)) /\ (ClientAwaits(c)' <=> ClientAwaits(c))
      BY <1>1, <2>1, <2>3 DEF ServerAwaits, ClientAwaits
    <3>2. Own(Server(c), "ctrl", ServerAwaits(c))' /\ Own(Client(c), "data", ClientAwaits(c))'
      BY <2>1, <2>3, <3>1 DEF Service, Completions, Own
    <3>3. QED
      BY <2>1, <2>3, <3>2 DEF Service, Completions
  <2>6. Receives(c)'
    BY <1>1, <2>1, <2>3 DEF Service, Receives, DataHere, CtrlHere, Handling, Serve
  <2>7. Service(c)'
    BY <2>4, <2>5, <2>6 DEF Service
  <2>8. QED
    <3>1. /\ rq' \in [Threads -> [Channels -> Nat]] /\ wire' \in [Threads -> [Channels -> Nat]]
          /\ unacked' \in [Threads -> [Channels -> Nat]] /\ cq' \in [Threads -> [Channels -> Seq(Kinds)]]
          /\ wc' \in [Threads -> [Channels -> Kinds \cup {"none"}]]
          /\ data_inflight' \in [Clients -> BOOLEAN]
      BY <2>1 DEF Types
    <3>2. QED
      BY <2>1, <2>2, <2>7, <3>1, ServeIInv
<1>6. QED
  BY <1>4, <1>5

(* The client polls the completion of its last write. *)
LEMMA ClientWaitDataIInv ==
  ASSUME IInv, NEW c \in Clients, ClientWaitData(c)
  PROVE  IInv'
<1> USE ThreadFacts DEF IInv
<1>1. /\ pc[Client(c)] = "wait_data" /\ Serving(Client(c))
      /\ UNCHANGED <<listening, connected, sock, qp, rq, wire, unacked, data_inflight>>
      /\ IF data_inflight[c] THEN TakeWc(Client(c), "data") ELSE UNCHANGED <<cq, wc>>
      /\ IF data_inflight[c] /\ Head(cq[Client(c)]["data"]) = "ERR"
           THEN Fatal(Client(c))
           ELSE Goto(Client(c), "wait_ctrl") /\ UNCHANGED <<up, chan>>
  BY DEF ClientWaitData, At, Serving
<1>2. /\ cq' \in [Threads -> [Channels -> Seq(Kinds)]]
      /\ \A r \in Threads : r # Client(c) => cq'[r] = cq[r]
      /\ cq'[Client(c)]["ctrl"] = cq[Client(c)]["ctrl"] /\ cq'[Client(c)]["data"] = << >>
      /\ wc' \in [Threads -> [Channels -> Kinds \cup {"none"}]]
      /\ \A r \in Threads : r # Client(c) => wc'[r] = wc[r]
      /\ wc'[Client(c)]["ctrl"] = wc[Client(c)]["ctrl"] /\ wc'[Client(c)]["data"] # "RECV"
      /\ wire[Server(c)]["data"] = 0 /\ unacked[Client(c)]["data"] = 0
      /\ data_inflight[c] /\ Head(cq[Client(c)]["data"]) = "ERR" => PeerGone(Client(c))
  <2>1. CASE data_inflight[c]
    <3>1. PICK x \in {"WRITE", "ERR"} : cq[Client(c)]["data"] = <<x>>
      BY <1>1, <2>1 DEF TakeWc, Service, Completions
    <3>2. x \in Kinds /\ "ctrl" \in Channels /\ "data" \in Channels /\ "data" # "ctrl"
      BY DEF Kinds, Channels
    <3>3. /\ cq' \in [Threads -> [Channels -> Seq(Kinds)]] /\ cq'[Client(c)]["data"] = << >>
          /\ \A r \in Threads : r # Client(c) => cq'[r] = cq[r]
          /\ cq'[Client(c)]["ctrl"] = cq[Client(c)]["ctrl"]
          /\ wc' \in [Threads -> [Channels -> Kinds \cup {"none"}]] /\ wc'[Client(c)]["data"] = x
          /\ \A r \in Threads : r # Client(c) => wc'[r] = wc[r]
          /\ wc'[Client(c)]["ctrl"] = wc[Client(c)]["ctrl"]
      BY <1>1, <2>1, <3>1, <3>2, TakeFacts
    <3>4. /\ wire[Server(c)]["data"] = 0 /\ unacked[Client(c)]["data"] = 0
          /\ Head(cq[Client(c)]["data"]) = "ERR" => PeerGone(Client(c))
      <4>1. /\ cq[Client(c)]["data"] # << >>
            /\ Head(cq[Client(c)]["data"]) = "ERR" => cq[Client(c)]["data"] = <<"ERR">>
        BY <3>1, OneElement
      <4>2. Own(Client(c), "data", ClientAwaits(c))
        BY DEF Service, Completions
      <4>3. QED
        BY <4>1, <4>2 DEF Own
    <3>5. QED
      BY <3>3, <3>4
  <2>2. CASE ~data_inflight[c]
    <3>1. ~ClientAwaits(c)
      BY <1>1, <2>2 DEF ClientAwaits
    <3>2. /\ wire[Server(c)]["data"] = 0 /\ unacked[Client(c)]["data"] = 0
          /\ cq[Client(c)]["data"] = << >> /\ wc[Client(c)]["data"] # "RECV"
      BY <3>1 DEF Service, Completions, Own
    <3>3. QED
      BY <1>1, <2>2, <3>2 DEF Types
  <2>3. QED
    BY <2>1, <2>2
<1>3. PICK m \in {"wait_data", "wait_ctrl"} :
        /\ Serve(Client(c), m) /\ Downward /\ FatalOnlyAfterLoss'
        /\ up' \in [Clients \cup {"server"} -> BOOLEAN]
  <2>1. CASE data_inflight[c] /\ Head(cq[Client(c)]["data"]) = "ERR"
    <3>1. up' = [up EXCEPT ![Proc(Client(c))] = FALSE] /\ UNCHANGED <<pc, chan>>
      BY <1>1, <2>1 DEF Fatal
    <3>2. ~up["server"]
      BY <1>2, <2>1 DEF PeerGone
    <3>3. /\ FatalOnlyAfterLoss' /\ Downward
          /\ up' \in [Clients \cup {"server"} -> BOOLEAN]
      BY <1>1, <3>1, <3>2, FatalLoss
    <3>4. pc' = [pc EXCEPT ![Client(c)] = "wait_data"]
      BY <1>1, <3>1 DEF Types
    <3>5. Serve(Client(c), "wait_data")
      BY <1>1, <3>1, <3>4 DEF Serve
    <3>6. QED
      BY <3>3, <3>5
  <2>2. CASE ~(data_inflight[c] /\ Head(cq[Client(c)]["data"]) = "ERR")
    <3>1. Serve(Client(c), "wait_ctrl") /\ up' = up
      BY <1>1, <2>2 DEF Serve, Goto, ServiceLabels
    <3>2. Downward /\ up' \in [Clients \cup {"server"} -> BOOLEAN] /\ FatalOnlyAfterLoss'
      BY <1>1, <3>1, AllLive, LossFrame
    <3>3. QED
      BY <3>1, <3>2
  <2>3. QED
    BY <2>1, <2>2
<1>4. /\ pc'[Client(c)] = m /\ pc'[Server(c)] = pc[Server(c)]
      /\ Serving(Client(c))' <=> Serving(Client(c))
      /\ Serving(Server(c))' <=> Serving(Server(c))
      /\ PeerGone(Client(c)) => PeerGone(Client(c))'
      /\ PeerGone(Server(c)) => PeerGone(Server(c))'
  BY <1>3, ServeShake
<1>5. ~AtClient(c) /\ ~AtClient(c)' /\ ~Handling(c) /\ ~Handling(c)'
  BY <1>1, <1>4 DEF AtClient, Handling
<1>6. Token(c)'
  BY <1>1, <1>2, <1>4, <1>5 DEF Service, Token, AtServer, CtrlSent, CtrlHere, DataSent, DataHere
<1>7. Completions(c)'
  <2>1. ServerAwaits(c)' <=> ServerAwaits(c)
    BY <1>4 DEF ServerAwaits
  <2>2. Own(Client(c), "data", ClientAwaits(c))'
    BY <1>1, <1>2, OneElement DEF Own
  <2>3. Own(Server(c), "ctrl", ServerAwaits(c))'
    BY <1>1, <1>2, <1>4, <2>1, ZenonT(30) DEF Service, Completions, Own
  <2>4. QED
    BY <1>1, <1>2, <1>4, <2>2, <2>3, ZenonT(30) DEF Service, Completions
<1>8. Receives(c)'
  <2>1. /\ DataHere(c)' <=> DataHere(c)
        /\ CtrlHere(c)' <=> CtrlHere(c)
        /\ chan' = chan
    BY <1>2, <1>3 DEF DataHere, CtrlHere, Serve
  <2>2. Receives(c)
    BY DEF Service
  <2>3. QED
    BY <1>1, <1>4, <1>5, <2>1, <2>2 DEF Receives
<1>9. Service(c)'
  BY <1>6, <1>7, <1>8 DEF Service
<1>10. QED
  <2>1. /\ rq' \in [Threads -> [Channels -> Nat]] /\ unacked' \in [Threads -> [Channels -> Nat]]
        /\ wire' \in [Threads -> [Channels -> Nat]] /\ data_inflight' \in [Clients -> BOOLEAN]
    BY <1>1 DEF Types
  <2>2. QED
    BY <1>1, <1>2, <1>3, <1>9, <2>1, ServeIInv

(* The client polls its control channel. *)
LEMMA ClientWaitCtrlIInv ==
  ASSUME IInv, NEW c \in Clients, ClientWaitCtrl(c)
  PROVE  IInv'
<1> USE ThreadFacts DEF IInv
<1>0. cq[Client(c)]["ctrl"] = <<"RECV">>
  BY DEF ClientWaitCtrl, TakeWc, Service, Completions
<1>1. /\ pc[Client(c)] = "wait_ctrl" /\ Serve(Client(c), "handle") /\ Serving(Client(c))
      /\ TakeWc(Client(c), "ctrl")
      /\ UNCHANGED <<up, connected, rq, wire, unacked, data_inflight>>
  <2>1. Head(cq[Client(c)]["ctrl"]) # "ERR"
    BY <1>0
  <2>2. QED
    BY <2>1 DEF ClientWaitCtrl, At, Goto, procs, Serve, Serving, ServiceLabels
<1>2. Downward /\ up' \in [Clients \cup {"server"} -> BOOLEAN] /\ FatalOnlyAfterLoss'
  BY <1>1, AllLive, LossFrame
<1>3. /\ pc'[Client(c)] = "handle" /\ pc'[Server(c)] = pc[Server(c)]
      /\ Serving(Client(c))' <=> Serving(Client(c))
      /\ Serving(Server(c))' <=> Serving(Server(c))
      /\ PeerGone(Client(c)) => PeerGone(Client(c))'
      /\ PeerGone(Server(c)) => PeerGone(Server(c))'
  BY <1>1, <1>2, ServeShake
<1>4. cq[Client(c)]["ctrl"] = <<"RECV">> /\ CtrlHere(c)
  BY <1>0, <1>1 DEF CtrlHere
<1>5. /\ cq' \in [Threads -> [Channels -> Seq(Kinds)]] /\ cq'[Client(c)]["ctrl"] = << >>
      /\ \A r \in Threads : r # Client(c) => cq'[r] = cq[r]
      /\ cq'[Client(c)]["data"] = cq[Client(c)]["data"]
      /\ wc' \in [Threads -> [Channels -> Kinds \cup {"none"}]] /\ wc'[Client(c)]["ctrl"] = "RECV"
      /\ \A r \in Threads : r # Client(c) => wc'[r] = wc[r]
      /\ wc'[Client(c)]["data"] = wc[Client(c)]["data"]
  <2>1. "RECV" \in Kinds /\ "ctrl" \in Channels /\ "data" \in Channels /\ "data" # "ctrl"
    BY DEF Kinds, Channels
  <2>2. QED
    BY <1>1, <1>4, <2>1, TakeFacts
<1>6. ~AtServer(c) /\ ~CtrlSent(c) /\ ~DataSent(c) /\ ~DataHere(c) /\ Serving(Server(c))
  BY <1>4 DEF Service, Token
<1>7. ~AtServer(c)' /\ ~CtrlSent(c)' /\ ~DataSent(c)' /\ ~DataHere(c)' /\ ~CtrlHere(c)' /\ Handling(c)'
  BY <1>1, <1>3, <1>5, <1>6 DEF AtServer, CtrlSent, DataSent, DataHere, CtrlHere, Handling
<1>8. Token(c)'
  BY <1>3, <1>6, <1>7 DEF Token
<1>9. Completions(c)'
  <2>1. ~ClientAwaits(c) /\ ~ClientAwaits(c)' /\ (ServerAwaits(c)' <=> ServerAwaits(c))
    BY <1>1, <1>3, <1>5 DEF ServerAwaits, ClientAwaits
  <2>2. Own(Client(c), "data", ClientAwaits(c))'
    BY <1>1, <1>3, <1>5, <2>1 DEF Service, Completions, Own
  <2>3. Own(Server(c), "ctrl", ServerAwaits(c))'
    BY <1>1, <1>3, <1>5, <2>1, ZenonT(30) DEF Service, Completions, Own
  <2>4. QED
    BY <1>1, <1>3, <1>5, <2>2, <2>3, ZenonT(30) DEF Service, Completions
<1>10. Receives(c)'
  <2>1. Receives(c)
    BY DEF Service
  <2>2. QED
    BY <1>1, <1>3, <1>4, <1>6, <1>7, <2>1 DEF Receives
<1>11. Service(c)'
  BY <1>8, <1>9, <1>10 DEF Service
<1>12. QED
  <2>1. /\ rq' \in [Threads -> [Channels -> Nat]] /\ unacked' \in [Threads -> [Channels -> Nat]]
        /\ wire' \in [Threads -> [Channels -> Nat]] /\ data_inflight' \in [Clients -> BOOLEAN]
    BY <1>1 DEF Types
  <2>2. QED
    BY <1>1, <1>2, <1>5, <1>11, <2>1, ServeIInv

(* The client replaces the receive. *)
LEMMA ClientRepostIInv ==
  ASSUME IInv, NEW c \in Clients, ClientRepost(c)
  PROVE  IInv'
<1> USE ThreadFacts DEF IInv
<1>1. /\ pc[Client(c)] = "handle" /\ Serve(Client(c), "write") /\ Serving(Client(c))
      /\ rq' = [rq EXCEPT ![Client(c)]["ctrl"] = rq[Client(c)]["ctrl"] + 1]
      /\ \E h \in Channels : wc[Client(c)][h] = "RECV"
      /\ UNCHANGED <<up, connected, wire, unacked, cq, wc, data_inflight>>
  BY DEF ClientRepost, At, Goto, procs, loop, Serve, Serving, ServiceLabels
<1>2. Downward /\ up' \in [Clients \cup {"server"} -> BOOLEAN] /\ FatalOnlyAfterLoss'
  BY <1>1, AllLive, LossFrame
<1>3. /\ pc'[Client(c)] = "write" /\ pc'[Server(c)] = pc[Server(c)]
      /\ Serving(Client(c))' <=> Serving(Client(c))
      /\ Serving(Server(c))' <=> Serving(Server(c))
      /\ PeerGone(Client(c)) => PeerGone(Client(c))'
      /\ PeerGone(Server(c)) => PeerGone(Server(c))'
  BY <1>1, <1>2, ServeShake
<1>4. Handling(c) /\ AtClient(c)
  BY <1>1 DEF Handling, AtClient, Service, Completions, Channels
<1>5. /\ rq' \in [Threads -> [Channels -> Nat]]
      /\ rq'[Client(c)]["ctrl"] = rq[Client(c)]["ctrl"] + 1
      /\ \A r \in Threads : r # Client(c) => rq'[r] = rq[r]
  <2>1. /\ rq \in [Threads -> [Channels -> Nat]] /\ "ctrl" \in Channels /\ Client(c) \in Threads
        /\ rq[Client(c)]["ctrl"] + 1 \in Nat
    BY SMTT(30) DEF Types, Channels
  <2>2. QED
    BY <1>1, <2>1, Update
<1>6. /\ ~CtrlHere(c) /\ ~CtrlHere(c)' /\ ~Handling(c)' /\ AtClient(c)'
      /\ DataHere(c)' <=> DataHere(c)
      /\ chan' = chan
  BY <1>1, <1>3, <1>4 DEF Service, Token, CtrlHere, DataHere, Handling, AtClient, Serve
<1>7. Token(c)'
  BY <1>1, <1>3, <1>4, <1>6 DEF Service, Token, AtServer, CtrlSent, DataSent
<1>8. Completions(c)'
  <2>1. (ServerAwaits(c)' <=> ServerAwaits(c)) /\ (ClientAwaits(c)' <=> ClientAwaits(c))
    BY <1>1, <1>3, <1>4 DEF ServerAwaits, ClientAwaits, Handling
  <2>2. Own(Server(c), "ctrl", ServerAwaits(c))' /\ Own(Client(c), "data", ClientAwaits(c))'
    BY <1>1, <1>3, <2>1 DEF Service, Completions, Own
  <2>3. QED
    BY <1>1, <1>3, <2>2 DEF Service, Completions
<1>9. Receives(c)'
  <2>1. Receives(c)
    BY DEF Service
  <2>2. QED
    BY <1>1, <1>3, <1>4, <1>5, <1>6, <2>1 DEF Receives
<1>10. Service(c)'
  BY <1>7, <1>8, <1>9 DEF Service
<1>11. QED
  <2>1. /\ wire' \in [Threads -> [Channels -> Nat]] /\ unacked' \in [Threads -> [Channels -> Nat]]
        /\ cq' \in [Threads -> [Channels -> Seq(Kinds)]]
        /\ wc' \in [Threads -> [Channels -> Kinds \cup {"none"}]]
        /\ data_inflight' \in [Clients -> BOOLEAN]
    BY <1>1 DEF Types
  <2>2. QED
    BY <1>1, <1>2, <1>5, <1>10, <2>1, ServeIInv

(* The client writes with immediate. *)
LEMMA ClientWriteIInv ==
  ASSUME IInv, NEW c \in Clients, ClientWrite(c)
  PROVE  IInv'
<1> USE ThreadFacts DEF IInv
<1>1. /\ pc[Client(c)] = "write" /\ Serve(Client(c), "handle") /\ Serving(Client(c))
      /\ wire' = [wire EXCEPT ![Server(c)]["data"] = wire[Server(c)]["data"] + 1]
      /\ \E h \in Channels : wc[Client(c)][h] = "RECV" /\ wc' = [wc EXCEPT ![Client(c)][h] = "none"]
      /\ UNCHANGED <<up, connected, rq, unacked, cq, data_inflight>>
  BY DEF ClientWrite, At, Goto, procs, Serve, Serving, ServiceLabels
<1>2. Downward /\ up' \in [Clients \cup {"server"} -> BOOLEAN] /\ FatalOnlyAfterLoss'
  BY <1>1, AllLive, LossFrame
<1>3. /\ pc'[Client(c)] = "handle" /\ pc'[Server(c)] = pc[Server(c)]
      /\ Serving(Client(c))' <=> Serving(Client(c))
      /\ Serving(Server(c))' <=> Serving(Server(c))
      /\ PeerGone(Client(c)) => PeerGone(Client(c))'
      /\ PeerGone(Server(c)) => PeerGone(Server(c))'
  BY <1>1, <1>2, ServeShake
<1>4. AtClient(c) /\ ~AtServer(c) /\ ~CtrlSent(c) /\ ~CtrlHere(c) /\ ~DataSent(c) /\ ~DataHere(c)
      /\ Serving(Server(c)) /\ ~Handling(c) /\ ~ClientAwaits(c)
  BY <1>1 DEF AtClient, Service, Token, Handling, ClientAwaits
<1>5. /\ wire' \in [Threads -> [Channels -> Nat]]
      /\ wire'[Server(c)]["data"] = 1 /\ wire'[Server(c)]["ctrl"] = wire[Server(c)]["ctrl"]
      /\ \A r \in Threads : r # Server(c) => wire'[r] = wire[r]
  <2>1. /\ wire \in [Threads -> [Channels -> Nat]] /\ "ctrl" \in Channels /\ Server(c) \in Threads
        /\ wire[Server(c)]["data"] + 1 \in Nat /\ "data" \in Channels
    BY SMTT(30) DEF Types, Channels
  <2>2. wire[Server(c)]["data"] = 0
    BY <1>4 DEF DataSent
  <2>3. QED
    BY <1>1, <2>1, <2>2, Update
<1>6. /\ wc' \in [Threads -> [Channels -> Kinds \cup {"none"}]] /\ wc'[Client(c)]["ctrl"] = "none"
      /\ \A r \in Threads : r # Client(c) => wc'[r] = wc[r]
      /\ wc'[Client(c)]["data"] = wc[Client(c)]["data"]
  <2>1. wc' = [wc EXCEPT ![Client(c)]["ctrl"] = "none"]
    BY <1>1 DEF Service, Completions, Channels
  <2>2. /\ wc \in [Threads -> [Channels -> Kinds \cup {"none"}]] /\ "none" \in Kinds \cup {"none"}
        /\ "ctrl" \in Channels /\ "data" \in Channels /\ Client(c) \in Threads
    BY DEF Types, Channels
  <2>3. QED
    BY <2>1, <2>2, Update
<1>7. /\ ~AtServer(c)' /\ ~CtrlSent(c)' /\ ~CtrlHere(c)' /\ ~DataHere(c)' /\ ~Handling(c)'
      /\ ~AtClient(c)' /\ ClientAwaits(c)' /\ (ServerAwaits(c)' <=> ServerAwaits(c))
  BY <1>1, <1>3, <1>4, <1>5, <1>6 DEF AtServer, CtrlSent, CtrlHere, DataHere, Handling, AtClient,
     ClientAwaits, ServerAwaits
<1>8. Token(c)'
  BY <1>3, <1>4, <1>7 DEF Token
<1>9. Completions(c)'
  <2>1. Own(Client(c), "data", ClientAwaits(c))'
    BY <1>1, <1>3, <1>4, <1>5, <1>7 DEF Service, Completions, Own
  <2>2. Own(Server(c), "ctrl", ServerAwaits(c))'
    BY <1>1, <1>3, <1>5, <1>7 DEF Service, Completions, Own
  <2>3. QED
    BY <1>1, <1>3, <1>5, <1>6, <2>1, <2>2 DEF Service, Completions
<1>10. Receives(c)'
  <2>1. Receives(c)
    BY DEF Service
  <2>2. QED
    BY <1>1, <1>3, <1>4, <1>7, <2>1 DEF Receives
<1>11. Service(c)'
  BY <1>8, <1>9, <1>10 DEF Service
<1>12. QED
  <2>1. /\ rq' \in [Threads -> [Channels -> Nat]] /\ unacked' \in [Threads -> [Channels -> Nat]]
        /\ cq' \in [Threads -> [Channels -> Seq(Kinds)]] /\ data_inflight' \in [Clients -> BOOLEAN]
    BY <1>1 DEF Types
  <2>2. QED
    BY <1>1, <1>2, <1>5, <1>6, <1>11, <2>1, ServeIInv

(* The client's turn ends. *)
LEMMA ClientTurnEndsIInv ==
  ASSUME IInv, NEW c \in Clients, ClientTurnEnds(c)
  PROVE  IInv'
<1> USE ThreadFacts DEF IInv
<1>1. /\ pc[Client(c)] = "handle" /\ Serve(Client(c), "wait_data") /\ Serving(Client(c))
      /\ data_inflight' = [data_inflight EXCEPT ![c] = TRUE]
      /\ wc[Client(c)]["ctrl"] # "RECV"
      /\ UNCHANGED <<up, connected, rq, wire, unacked, cq, wc>>
  BY DEF ClientTurnEnds, At, Goto, procs, verbs, Serve, Serving, ServiceLabels, Channels
<1>2. Downward /\ up' \in [Clients \cup {"server"} -> BOOLEAN] /\ FatalOnlyAfterLoss'
  BY <1>1, AllLive, LossFrame
<1>3. /\ pc'[Client(c)] = "wait_data" /\ pc'[Server(c)] = pc[Server(c)]
      /\ Serving(Client(c))' <=> Serving(Client(c))
      /\ Serving(Server(c))' <=> Serving(Server(c))
      /\ PeerGone(Client(c)) => PeerGone(Client(c))'
      /\ PeerGone(Server(c)) => PeerGone(Server(c))'
  BY <1>1, <1>2, ServeShake
<1>4. /\ data_inflight' \in [Clients -> BOOLEAN] /\ data_inflight'[c]
      /\ \A d \in Clients : d # c => data_inflight'[d] = data_inflight[d]
  BY <1>1 DEF Types
<1>5. /\ ~AtClient(c) /\ ~AtClient(c)' /\ ~Handling(c) /\ ~Handling(c)'
      /\ DataHere(c)' <=> DataHere(c)
      /\ CtrlHere(c)' <=> CtrlHere(c)
      /\ chan' = chan
  BY <1>1, <1>3 DEF AtClient, Handling, DataHere, CtrlHere, Serve
<1>6. Token(c)'
  BY <1>1, <1>3, <1>5 DEF Service, Token, AtServer, CtrlSent, DataSent
<1>7. Completions(c)'
  <2>1. (ServerAwaits(c)' <=> ServerAwaits(c)) /\ ClientAwaits(c)' /\ ClientAwaits(c)
    BY <1>1, <1>3, <1>4 DEF ServerAwaits, ClientAwaits
  <2>2. Own(Server(c), "ctrl", ServerAwaits(c))' /\ Own(Client(c), "data", ClientAwaits(c))'
    BY <1>1, <1>3, <2>1 DEF Service, Completions, Own
  <2>3. QED
    BY <1>1, <1>3, <2>2 DEF Service, Completions
<1>8. Receives(c)'
  <2>1. Receives(c)
    BY DEF Service
  <2>2. QED
    BY <1>1, <1>3, <1>5, <2>1 DEF Receives
<1>9. Service(c)'
  BY <1>6, <1>7, <1>8 DEF Service
<1>10. QED
  <2>1. /\ rq' \in [Threads -> [Channels -> Nat]] /\ wire' \in [Threads -> [Channels -> Nat]]
        /\ unacked' \in [Threads -> [Channels -> Nat]] /\ cq' \in [Threads -> [Channels -> Seq(Kinds)]]
        /\ wc' \in [Threads -> [Channels -> Kinds \cup {"none"}]]
    BY <1>1 DEF Types
  <2>2. QED
    BY <1>1, <1>2, <1>4, <1>9, <2>1, ServeIInv

-----------------------------------------------------------------------------
(* The network. *)

(* No thread moves. *)
LEMMA NetFacts ==
  ASSUME IInv, NEW c \in Clients, NEW t \in {Client(c), Server(c)},
         UNCHANGED <<procs, pc, chan, connected, sock, qp, loop>>
  PROVE  /\ Serve(t, pc[t]) /\ Downward /\ FatalOnlyAfterLoss'
         /\ up' \in [Clients \cup {"server"} -> BOOLEAN]
         /\ wc' \in [Threads -> [Channels -> Kinds \cup {"none"}]]
         /\ data_inflight' \in [Clients -> BOOLEAN]
         /\ up' = up /\ pc' = pc /\ chan' = chan /\ wc' = wc /\ data_inflight' = data_inflight
         /\ PeerGone(Client(c))' <=> PeerGone(Client(c))
         /\ PeerGone(Server(c))' <=> PeerGone(Server(c))
         /\ Serving(Client(c))' <=> Serving(Client(c))
         /\ Serving(Server(c))' <=> Serving(Server(c))
         /\ Handling(c)' <=> Handling(c)
         /\ AtServer(c)' <=> AtServer(c)
         /\ AtClient(c)' <=> AtClient(c)
         /\ ServerAwaits(c)' <=> ServerAwaits(c)
         /\ ClientAwaits(c)' <=> ClientAwaits(c)
<1>1. UNCHANGED <<up, listening, pc, chan, connected, sock, qp, wc, data_inflight>>
  BY DEF procs, loop
<1>2. Downward /\ FatalOnlyAfterLoss' /\ up' \in [Clients \cup {"server"} -> BOOLEAN]
  BY <1>1, AllLive, LossFrame DEF IInv
<1>3. Serve(t, pc[t])
  BY <1>1, ThreadFacts DEF Serve, IInv, Types
<1>4. /\ wc' \in [Threads -> [Channels -> Kinds \cup {"none"}]]
      /\ data_inflight' \in [Clients -> BOOLEAN]
  BY <1>1 DEF IInv, Types
<1>5. /\ PeerGone(Client(c))' <=> PeerGone(Client(c))
      /\ PeerGone(Server(c))' <=> PeerGone(Server(c))
      /\ Serving(Client(c))' <=> Serving(Client(c))
      /\ Serving(Server(c))' <=> Serving(Server(c))
      /\ Handling(c)' <=> Handling(c)
      /\ AtServer(c)' <=> AtServer(c)
      /\ AtClient(c)' <=> AtClient(c)
      /\ ServerAwaits(c)' <=> ServerAwaits(c)
      /\ ClientAwaits(c)' <=> ClientAwaits(c)
  BY <1>1 DEF PeerGone, Serving, Handling, AtServer, AtClient, ServerAwaits, ClientAwaits
<1>6. QED
  BY <1>1, <1>2, <1>3, <1>4, <1>5

(* A counter that the network decreases. *)
LEMMA CountDown ==
  ASSUME NEW f \in [Threads -> [Channels -> Nat]], NEW t \in Threads, NEW h \in Channels, NEW g,
         f[t][h] > 0, g = [f EXCEPT ![t][h] = f[t][h] - 1]
  PROVE  /\ g \in [Threads -> [Channels -> Nat]] /\ g[t][h] = f[t][h] - 1
         /\ \A r \in Threads : r # t => g[r] = f[r]
         /\ \A r \in Threads, k \in Channels : k # h => g[r][k] = f[r][k]
<1>1. f[t][h] - 1 \in Nat
  <2>1. f[t][h] \in Nat
    OBVIOUS
  <2>2. QED
    BY <2>1
<1>2. QED
  BY <1>1, Update

(* A completion of kind x is added to t's queue of channel h. *)
Completes(t, h, x) == cq' = [cq EXCEPT ![t][h] = Append(cq[t][h], x)]

(* A completion arrives in an empty queue. *)
LEMMA Completed ==
  ASSUME Types, NEW t \in Threads, NEW h \in Channels, NEW x \in Kinds, cq[t][h] = << >>,
         Completes(t, h, x)
  PROVE  /\ cq' \in [Threads -> [Channels -> Seq(Kinds)]] /\ cq'[t][h] = <<x>>
         /\ \A r \in Threads : r # t => cq'[r] = cq[r]
         /\ \A r \in Threads, k \in Channels : k # h => cq'[r][k] = cq[r][k]
<1>1. cq' = [cq EXCEPT ![t][h] = <<x>>]
  BY OneElement DEF Completes
<1>2. cq \in [Threads -> [Channels -> Seq(Kinds)]] /\ <<x>> \in Seq(Kinds)
  BY DEF Types
<1>3. QED
  BY <1>1, <1>2, Update

(* The tables' entries. *)
LEMMA Tables ==
  ASSUME Types
  PROVE  /\ "ctrl" \in Channels /\ "data" \in Channels /\ "data" # "ctrl"
         /\ rq \in [Threads -> [Channels -> Nat]] /\ wire \in [Threads -> [Channels -> Nat]]
         /\ unacked \in [Threads -> [Channels -> Nat]]
  BY DEF Types, Channels

(* The message of the server arrives. *)
LEMMA DeliverCtrl ==
  ASSUME IInv, NEW c \in Clients, Deliver(Client(c), "ctrl")
  PROVE  IInv'
<1> USE ThreadFacts DEF IInv
<1>1. /\ wire[Client(c)]["ctrl"] > 0 /\ rq[Client(c)]["ctrl"] > 0
      /\ wire' = [wire EXCEPT ![Client(c)]["ctrl"] = wire[Client(c)]["ctrl"] - 1]
      /\ rq' = [rq EXCEPT ![Client(c)]["ctrl"] = rq[Client(c)]["ctrl"] - 1]
      /\ unacked' = [unacked EXCEPT ![Server(c)]["ctrl"] = unacked[Server(c)]["ctrl"] + 1]
      /\ cq' = [cq EXCEPT ![Client(c)]["ctrl"] = Append(cq[Client(c)]["ctrl"], "RECV")]
      /\ UNCHANGED <<procs, pc, chan, connected, sock, qp, loop>>
  BY DEF Deliver
<1>2. /\ Types /\ "ctrl" \in Channels /\ "data" \in Channels /\ "data" # "ctrl"
      /\ rq \in [Threads -> [Channels -> Nat]] /\ wire \in [Threads -> [Channels -> Nat]]
      /\ unacked \in [Threads -> [Channels -> Nat]]
  BY Tables
<1>3. CtrlSent(c)
  BY <1>1 DEF CtrlSent
<1>4. /\ ~AtServer(c) /\ ~CtrlHere(c) /\ ~AtClient(c) /\ ~Handling(c) /\ ~DataSent(c) /\ ~DataHere(c)
      /\ Serving(Server(c)) /\ Serving(Client(c))
  BY <1>3, ServingBoth DEF Service, Token, AtClient
<1>5. /\ wire[Client(c)]["ctrl"] = 1 /\ unacked[Server(c)]["ctrl"] = 0 /\ cq[Server(c)]["ctrl"] = << >>
      /\ ServerAwaits(c)
  <2>1. Own(Server(c), "ctrl", ServerAwaits(c))
    BY DEF Service, Completions
  <2>2. QED
    BY <1>1, <2>1 DEF Own
<1>6. cq[Client(c)]["ctrl"] = << >> /\ rq[Client(c)]["ctrl"] = 1
  BY <1>4 DEF Service, Receives, CtrlHere
<1>7. /\ wire' \in [Threads -> [Channels -> Nat]] /\ wire'[Client(c)]["ctrl"] = 0
      /\ wire'[Client(c)]["data"] = wire[Client(c)]["data"]
      /\ \A r \in Threads : r # Client(c) => wire'[r] = wire[r]
  BY <1>1, <1>2, <1>5, CountDown
<1>8. /\ rq' \in [Threads -> [Channels -> Nat]] /\ rq'[Client(c)]["ctrl"] = 0
      /\ \A r \in Threads : r # Client(c) => rq'[r] = rq[r]
  BY <1>1, <1>2, <1>6, CountDown
<1>9. /\ unacked' \in [Threads -> [Channels -> Nat]] /\ unacked'[Server(c)]["ctrl"] = 1
      /\ unacked'[Server(c)]["data"] = unacked[Server(c)]["data"]
      /\ \A r \in Threads : r # Server(c) => unacked'[r] = unacked[r]
  <2>1. unacked' = [unacked EXCEPT ![Server(c)]["ctrl"] = 1] /\ 1 \in Nat
    BY <1>1, <1>5
  <2>2. QED
    BY <1>2, <2>1, Update, SMTT(30)
<1>10. /\ cq' \in [Threads -> [Channels -> Seq(Kinds)]] /\ cq'[Client(c)]["ctrl"] = <<"RECV">>
       /\ cq'[Client(c)]["data"] = cq[Client(c)]["data"]
       /\ \A r \in Threads : r # Client(c) => cq'[r] = cq[r]
  <2>1. "RECV" \in Kinds /\ cq[Client(c)]["ctrl"] = << >>
    BY <1>6 DEF Kinds
  <2>2. Completes(Client(c), "ctrl", "RECV")
    BY <1>1 DEF Completes
  <2>3. QED
    BY <1>2, <2>1, <2>2, Completed
<1>11. /\ Serve(Client(c), pc[Client(c)]) /\ Downward /\ FatalOnlyAfterLoss'
       /\ up' \in [Clients \cup {"server"} -> BOOLEAN]
       /\ wc' \in [Threads -> [Channels -> Kinds \cup {"none"}]]
       /\ data_inflight' \in [Clients -> BOOLEAN]
       /\ up' = up /\ pc' = pc /\ chan' = chan /\ wc' = wc /\ data_inflight' = data_inflight
       /\ PeerGone(Client(c))' <=> PeerGone(Client(c))
       /\ PeerGone(Server(c))' <=> PeerGone(Server(c))
       /\ Serving(Client(c))' <=> Serving(Client(c))
       /\ Serving(Server(c))' <=> Serving(Server(c))
       /\ Handling(c)' <=> Handling(c)
       /\ AtServer(c)' <=> AtServer(c)
       /\ AtClient(c)' <=> AtClient(c)
       /\ ServerAwaits(c)' <=> ServerAwaits(c)
       /\ ClientAwaits(c)' <=> ClientAwaits(c)
  BY <1>1, NetFacts
<1>12. ~CtrlSent(c)' /\ CtrlHere(c)' /\ ~DataSent(c)' /\ ~DataHere(c)'
  BY <1>4, <1>7, <1>10, OneElement DEF CtrlSent, CtrlHere, DataSent, DataHere
<1>13. Token(c)'
  BY <1>4, <1>11, <1>12 DEF Token
<1>14. Completions(c)'
  <2>1. Own(Server(c), "ctrl", ServerAwaits(c))'
    <3>1. /\ wire'[Peer(Server(c))]["ctrl"] = 0 /\ unacked'[Server(c)]["ctrl"] = 1
          /\ cq'[Server(c)]["ctrl"] = << >> /\ ServerAwaits(c)'
      BY <1>5, <1>7, <1>9, <1>10, <1>11
    <3>2. QED
      BY <3>1, OneElement DEF Own
  <2>2. Own(Client(c), "data", ClientAwaits(c))'
    <3>1. /\ wire'[Peer(Client(c))]["data"] = wire[Peer(Client(c))]["data"]
          /\ unacked'[Client(c)]["data"] = unacked[Client(c)]["data"]
          /\ cq'[Client(c)]["data"] = cq[Client(c)]["data"]
      BY <1>7, <1>9, <1>10
    <3>2. Own(Client(c), "data", ClientAwaits(c))
      BY DEF Service, Completions
    <3>3. QED
      BY <1>11, <3>1, <3>2 DEF Own
  <2>3. /\ cq'[Client(c)]["ctrl"] = <<"RECV">> /\ cq'[Client(c)]["data"] = cq[Client(c)]["data"]
        /\ cq'[Server(c)] = cq[Server(c)] /\ wire'[Client(c)]["data"] = wire[Client(c)]["data"]
        /\ wire'[Server(c)] = wire[Server(c)] /\ unacked'[Client(c)] = unacked[Client(c)]
        /\ unacked'[Server(c)]["data"] = unacked[Server(c)]["data"]
    BY <1>7, <1>9, <1>10
  <2>4. Completions(c)
    BY DEF Service
  <2>5. QED
    BY <1>11, <2>1, <2>2, <2>3, <2>4 DEF Completions
<1>15. Receives(c)'
  <2>1. Receives(c)
    BY DEF Service
  <2>2. QED
    BY <1>4, <1>8, <1>11, <1>12, <2>1 DEF Receives
<1>16. Service(c)'
  BY <1>13, <1>14, <1>15 DEF Service
<1>17. QED
  BY <1>7, <1>8, <1>9, <1>10, <1>11, <1>16, ServeIInv

(* The write of the client arrives. *)
LEMMA DeliverData ==
  ASSUME IInv, NEW c \in Clients, Deliver(Server(c), "data")
  PROVE  IInv'
<1> USE ThreadFacts DEF IInv
<1>1. /\ wire[Server(c)]["data"] > 0 /\ rq[Server(c)]["data"] > 0
      /\ wire' = [wire EXCEPT ![Server(c)]["data"] = wire[Server(c)]["data"] - 1]
      /\ rq' = [rq EXCEPT ![Server(c)]["data"] = rq[Server(c)]["data"] - 1]
      /\ unacked' = [unacked EXCEPT ![Client(c)]["data"] = unacked[Client(c)]["data"] + 1]
      /\ cq' = [cq EXCEPT ![Server(c)]["data"] = Append(cq[Server(c)]["data"], "IMM")]
      /\ UNCHANGED <<procs, pc, chan, connected, sock, qp, loop>>
  BY DEF Deliver
<1>2. /\ Types /\ "ctrl" \in Channels /\ "data" \in Channels /\ "data" # "ctrl"
      /\ rq \in [Threads -> [Channels -> Nat]] /\ wire \in [Threads -> [Channels -> Nat]]
      /\ unacked \in [Threads -> [Channels -> Nat]]
  BY Tables
<1>3. DataSent(c)
  BY <1>1 DEF DataSent
<1>4. /\ ~AtServer(c) /\ ~CtrlSent(c) /\ ~CtrlHere(c) /\ ~AtClient(c) /\ ~DataHere(c)
      /\ Serving(Server(c))
  BY <1>3 DEF Service, Token
<1>5. /\ wire[Server(c)]["data"] = 1 /\ unacked[Client(c)]["data"] = 0 /\ cq[Client(c)]["data"] = << >>
      /\ ClientAwaits(c)
  <2>1. Own(Client(c), "data", ClientAwaits(c))
    BY DEF Service, Completions
  <2>2. QED
    BY <1>1, <2>1 DEF Own
<1>6. cq[Server(c)]["data"] = << >> /\ rq[Server(c)]["data"] = 1
  <2>1. Receives(c)
    BY DEF Service
  <2>2. QED
    BY <1>1, <1>4, <2>1 DEF Receives, DataHere
<1>7. /\ wire' \in [Threads -> [Channels -> Nat]] /\ wire'[Server(c)]["data"] = 0
      /\ wire'[Server(c)]["ctrl"] = wire[Server(c)]["ctrl"]
      /\ \A r \in Threads : r # Server(c) => wire'[r] = wire[r]
  BY <1>1, <1>2, <1>5, CountDown
<1>8. /\ rq' \in [Threads -> [Channels -> Nat]] /\ rq'[Server(c)]["data"] = 0
      /\ \A r \in Threads : r # Server(c) => rq'[r] = rq[r]
  BY <1>1, <1>2, <1>6, CountDown
<1>9. /\ unacked' \in [Threads -> [Channels -> Nat]] /\ unacked'[Client(c)]["data"] = 1
      /\ unacked'[Client(c)]["ctrl"] = unacked[Client(c)]["ctrl"]
      /\ \A r \in Threads : r # Client(c) => unacked'[r] = unacked[r]
  <2>1. unacked' = [unacked EXCEPT ![Client(c)]["data"] = 1] /\ 1 \in Nat
    BY <1>1, <1>5
  <2>2. QED
    BY <1>2, <2>1, Update, SMTT(30)
<1>10. /\ cq' \in [Threads -> [Channels -> Seq(Kinds)]] /\ cq'[Server(c)]["data"] = <<"IMM">>
       /\ cq'[Server(c)]["ctrl"] = cq[Server(c)]["ctrl"]
       /\ \A r \in Threads : r # Server(c) => cq'[r] = cq[r]
  <2>1. "IMM" \in Kinds /\ cq[Server(c)]["data"] = << >>
    BY <1>6 DEF Kinds
  <2>2. Completes(Server(c), "data", "IMM")
    BY <1>1 DEF Completes
  <2>3. QED
    BY <1>2, <2>1, <2>2, Completed, SMTT(30)
<1>11. /\ Serve(Server(c), pc[Server(c)]) /\ Downward /\ FatalOnlyAfterLoss'
       /\ up' \in [Clients \cup {"server"} -> BOOLEAN]
       /\ wc' \in [Threads -> [Channels -> Kinds \cup {"none"}]]
       /\ data_inflight' \in [Clients -> BOOLEAN]
       /\ up' = up /\ pc' = pc /\ chan' = chan /\ wc' = wc /\ data_inflight' = data_inflight
       /\ PeerGone(Client(c))' <=> PeerGone(Client(c))
       /\ PeerGone(Server(c))' <=> PeerGone(Server(c))
       /\ Serving(Client(c))' <=> Serving(Client(c))
       /\ Serving(Server(c))' <=> Serving(Server(c))
       /\ Handling(c)' <=> Handling(c)
       /\ AtServer(c)' <=> AtServer(c)
       /\ AtClient(c)' <=> AtClient(c)
       /\ ServerAwaits(c)' <=> ServerAwaits(c)
       /\ ClientAwaits(c)' <=> ClientAwaits(c)
  BY <1>1, NetFacts
<1>12. ~CtrlSent(c)' /\ ~CtrlHere(c)' /\ ~DataSent(c)' /\ DataHere(c)'
  BY <1>4, <1>7, <1>10, OneElement DEF CtrlSent, CtrlHere, DataSent, DataHere
<1>13. Token(c)'
  BY <1>4, <1>11, <1>12 DEF Token
<1>14. Completions(c)'
  <2>1. Own(Client(c), "data", ClientAwaits(c))'
    <3>1. /\ wire'[Peer(Client(c))]["data"] = 0 /\ unacked'[Client(c)]["data"] = 1
          /\ cq'[Client(c)]["data"] = << >> /\ ClientAwaits(c)'
      BY <1>5, <1>7, <1>9, <1>10, <1>11
    <3>2. QED
      BY <3>1, OneElement DEF Own
  <2>2. Own(Server(c), "ctrl", ServerAwaits(c))'
    <3>1. /\ wire'[Peer(Server(c))]["ctrl"] = wire[Peer(Server(c))]["ctrl"]
          /\ unacked'[Server(c)]["ctrl"] = unacked[Server(c)]["ctrl"]
          /\ cq'[Server(c)]["ctrl"] = cq[Server(c)]["ctrl"]
      BY <1>7, <1>9, <1>10
    <3>2. Own(Server(c), "ctrl", ServerAwaits(c))
      BY DEF Service, Completions
    <3>3. QED
      BY <1>11, <3>1, <3>2 DEF Own
  <2>3. /\ cq'[Server(c)]["data"] = <<"IMM">> /\ cq'[Server(c)]["ctrl"] = cq[Server(c)]["ctrl"]
        /\ cq'[Client(c)] = cq[Client(c)] /\ wire'[Server(c)]["ctrl"] = wire[Server(c)]["ctrl"]
        /\ wire'[Client(c)] = wire[Client(c)] /\ unacked'[Server(c)] = unacked[Server(c)]
        /\ unacked'[Client(c)]["ctrl"] = unacked[Client(c)]["ctrl"]
    BY <1>7, <1>9, <1>10
  <2>4. Completions(c)
    BY DEF Service
  <2>5. QED
    BY <1>11, <2>1, <2>2, <2>3, <2>4 DEF Completions
<1>15. Receives(c)'
  <2>1. Receives(c)
    BY DEF Service
  <2>2. QED
    BY <1>4, <1>8, <1>11, <1>12, <2>1 DEF Receives
<1>16. Service(c)'
  BY <1>13, <1>14, <1>15 DEF Service
<1>17. QED
  BY <1>7, <1>8, <1>9, <1>10, <1>11, <1>16, ServeIInv

(* The message of the server completes, or fails. *)
LEMMA FinishCtrl ==
  ASSUME IInv, NEW c \in Clients, NEW x \in {"SEND", "ERR"}, x = "ERR" => PeerGone(Server(c)),
         wire[Client(c)]["ctrl"] > 0 \/ unacked[Server(c)]["ctrl"] > 0,
         wire' \in [Threads -> [Channels -> Nat]], wire'[Client(c)]["ctrl"] = 0,
         wire'[Client(c)]["data"] = wire[Client(c)]["data"],
         \A r \in Threads : r # Client(c) => wire'[r] = wire[r],
         unacked' \in [Threads -> [Channels -> Nat]], unacked'[Server(c)]["ctrl"] = 0,
         unacked'[Server(c)]["data"] = unacked[Server(c)]["data"],
         \A r \in Threads : r # Server(c) => unacked'[r] = unacked[r],
         Completes(Server(c), "ctrl", x),
         UNCHANGED <<procs, pc, chan, connected, sock, qp, rq, loop>>
  PROVE  IInv'
<1> USE ThreadFacts DEF IInv
<1>1. Types /\ "ctrl" \in Channels /\ "data" \in Channels /\ "data" # "ctrl"
  BY Tables
<1>2. cq[Server(c)]["ctrl"] = << >> /\ ServerAwaits(c)
  <2>1. Own(Server(c), "ctrl", ServerAwaits(c))
    BY DEF Service, Completions
  <2>2. QED
    BY <2>1 DEF Own
<1>3. /\ cq' \in [Threads -> [Channels -> Seq(Kinds)]] /\ cq'[Server(c)]["ctrl"] = <<x>>
      /\ cq'[Server(c)]["data"] = cq[Server(c)]["data"]
      /\ \A r \in Threads : r # Server(c) => cq'[r] = cq[r]
  <2>1. x \in Kinds
    BY DEF Kinds
  <2>2. QED
    BY <1>1, <1>2, <2>1, Completed
<1>4. /\ Serve(Server(c), pc[Server(c)]) /\ Downward /\ FatalOnlyAfterLoss'
      /\ up' \in [Clients \cup {"server"} -> BOOLEAN]
      /\ wc' \in [Threads -> [Channels -> Kinds \cup {"none"}]]
      /\ data_inflight' \in [Clients -> BOOLEAN]
      /\ pc' = pc /\ chan' = chan /\ wc' = wc /\ data_inflight' = data_inflight
      /\ PeerGone(Client(c))' <=> PeerGone(Client(c))
      /\ PeerGone(Server(c))' <=> PeerGone(Server(c))
      /\ Serving(Client(c))' <=> Serving(Client(c))
      /\ Serving(Server(c))' <=> Serving(Server(c))
      /\ Handling(c)' <=> Handling(c)
      /\ AtServer(c)' <=> AtServer(c)
      /\ AtClient(c)' <=> AtClient(c)
      /\ ServerAwaits(c)' <=> ServerAwaits(c)
      /\ ClientAwaits(c)' <=> ClientAwaits(c)
  BY NetFacts
<1>5. /\ CtrlSent(c)' => CtrlSent(c)
      /\ DataSent(c)' => DataSent(c)
      /\ CtrlHere(c)' <=> CtrlHere(c)
      /\ DataHere(c)' <=> DataHere(c)
  BY <1>3 DEF CtrlSent, CtrlHere, DataSent, DataHere
<1>6. Token(c)'
  BY <1>4, <1>5 DEF Service, Token
<1>7. Completions(c)'
  <2>1. Own(Server(c), "ctrl", ServerAwaits(c))'
    <3>1. /\ wire'[Peer(Server(c))]["ctrl"] = 0 /\ unacked'[Server(c)]["ctrl"] = 0
          /\ ServerAwaits(c)'
      BY <1>2, <1>4
    <3>2. cq'[Server(c)]["ctrl"] = <<"ERR">> => PeerGone(Server(c))'
      BY <1>3, <1>4
    <3>3. QED
      BY <3>1, <3>2 DEF Own
  <2>2. Own(Client(c), "data", ClientAwaits(c))'
    <3>1. /\ wire'[Peer(Client(c))]["data"] = wire[Peer(Client(c))]["data"]
          /\ unacked'[Client(c)]["data"] = unacked[Client(c)]["data"]
          /\ cq'[Client(c)]["data"] = cq[Client(c)]["data"]
      BY <1>3
    <3>2. Own(Client(c), "data", ClientAwaits(c))
      BY DEF Service, Completions
    <3>3. QED
      BY <1>4, <3>1, <3>2 DEF Own
  <2>3. /\ cq'[Server(c)]["ctrl"] = <<x>> /\ cq'[Server(c)]["data"] = cq[Server(c)]["data"]
        /\ cq'[Client(c)] = cq[Client(c)] /\ wire'[Client(c)]["data"] = wire[Client(c)]["data"]
        /\ wire'[Server(c)] = wire[Server(c)] /\ unacked'[Client(c)] = unacked[Client(c)]
        /\ unacked'[Server(c)]["data"] = unacked[Server(c)]["data"]
    BY <1>3
  <2>4. Completions(c)
    BY DEF Service
  <2>5. QED
    BY <1>4, <2>1, <2>2, <2>3, <2>4 DEF Completions
<1>8. Receives(c)'
  <2>1. Receives(c)
    BY DEF Service
  <2>2. QED
    BY <1>4, <1>5, <2>1 DEF Receives
<1>9. Service(c)'
  BY <1>6, <1>7, <1>8 DEF Service
<1>10. QED
  <2>1. rq' = rq /\ rq' \in [Threads -> [Channels -> Nat]]
    BY Tables
  <2>2. QED
    BY <1>3, <1>4, <1>9, <2>1, ServeIInv

(* The message of the client completes, or fails. *)
LEMMA FinishData ==
  ASSUME IInv, NEW c \in Clients, NEW x \in {"WRITE", "ERR"}, x = "ERR" => PeerGone(Client(c)),
         wire[Server(c)]["data"] > 0 \/ unacked[Client(c)]["data"] > 0,
         wire' \in [Threads -> [Channels -> Nat]], wire'[Server(c)]["data"] = 0,
         wire'[Server(c)]["ctrl"] = wire[Server(c)]["ctrl"],
         \A r \in Threads : r # Server(c) => wire'[r] = wire[r],
         unacked' \in [Threads -> [Channels -> Nat]], unacked'[Client(c)]["data"] = 0,
         unacked'[Client(c)]["ctrl"] = unacked[Client(c)]["ctrl"],
         \A r \in Threads : r # Client(c) => unacked'[r] = unacked[r],
         Completes(Client(c), "data", x),
         UNCHANGED <<procs, pc, chan, connected, sock, qp, rq, loop>>
  PROVE  IInv'
<1> USE ThreadFacts DEF IInv
<1>1. Types /\ "ctrl" \in Channels /\ "data" \in Channels /\ "data" # "ctrl"
  BY Tables
<1>2. cq[Client(c)]["data"] = << >> /\ ClientAwaits(c)
  <2>1. Own(Client(c), "data", ClientAwaits(c))
    BY DEF Service, Completions
  <2>2. QED
    BY <2>1 DEF Own
<1>3. /\ cq' \in [Threads -> [Channels -> Seq(Kinds)]] /\ cq'[Client(c)]["data"] = <<x>>
      /\ cq'[Client(c)]["ctrl"] = cq[Client(c)]["ctrl"]
      /\ \A r \in Threads : r # Client(c) => cq'[r] = cq[r]
  <2>1. x \in Kinds
    BY DEF Kinds
  <2>2. QED
    BY <1>1, <1>2, <2>1, Completed
<1>4. /\ Serve(Client(c), pc[Client(c)]) /\ Downward /\ FatalOnlyAfterLoss'
      /\ up' \in [Clients \cup {"server"} -> BOOLEAN]
      /\ wc' \in [Threads -> [Channels -> Kinds \cup {"none"}]]
      /\ data_inflight' \in [Clients -> BOOLEAN]
      /\ pc' = pc /\ chan' = chan /\ wc' = wc /\ data_inflight' = data_inflight
      /\ PeerGone(Client(c))' <=> PeerGone(Client(c))
      /\ PeerGone(Server(c))' <=> PeerGone(Server(c))
      /\ Serving(Client(c))' <=> Serving(Client(c))
      /\ Serving(Server(c))' <=> Serving(Server(c))
      /\ Handling(c)' <=> Handling(c)
      /\ AtServer(c)' <=> AtServer(c)
      /\ AtClient(c)' <=> AtClient(c)
      /\ ServerAwaits(c)' <=> ServerAwaits(c)
      /\ ClientAwaits(c)' <=> ClientAwaits(c)
  BY NetFacts
<1>5. /\ CtrlSent(c)' => CtrlSent(c)
      /\ DataSent(c)' => DataSent(c)
      /\ CtrlHere(c)' <=> CtrlHere(c)
      /\ DataHere(c)' <=> DataHere(c)
  BY <1>3 DEF CtrlSent, CtrlHere, DataSent, DataHere
<1>6. Token(c)'
  BY <1>4, <1>5 DEF Service, Token
<1>7. Completions(c)'
  <2>1. Own(Client(c), "data", ClientAwaits(c))'
    <3>1. /\ wire'[Peer(Client(c))]["data"] = 0 /\ unacked'[Client(c)]["data"] = 0
          /\ ClientAwaits(c)'
      BY <1>2, <1>4
    <3>2. cq'[Client(c)]["data"] = <<"ERR">> => PeerGone(Client(c))'
      BY <1>3, <1>4
    <3>3. QED
      BY <3>1, <3>2 DEF Own
  <2>2. Own(Server(c), "ctrl", ServerAwaits(c))'
    <3>1. /\ wire'[Peer(Server(c))]["ctrl"] = wire[Peer(Server(c))]["ctrl"]
          /\ unacked'[Server(c)]["ctrl"] = unacked[Server(c)]["ctrl"]
          /\ cq'[Server(c)]["ctrl"] = cq[Server(c)]["ctrl"]
      BY <1>3
    <3>2. Own(Server(c), "ctrl", ServerAwaits(c))
      BY DEF Service, Completions
    <3>3. QED
      BY <1>4, <3>1, <3>2 DEF Own
  <2>3. /\ cq'[Client(c)]["data"] = <<x>> /\ cq'[Client(c)]["ctrl"] = cq[Client(c)]["ctrl"]
        /\ cq'[Server(c)] = cq[Server(c)] /\ wire'[Server(c)]["ctrl"] = wire[Server(c)]["ctrl"]
        /\ wire'[Client(c)] = wire[Client(c)] /\ unacked'[Server(c)] = unacked[Server(c)]
        /\ unacked'[Client(c)]["ctrl"] = unacked[Client(c)]["ctrl"]
    BY <1>3
  <2>4. Completions(c)
    BY DEF Service
  <2>5. QED
    BY <1>4, <2>1, <2>2, <2>3, <2>4 DEF Completions
<1>8. Receives(c)'
  <2>1. Receives(c)
    BY DEF Service
  <2>2. QED
    BY <1>4, <1>5, <2>1 DEF Receives
<1>9. Service(c)'
  BY <1>6, <1>7, <1>8 DEF Service
<1>10. QED
  <2>1. rq' = rq /\ rq' \in [Threads -> [Channels -> Nat]]
    BY Tables
  <2>2. QED
    BY <1>3, <1>4, <1>9, <2>1, ServeIInv

(* The message of the server never left. *)
LEMMA LoseCtrl ==
  ASSUME IInv, NEW c \in Clients, Lose(Client(c), "ctrl")
  PROVE  IInv'
<1> USE ThreadFacts DEF IInv
<1>1. /\ wire[Client(c)]["ctrl"] > 0
      /\ wire' = [wire EXCEPT ![Client(c)]["ctrl"] = wire[Client(c)]["ctrl"] - 1]
      /\ UNCHANGED <<procs, pc, chan, connected, sock, qp, loop>>
      /\ UNCHANGED <<rq, unacked, cq>>
  BY DEF Lose
<1>2. /\ "ctrl" \in Channels /\ "data" \in Channels /\ "data" # "ctrl"
      /\ wire \in [Threads -> [Channels -> Nat]]
  BY Tables
<1>3. wire[Client(c)]["ctrl"] = 1 /\ Own(Server(c), "ctrl", ServerAwaits(c))
  <2>1. Own(Server(c), "ctrl", ServerAwaits(c))
    BY DEF Service, Completions
  <2>2. QED
    BY <1>1, <2>1 DEF Own
<1>4. /\ wire' \in [Threads -> [Channels -> Nat]] /\ wire'[Client(c)]["ctrl"] = 0
      /\ wire'[Client(c)]["data"] = wire[Client(c)]["data"]
      /\ \A r \in Threads : r # Client(c) => wire'[r] = wire[r]
  BY <1>1, <1>2, <1>3, CountDown
<1>5. /\ Serve(Client(c), pc[Client(c)]) /\ Downward /\ FatalOnlyAfterLoss'
      /\ up' \in [Clients \cup {"server"} -> BOOLEAN]
      /\ wc' \in [Threads -> [Channels -> Kinds \cup {"none"}]]
      /\ data_inflight' \in [Clients -> BOOLEAN]
      /\ pc' = pc /\ chan' = chan /\ wc' = wc /\ data_inflight' = data_inflight
      /\ PeerGone(Client(c))' <=> PeerGone(Client(c))
      /\ PeerGone(Server(c))' <=> PeerGone(Server(c))
      /\ Serving(Client(c))' <=> Serving(Client(c))
      /\ Serving(Server(c))' <=> Serving(Server(c))
      /\ Handling(c)' <=> Handling(c)
      /\ AtServer(c)' <=> AtServer(c)
      /\ AtClient(c)' <=> AtClient(c)
      /\ ServerAwaits(c)' <=> ServerAwaits(c)
      /\ ClientAwaits(c)' <=> ClientAwaits(c)
  BY <1>1, NetFacts
<1>6. /\ CtrlSent(c)' => CtrlSent(c)
      /\ DataSent(c)' => DataSent(c)
      /\ CtrlHere(c)' <=> CtrlHere(c)
      /\ DataHere(c)' <=> DataHere(c)
  BY <1>1, <1>4 DEF CtrlSent, CtrlHere, DataSent, DataHere
<1>7. Token(c)'
  BY <1>5, <1>6 DEF Service, Token
<1>8. Completions(c)'
  <2>1. Own(Server(c), "ctrl", ServerAwaits(c))'
    <3>1. wire'[Peer(Server(c))]["ctrl"] = 0
      BY <1>4
    <3>2. QED
      BY <1>1, <1>3, <1>5, <3>1 DEF Own
  <2>2. Own(Client(c), "data", ClientAwaits(c))'
    <3>1. wire'[Peer(Client(c))]["data"] = wire[Peer(Client(c))]["data"]
      BY <1>4
    <3>2. Own(Client(c), "data", ClientAwaits(c))
      BY DEF Service, Completions
    <3>3. QED
      BY <1>1, <1>5, <3>1, <3>2 DEF Own
  <2>3. /\ wire'[Client(c)]["data"] = wire[Client(c)]["data"]
        /\ wire'[Server(c)] = wire[Server(c)]
    BY <1>4
  <2>4. Completions(c)
    BY DEF Service
  <2>5. QED
    BY <1>1, <1>5, <2>1, <2>2, <2>3, <2>4 DEF Completions
<1>9. Receives(c)'
  <2>1. Receives(c)
    BY DEF Service
  <2>2. QED
    BY <1>1, <1>5, <1>6, <2>1 DEF Receives
<1>10. Service(c)'
  BY <1>7, <1>8, <1>9 DEF Service
<1>11. QED
  <2>1. /\ rq' \in [Threads -> [Channels -> Nat]] /\ unacked' \in [Threads -> [Channels -> Nat]]
        /\ cq' \in [Threads -> [Channels -> Seq(Kinds)]]
    BY <1>1 DEF Types
  <2>2. QED
    BY <1>1, <1>4, <1>5, <1>10, <2>1, ServeIInv

(* The message of the client never left. *)
LEMMA LoseData ==
  ASSUME IInv, NEW c \in Clients, Lose(Server(c), "data")
  PROVE  IInv'
<1> USE ThreadFacts DEF IInv
<1>1. /\ wire[Server(c)]["data"] > 0
      /\ wire' = [wire EXCEPT ![Server(c)]["data"] = wire[Server(c)]["data"] - 1]
      /\ UNCHANGED <<procs, pc, chan, connected, sock, qp, loop>>
      /\ UNCHANGED <<rq, unacked, cq>>
  BY DEF Lose
<1>2. /\ "ctrl" \in Channels /\ "data" \in Channels /\ "data" # "ctrl"
      /\ wire \in [Threads -> [Channels -> Nat]]
  BY Tables
<1>3. wire[Server(c)]["data"] = 1 /\ Own(Client(c), "data", ClientAwaits(c))
  <2>1. Own(Client(c), "data", ClientAwaits(c))
    BY DEF Service, Completions
  <2>2. QED
    BY <1>1, <2>1 DEF Own
<1>4. /\ wire' \in [Threads -> [Channels -> Nat]] /\ wire'[Server(c)]["data"] = 0
      /\ wire'[Server(c)]["ctrl"] = wire[Server(c)]["ctrl"]
      /\ \A r \in Threads : r # Server(c) => wire'[r] = wire[r]
  BY <1>1, <1>2, <1>3, CountDown
<1>5. /\ Serve(Server(c), pc[Server(c)]) /\ Downward /\ FatalOnlyAfterLoss'
      /\ up' \in [Clients \cup {"server"} -> BOOLEAN]
      /\ wc' \in [Threads -> [Channels -> Kinds \cup {"none"}]]
      /\ data_inflight' \in [Clients -> BOOLEAN]
      /\ pc' = pc /\ chan' = chan /\ wc' = wc /\ data_inflight' = data_inflight
      /\ PeerGone(Client(c))' <=> PeerGone(Client(c))
      /\ PeerGone(Server(c))' <=> PeerGone(Server(c))
      /\ Serving(Client(c))' <=> Serving(Client(c))
      /\ Serving(Server(c))' <=> Serving(Server(c))
      /\ Handling(c)' <=> Handling(c)
      /\ AtServer(c)' <=> AtServer(c)
      /\ AtClient(c)' <=> AtClient(c)
      /\ ServerAwaits(c)' <=> ServerAwaits(c)
      /\ ClientAwaits(c)' <=> ClientAwaits(c)
  BY <1>1, NetFacts
<1>6. /\ CtrlSent(c)' => CtrlSent(c)
      /\ DataSent(c)' => DataSent(c)
      /\ CtrlHere(c)' <=> CtrlHere(c)
      /\ DataHere(c)' <=> DataHere(c)
  BY <1>1, <1>4 DEF CtrlSent, CtrlHere, DataSent, DataHere
<1>7. Token(c)'
  BY <1>5, <1>6 DEF Service, Token
<1>8. Completions(c)'
  <2>1. Own(Client(c), "data", ClientAwaits(c))'
    <3>1. wire'[Peer(Client(c))]["data"] = 0
      BY <1>4
    <3>2. QED
      BY <1>1, <1>3, <1>5, <3>1 DEF Own
  <2>2. Own(Server(c), "ctrl", ServerAwaits(c))'
    <3>1. wire'[Peer(Server(c))]["ctrl"] = wire[Peer(Server(c))]["ctrl"]
      BY <1>4
    <3>2. Own(Server(c), "ctrl", ServerAwaits(c))
      BY DEF Service, Completions
    <3>3. QED
      BY <1>1, <1>5, <3>1, <3>2 DEF Own
  <2>3. /\ wire'[Server(c)]["ctrl"] = wire[Server(c)]["ctrl"]
        /\ wire'[Client(c)] = wire[Client(c)]
    BY <1>4
  <2>4. Completions(c)
    BY DEF Service
  <2>5. QED
    BY <1>1, <1>5, <2>1, <2>2, <2>3, <2>4 DEF Completions
<1>9. Receives(c)'
  <2>1. Receives(c)
    BY DEF Service
  <2>2. QED
    BY <1>1, <1>5, <1>6, <2>1 DEF Receives
<1>10. Service(c)'
  BY <1>7, <1>8, <1>9 DEF Service
<1>11. QED
  <2>1. /\ rq' \in [Threads -> [Channels -> Nat]] /\ unacked' \in [Threads -> [Channels -> Nat]]
        /\ cq' \in [Threads -> [Channels -> Seq(Kinds)]]
    BY <1>1 DEF Types
  <2>2. QED
    BY <1>1, <1>4, <1>5, <1>10, <2>1, ServeIInv

(* Ack and Fail at the server. *)
LEMMA ServerCompletes ==
  ASSUME IInv, NEW c \in Clients, Ack(Server(c), "ctrl") \/ Fail(Server(c), "ctrl")
  PROVE  IInv'
<1> USE ThreadFacts DEF IInv
<1>0. /\ "ctrl" \in Channels /\ "data" \in Channels /\ "data" # "ctrl"
      /\ wire \in [Threads -> [Channels -> Nat]] /\ unacked \in [Threads -> [Channels -> Nat]]
      /\ Own(Server(c), "ctrl", ServerAwaits(c))
  BY Tables DEF Service, Completions
<1>1. /\ wire[Client(c)]["ctrl"] > 0 => wire[Client(c)]["ctrl"] = 1 /\ unacked[Server(c)]["ctrl"] = 0
      /\ unacked[Server(c)]["ctrl"] > 0 => unacked[Server(c)]["ctrl"] = 1 /\ wire[Client(c)]["ctrl"] = 0
  BY <1>0 DEF Own
<1>2. UNCHANGED <<procs, pc, chan, connected, sock, qp, rq, loop>>
  BY DEF Ack, Fail
<1>3. PICK x \in {"SEND", "ERR"} :
        Completes(Server(c), "ctrl", x) /\ (x = "ERR" => PeerGone(Server(c)))
  BY DEF Ack, Fail, Completes
<1>4. \/ /\ unacked[Server(c)]["ctrl"] > 0 /\ wire' = wire
         /\ unacked' = [unacked EXCEPT ![Server(c)]["ctrl"] = unacked[Server(c)]["ctrl"] - 1]
      \/ /\ wire[Client(c)]["ctrl"] > 0 /\ unacked' = unacked
         /\ wire' = [wire EXCEPT ![Client(c)]["ctrl"] = wire[Client(c)]["ctrl"] - 1]
  BY DEF Ack, Fail
<1>5. /\ wire' \in [Threads -> [Channels -> Nat]] /\ wire'[Client(c)]["ctrl"] = 0
      /\ wire'[Client(c)]["data"] = wire[Client(c)]["data"]
      /\ \A r \in Threads : r # Client(c) => wire'[r] = wire[r]
  <2>1. CASE wire' = wire /\ wire[Client(c)]["ctrl"] = 0
    BY <1>0, <2>1
  <2>2. CASE /\ wire[Client(c)]["ctrl"] > 0
             /\ wire' = [wire EXCEPT ![Client(c)]["ctrl"] = wire[Client(c)]["ctrl"] - 1]
    BY <1>0, <1>1, <2>2, CountDown
  <2>3. QED
    BY <1>1, <1>4, <2>1, <2>2
<1>6. /\ unacked' \in [Threads -> [Channels -> Nat]] /\ unacked'[Server(c)]["ctrl"] = 0
      /\ unacked'[Server(c)]["data"] = unacked[Server(c)]["data"]
      /\ \A r \in Threads : r # Server(c) => unacked'[r] = unacked[r]
  <2>1. CASE unacked' = unacked /\ unacked[Server(c)]["ctrl"] = 0
    BY <1>0, <2>1
  <2>2. CASE /\ unacked[Server(c)]["ctrl"] > 0
             /\ unacked' = [unacked EXCEPT ![Server(c)]["ctrl"] = unacked[Server(c)]["ctrl"] - 1]
    BY <1>0, <1>1, <2>2, CountDown
  <2>3. QED
    BY <1>1, <1>4, <2>1, <2>2
<1>7. wire[Client(c)]["ctrl"] > 0 \/ unacked[Server(c)]["ctrl"] > 0
  BY <1>4
<1>8. QED
  BY <1>2, <1>3, <1>5, <1>6, <1>7, FinishCtrl, ZenonT(30)

(* Ack and Fail at the client. *)
LEMMA ClientCompletes ==
  ASSUME IInv, NEW c \in Clients, Ack(Client(c), "data") \/ Fail(Client(c), "data")
  PROVE  IInv'
<1> USE ThreadFacts DEF IInv
<1>0. /\ "ctrl" \in Channels /\ "data" \in Channels /\ "data" # "ctrl"
      /\ wire \in [Threads -> [Channels -> Nat]] /\ unacked \in [Threads -> [Channels -> Nat]]
      /\ Own(Client(c), "data", ClientAwaits(c))
  BY Tables DEF Service, Completions
<1>1. /\ wire[Server(c)]["data"] > 0 => wire[Server(c)]["data"] = 1 /\ unacked[Client(c)]["data"] = 0
      /\ unacked[Client(c)]["data"] > 0 => unacked[Client(c)]["data"] = 1 /\ wire[Server(c)]["data"] = 0
  BY <1>0 DEF Own
<1>2. UNCHANGED <<procs, pc, chan, connected, sock, qp, rq, loop>>
  BY DEF Ack, Fail
<1>3. PICK x \in {"WRITE", "ERR"} :
        Completes(Client(c), "data", x) /\ (x = "ERR" => PeerGone(Client(c)))
  BY DEF Ack, Fail, Completes
<1>4. \/ /\ unacked[Client(c)]["data"] > 0 /\ wire' = wire
         /\ unacked' = [unacked EXCEPT ![Client(c)]["data"] = unacked[Client(c)]["data"] - 1]
      \/ /\ wire[Server(c)]["data"] > 0 /\ unacked' = unacked
         /\ wire' = [wire EXCEPT ![Server(c)]["data"] = wire[Server(c)]["data"] - 1]
  BY DEF Ack, Fail
<1>5. /\ wire' \in [Threads -> [Channels -> Nat]] /\ wire'[Server(c)]["data"] = 0
      /\ wire'[Server(c)]["ctrl"] = wire[Server(c)]["ctrl"]
      /\ \A r \in Threads : r # Server(c) => wire'[r] = wire[r]
  <2>1. CASE wire' = wire /\ wire[Server(c)]["data"] = 0
    BY <1>0, <2>1
  <2>2. CASE /\ wire[Server(c)]["data"] > 0
             /\ wire' = [wire EXCEPT ![Server(c)]["data"] = wire[Server(c)]["data"] - 1]
    BY <1>0, <1>1, <2>2, CountDown
  <2>3. QED
    BY <1>1, <1>4, <2>1, <2>2
<1>6. /\ unacked' \in [Threads -> [Channels -> Nat]] /\ unacked'[Client(c)]["data"] = 0
      /\ unacked'[Client(c)]["ctrl"] = unacked[Client(c)]["ctrl"]
      /\ \A r \in Threads : r # Client(c) => unacked'[r] = unacked[r]
  <2>1. CASE unacked' = unacked /\ unacked[Client(c)]["data"] = 0
    BY <1>0, <2>1
  <2>2. CASE /\ unacked[Client(c)]["data"] > 0
             /\ unacked' = [unacked EXCEPT ![Client(c)]["data"] = unacked[Client(c)]["data"] - 1]
    BY <1>0, <1>1, <2>2, CountDown
  <2>3. QED
    BY <1>1, <1>4, <2>1, <2>2
<1>7. wire[Server(c)]["data"] > 0 \/ unacked[Client(c)]["data"] > 0
  BY <1>4
<1>8. QED
  BY <1>2, <1>3, <1>5, <1>6, <1>7, FinishData, ZenonT(30)

(* The adapters and the network. *)
LEMMA NetworkIInv ==
  ASSUME IInv, NEW t \in Threads, NEW h \in Channels, Network(t, h)
  PROVE  IInv'
<1> USE ThreadFacts
<1>1. PICK c \in Clients : t = Client(c) \/ t = Server(c)
  BY ThreadIs
<1>2. /\ wire[Client(c)]["data"] = 0 /\ wire[Server(c)]["ctrl"] = 0
      /\ unacked[Client(c)]["ctrl"] = 0 /\ unacked[Server(c)]["data"] = 0
  BY DEF IInv, Service, Completions
<1>3. h = "data" \/ h = "ctrl"
  BY DEF Channels
<1>4. CASE Deliver(t, h)
  <2>1. wire[t][h] > 0
    BY <1>4 DEF Deliver
  <2>2. (t = Client(c) /\ h = "ctrl") \/ (t = Server(c) /\ h = "data")
    BY <1>1, <1>2, <1>3, <2>1
  <2>3. QED
    BY <1>4, <2>2, DeliverCtrl, DeliverData
<1>5. CASE Ack(t, h) \/ Fail(t, h)
  <2>1. unacked[t][h] > 0 \/ wire[Peer(t)][h] > 0
    BY <1>5 DEF Ack, Fail
  <2>2. (t = Server(c) /\ h = "ctrl") \/ (t = Client(c) /\ h = "data")
    BY <1>1, <1>2, <1>3, <2>1
  <2>3. QED
    BY <1>5, <2>2, ServerCompletes, ClientCompletes
<1>6. CASE Lose(t, h)
  <2>1. wire[t][h] > 0
    BY <1>6 DEF Lose
  <2>2. (t = Client(c) /\ h = "ctrl") \/ (t = Server(c) /\ h = "data")
    BY <1>1, <1>2, <1>3, <2>1
  <2>3. QED
    BY <1>6, <2>2, LoseCtrl, LoseData
<1>7. QED
  BY <1>4, <1>5, <1>6 DEF Network

-----------------------------------------------------------------------------
(* Every step preserves the invariant. *)
LEMMA NextIInv == IInv /\ [Next]_vars => IInv'
<1> SUFFICES ASSUME IInv, [Next]_vars PROVE IInv'
  OBVIOUS
<1>1. CASE Listen
  BY <1>1, ListenIInv
<1>2. ASSUME NEW c \in Clients, ServerThread(c)
      PROVE  IInv'
  <2>1. Server(c) \in {Client(c), Server(c)}
    OBVIOUS
  <2>2. QED
    BY <1>2, <2>1, AcceptIInv, WriteIInv, ReadIInv, ConnectQpIInv, ServerPostRecvIInv, ServerSendIInv,
       ServerWaitCtrlIInv, ServerWaitDataIInv, ServerDecideIInv DEF ServerThread
<1>3. ASSUME NEW c \in Clients, ClientThread(c)
      PROVE  IInv'
  <2>1. Client(c) \in {Client(c), Server(c)}
    OBVIOUS
  <2>2. QED
    BY <1>3, <2>1, ConnectIInv, WriteIInv, ReadIInv, ConnectQpIInv, PrePostIInv, ClientWaitDataIInv,
       ClientWaitCtrlIInv, ClientRepostIInv, ClientWriteIInv, ClientTurnEndsIInv DEF ClientThread
<1>4. ASSUME NEW c \in Clients, ConnectTimeout(c) \/ Die(c)
      PROVE  IInv'
  BY <1>4, ConnectTimeoutIInv, DieIInv
<1>5. ASSUME NEW t \in Threads, NEW h \in Channels, Network(t, h)
      PROVE  IInv'
  BY <1>5, NetworkIInv
<1>6. CASE UNCHANGED vars
  <2>1. UNCHANGED <<up, listening, pc, chan, connected, sock, qp, rq, wire, unacked, cq, wc, data_inflight>>
    BY <1>6 DEF vars, procs, verbs, loop
  <2>2. Types' /\ Downward
    BY <2>1 DEF IInv, Types, Downward
  <2>3. ASSUME NEW d \in Clients
        PROVE  Shake(d)' /\ Service(d)'
    <3>1. Same(d)
      BY <2>1 DEF Same, SameAt
    <3>2. QED
      BY <2>2, <3>1, SameFrame DEF IInv
  <2>4. QED
    BY <2>1, <2>2, <2>3, LossFrame DEF IInv
<1>7. QED
  BY <1>1, <1>2, <1>3, <1>4, <1>5, <1>6 DEF Next

(* IInv is an invariant of every behaviour. *)
LEMMA Invariance == Spec => []IInv
<1>1. QED
  BY InitIInv, NextIInv, PTL DEF Spec

(* StreamMatches is an invariant for any set of clients: what a side reads *)
(* from the byte stream is what it expects for the channel it connects,    *)
(* whoever is killed meanwhile.                                            *)
THEOREM StreamParsed == Spec => []StreamMatches
<1>1. IInv => StreamMatches
  <2> SUFFICES ASSUME IInv, NEW t \in Threads, pc[t] \in {"read_dest", "read_ready"}, sock[t] # << >>
               PROVE  Head(sock[t]) = <<chan[t], IF pc[t] = "read_dest" THEN "dest" ELSE "ready">>
    BY DEF StreamMatches
  <2>1. PICK c \in Clients : t \in {Client(c), Server(c)}
    BY ThreadIs
  <2>2. Types /\ Shake(c)
    BY DEF IInv
  <2>3. QED
    BY <2>1, <2>2, ReadExpected
<1>2. QED
  BY <1>1, Invariance, PTL

(* NoRNR is an invariant for any set of clients: a message is on its way   *)
(* only to a queue pair that is up and has a receive posted for it.        *)
THEOREM ReceivesPosted == Spec => []NoRNR
<1>1. IInv => NoRNR
  <2> SUFFICES ASSUME IInv, NEW t \in Threads, NEW h \in Channels, wire[t][h] > 0
               PROVE  qp[t][h] = "RTS" /\ rq[t][h] >= wire[t][h]
    BY DEF NoRNR
  <2> USE ThreadFacts DEF IInv
  <2>1. PICK c \in Clients : t = Client(c) \/ t = Server(c)
    BY ThreadIs
  <2>2. /\ wire[Client(c)]["data"] = 0 /\ wire[Server(c)]["ctrl"] = 0
        /\ Own(Server(c), "ctrl", ServerAwaits(c)) /\ Own(Client(c), "data", ClientAwaits(c))
        /\ Receives(c)
    BY DEF Service, Completions
  <2>3. (t = Client(c) /\ h = "ctrl") \/ (t = Server(c) /\ h = "data")
    BY <2>1, <2>2 DEF Channels
  <2>4. CASE t = Client(c) /\ h = "ctrl"
    <3>1. CtrlSent(c) /\ wire[Client(c)]["ctrl"] = 1
      BY <2>2, <2>4 DEF CtrlSent, Own
    <3>2. Serving(Server(c)) /\ ~CtrlHere(c) /\ ~Handling(c)
      BY <3>1 DEF Service, Token, AtClient
    <3>3. Serving(Client(c))
      BY <3>2, ServingBoth
    <3>4. rq[Client(c)]["ctrl"] = 1
      BY <2>2, <3>2, <3>3 DEF Receives
    <3>5. qp[Client(c)]["ctrl"] = "RTS"
      BY <3>3 DEF Shake, Posture, Paired
    <3>6. QED
      BY <2>4, <3>1, <3>4, <3>5
  <2>5. CASE t = Server(c) /\ h = "data"
    <3>1. DataSent(c) /\ wire[Server(c)]["data"] = 1
      BY <2>2, <2>5 DEF DataSent, Own
    <3>2. Serving(Server(c)) /\ ~AtServer(c) /\ ~DataHere(c)
      BY <3>1 DEF Service, Token
    <3>3. rq[Server(c)]["data"] = 1
      BY <2>2, <3>2 DEF Receives, Serving, AtServer
    <3>4. qp[Server(c)]["data"] = "RTS"
      BY <3>2 DEF Shake, Posture, Paired
    <3>5. QED
      BY <2>5, <3>1, <3>3, <3>4
  <2>6. QED
    BY <2>3, <2>4, <2>5
<1>2. QED
  BY <1>1, Invariance, PTL

(* FatalOnlyAfterLoss is an invariant for any set of clients: no LOG(FATAL) *)
(* fires among live processes.                                             *)
THEOREM EndsOnlyAfterLoss == Spec => []FatalOnlyAfterLoss
<1>1. IInv => FatalOnlyAfterLoss
  BY DEF IInv
<1>2. QED
  BY <1>1, Invariance, PTL

(* A queue of at most one completion. *)
LEMMA ShortQueue ==
  ASSUME NEW x, NEW q \in {<< >>, <<x>>, <<"ERR">>}, NEW u \in Nat, NEW w \in Nat, u + w <= 1,
         q # << >> => u = 0 /\ w = 0
  PROVE  Len(q) + u + w <= 1 /\ \A k \in DOMAIN q : q[k] = x \/ (q[k] = "ERR" /\ q = <<"ERR">>)
<1>1. CASE q = << >>
  <2>1. Len(q) = 0 /\ DOMAIN q = {}
    BY <1>1
  <2>2. QED
    BY <2>1
<1>2. CASE q = <<x>>
  <2>1. Len(q) = 1 /\ DOMAIN q = {1} /\ q[1] = x /\ q # << >>
    BY <1>2
  <2>2. QED
    BY <2>1
<1>3. CASE q = <<"ERR">>
  <2>1. Len(q) = 1 /\ DOMAIN q = {1} /\ q[1] = "ERR" /\ q # << >>
    BY <1>3
  <2>2. QED
    BY <1>3, <2>1
<1>4. QED
  BY <1>1, <1>2, <1>3

(* CompletionsBalanced is an invariant for any set of clients: no queue    *)
(* holds more than this turn's completion, of the kind its channel is for, *)
(* or a failure after the peer's end.                                      *)
THEOREM Balanced == Spec => []CompletionsBalanced
<1> DEFINE Kind(t, h) == CASE IsServer(t) /\ h = "data" -> "IMM"
                           [] IsServer(t) /\ h = "ctrl" -> "SEND"
                           [] ~IsServer(t) /\ h = "data" -> "WRITE"
                           [] ~IsServer(t) /\ h = "ctrl" -> "RECV"
<1>1. ASSUME IInv, NEW t \in Threads, NEW h \in Channels
      PROVE  /\ Len(cq[t][h]) + unacked[t][h] + wire[Peer(t)][h] <= 1
             /\ \A k \in DOMAIN cq[t][h] :
                  (cq[t][h][k] = "ERR" /\ PeerGone(t)) \/ cq[t][h][k] = Kind(t, h)
  <2> USE ThreadFacts DEF IInv
  <2>1. PICK c \in Clients : t = Client(c) \/ t = Server(c)
    BY <1>1, ThreadIs
  <2>2. unacked[t][h] \in Nat /\ wire[Peer(t)][h] \in Nat /\ (h = "data" \/ h = "ctrl")
    <3>1. h = "data" \/ h = "ctrl"
      BY DEF Channels
    <3>2. Peer(t) \in Threads
      BY <2>1
    <3>3. unacked \in [Threads -> [Channels -> Nat]] /\ wire \in [Threads -> [Channels -> Nat]]
      BY <1>1, Tables
    <3>4. QED
      BY <3>1, <3>2, <3>3
  <2>3. Completions(c)
    BY <1>1 DEF Service
  <2> DEFINE q == cq[t][h]  u == unacked[t][h]  w == wire[Peer(t)][h]
  <2>4. PICK x : /\ x = Kind(t, h) /\ q \in {<< >>, <<x>>, <<"ERR">>} /\ u + w <= 1
                 /\ q # << >> => u = 0 /\ w = 0
                 /\ q = <<"ERR">> => PeerGone(t)
    <3>1. CASE t = Server(c) /\ h = "ctrl"
      <4>1. Kind(t, h) = "SEND"
        BY <3>1
      <4>2. Own(t, h, ServerAwaits(c)) /\ q \in {<< >>, <<"SEND">>, <<"ERR">>}
        BY <2>3, <3>1 DEF Completions
      <4>3. u + w <= 1 /\ (q # << >> => u = 0 /\ w = 0) /\ (q = <<"ERR">> => PeerGone(t))
        BY <2>2, <4>2 DEF Own
      <4>4. QED
        BY <4>1, <4>2, <4>3
    <3>2. CASE t = Client(c) /\ h = "data"
      <4>1. Kind(t, h) = "WRITE"
        BY <3>2
      <4>2. Own(t, h, ClientAwaits(c)) /\ q \in {<< >>, <<"WRITE">>, <<"ERR">>}
        BY <2>3, <3>2 DEF Completions
      <4>3. u + w <= 1 /\ (q # << >> => u = 0 /\ w = 0) /\ (q = <<"ERR">> => PeerGone(t))
        BY <2>2, <4>2 DEF Own
      <4>4. QED
        BY <4>1, <4>2, <4>3
    <3>3. CASE t = Server(c) /\ h = "data"
      <4>1. Kind(t, h) = "IMM"
        BY <3>3
      <4>2. u = 0 /\ w = 0 /\ q \in {<< >>, <<"IMM">>}
        BY <2>3, <3>3 DEF Completions
      <4>3. <<"IMM">> # <<"ERR">> /\ << >> # <<"ERR">>
        OBVIOUS
      <4>4. u + w <= 1 /\ q # <<"ERR">>
        <5> HIDE DEF q, u, w
        <5>1. u + w <= 1
          BY <4>2
        <5>2. q # <<"ERR">>
          BY <4>2, <4>3, Zenon
        <5>3. QED
          BY <5>1, <5>2
      <4>5. QED
        BY <4>1, <4>2, <4>4
    <3>4. CASE t = Client(c) /\ h = "ctrl"
      <4>1. Kind(t, h) = "RECV"
        BY <3>4
      <4>2. u = 0 /\ w = 0 /\ q \in {<< >>, <<"RECV">>}
        BY <2>3, <3>4 DEF Completions
      <4>3. <<"RECV">> # <<"ERR">> /\ << >> # <<"ERR">>
        OBVIOUS
      <4>4. u + w <= 1 /\ q # <<"ERR">>
        <5> HIDE DEF q, u, w
        <5>1. u + w <= 1
          BY <4>2
        <5>2. q # <<"ERR">>
          BY <4>2, <4>3, Zenon
        <5>3. QED
          BY <5>1, <5>2
      <4>5. QED
        BY <4>1, <4>2, <4>4
    <3>5. QED
      BY <2>1, <2>2, <3>1, <3>2, <3>3, <3>4
  <2> HIDE ThreadFacts DEF IInv, Kind, q, u, w
  <2>5. u \in Nat /\ w \in Nat
    BY <2>2 DEF u, w
  <2>6. Len(q) + u + w <= 1 /\ \A k \in DOMAIN q : q[k] = x \/ (q[k] = "ERR" /\ q = <<"ERR">>)
    BY <2>4, <2>5, ShortQueue
  <2>7. \A k \in DOMAIN q : (q[k] = "ERR" /\ PeerGone(t)) \/ q[k] = Kind(t, h)
    BY <2>4, <2>6
  <2>8. QED
    BY <2>6, <2>7 DEF q, u, w
<1>2. IInv => CompletionsBalanced
  BY <1>1 DEF CompletionsBalanced
<1>3. QED
  BY <1>2, Invariance, PTL

=============================================================================
