--------------------------- MODULE NewRdmaSession ---------------------------
(***************************************************************************)
(* The new_rdma server and its clients.  A client connects by TCP, the     *)
(* server accepts for ever and gives each connection a thread, and the two *)
(* ends of a connection bring up a data and then a control channel         *)
(* (connect_active, connect_passive) and run start_service for ever: the   *)
(* server posts a receive on the data channel and sends its memory         *)
(* information on the control channel, the client answers with a write     *)
(* with immediate on the data channel.  Each side polls exactly one        *)
(* completion of each channel per turn.                                    *)
(*                                                                         *)
(* Some clients may be killed at any moment.  LOG(FATAL) ends a process:   *)
(* on the server that is every connection at once.  TCP and the verbs      *)
(* library are external, as in module RDMASession.                         *)
(*                                                                         *)
(* A definition named D_what is D with a plausible bug; it stands before D *)
(* and nothing uses it but the runs that show a property can fail.         *)
(***************************************************************************)
EXTENDS Naturals, Sequences

CONSTANTS
  Clients,   \* the client processes
  Mortal     \* those that may be killed

ASSUME MortalAssumption == Mortal \subseteq Clients /\ "server" \notin Clients

VARIABLES
  up,          \* which processes run
  listening,   \* whether the server listens
  pc,          \* where each thread is: a client's, and the server's one for each client
  chan,        \* the channel it is connecting
  connected,   \* whether a client's socket is connected
  sock,        \* what was written to a thread's socket and is not read yet
  qp,          \* the state of each channel's queue pair, per thread
  rq,          \* posted receives
  wire,        \* messages on the way
  unacked,     \* delivered messages with no completion yet
  cq,          \* completion queues
  wc,          \* the completions polled in this turn
  data_inflight   \* the clients' flag: the last turn posted a write

procs == <<up, listening>>
verbs == <<qp, rq, wire, unacked, cq>>
loop  == <<wc, data_inflight>>
vars  == <<procs, pc, chan, connected, sock, verbs, loop>>

Threads == Clients \X {"client", "server"}
Channels == {"data", "ctrl"}

Client(c) == <<c, "client">>
Server(c) == <<c, "server">>
IsServer(t) == t[2] = "server"
Peer(t) == <<t[1], IF IsServer(t) THEN "client" ELSE "server">>

(* The process a thread belongs to. *)
Proc(t) == IF IsServer(t) THEN "server" ELSE t[1]
PeerGone(t) == ~up[Proc(Peer(t))]

At(t, labels) == up[Proc(t)] /\ pc[t] \in labels
Goto(t, label) == pc' = [pc EXCEPT ![t] = label]

(* LOG(FATAL). *)
Fatal(t) == up' = [up EXCEPT ![Proc(t)] = FALSE] /\ UNCHANGED <<pc, chan>>

PerChannel(x) == [t \in Threads |-> [h \in Channels |-> x]]

Steps_ready_forgotten(t) ==
  IF IsServer(t)
    THEN <<"read_dest", "connect_qp", "write_dest", "read_ready">>
    ELSE <<"write_dest", "read_dest", "connect_qp", "prepost">>

(* The order of the steps that connect a channel. *)
Steps(t) ==
  IF IsServer(t)
    THEN <<"read_dest", "connect_qp", "write_dest", "read_ready">>
    ELSE <<"write_dest", "read_dest", "connect_qp", "prepost", "write_ready">>

Init ==
  /\ up = [p \in Clients \cup {"server"} |-> TRUE]
  /\ listening = FALSE
  /\ pc = [t \in Threads |-> IF IsServer(t) THEN "accept" ELSE "connect"]
  /\ chan = [t \in Threads |-> "data"]
  /\ connected = [c \in Clients |-> FALSE]
  /\ sock = [t \in Threads |-> << >>]
  /\ qp = PerChannel("none")
  /\ rq = PerChannel(0)
  /\ wire = PerChannel(0)
  /\ unacked = PerChannel(0)
  /\ cq = PerChannel(<< >>)
  /\ wc = PerChannel("none")
  /\ data_inflight = [c \in Clients |-> FALSE]

-----------------------------------------------------------------------------
(* The TCP connection. *)

(* before_connect: bind and listen. *)
Listen ==
  /\ up["server"] /\ ~listening
  /\ listening' = TRUE
  /\ UNCHANGED <<up, pc, chan, connected, sock, verbs, loop>>

(* do_connect's RDMAChannels: init_ctx takes both queue pairs to INIT. *)
InitChannels(t) == qp' = [qp EXCEPT ![t] = [h \in Channels |-> "INIT"]]

(* pre_connecting succeeds. *)
Connect(c) ==
  /\ At(Client(c), {"connect"})
  /\ up["server"] /\ listening
  /\ connected' = [connected EXCEPT ![c] = TRUE]
  /\ InitChannels(Client(c))
  /\ Goto(Client(c), "write_dest")
  /\ UNCHANGED <<procs, chan, sock, rq, wire, unacked, cq, loop>>

(* All retries fail: is_connected_ is set all the same, and the client     *)
(* goes on with a socket that is not connected.                            *)
ConnectTimeout(c) ==
  /\ At(Client(c), {"connect"})
  /\ ~(up["server"] /\ listening)
  /\ InitChannels(Client(c))
  /\ Goto(Client(c), "write_dest")
  /\ UNCHANGED <<procs, chan, connected, sock, rq, wire, unacked, cq, loop>>

(* accept, store_session and the connection's own thread; a connection is  *)
(* accepted even if its client has gone meanwhile.                         *)
Accept(c) ==
  /\ At(Server(c), {"accept"})
  /\ connected[c]
  /\ InitChannels(Server(c))
  /\ Goto(Server(c), "read_dest")
  /\ UNCHANGED <<procs, chan, connected, sock, rq, wire, unacked, cq, loop>>

-----------------------------------------------------------------------------
(* Connecting the channels. *)

(* After the last step of a channel the next channel, or the service. *)
Advance(t) ==
  LET i == CHOOSE k \in DOMAIN Steps(t) : Steps(t)[k] = pc[t]
  IN  /\ UNCHANGED up
      /\ IF i < Len(Steps(t))
           THEN Goto(t, Steps(t)[i + 1]) /\ UNCHANGED chan
           ELSE IF chan[t] = "data"
             THEN Goto(t, Steps(t)[1]) /\ chan' = [chan EXCEPT ![t] = "ctrl"]
             ELSE Goto(t, IF IsServer(t) THEN "post_recv" ELSE "wait_data") /\ UNCHANGED chan

(* The connection is reset when a process ends with bytes it has not read, *)
(* and when its peer writes to it after its end (external).                *)
Reset(t) == PeerGone(t) /\ sock[Peer(t)] # << >>

(* On ECONNRESET read_exact and write_exact sleep for ever. *)
SleepForEver(t) == Reset(t) /\ Goto(t, "asleep") /\ UNCHANGED <<up, chan>>

(* write_exact.  What is written to a process that has ended is buffered   *)
(* until the reset arrives; after that, and without a connection, the      *)
(* write fails or raises SIGPIPE, and either ends the process.             *)
Write(t) ==
  /\ At(t, {"write_dest", "write_ready"})
  /\ \/ /\ connected[t[1]]
        /\ sock' = [sock EXCEPT ![Peer(t)] =
              Append(@, <<chan[t], IF pc[t] = "write_dest" THEN "dest" ELSE "ready">>)]
        /\ Advance(t)
     \/ SleepForEver(t) /\ UNCHANGED sock
     \/ (connected[t[1]] => Reset(t)) /\ Fatal(t) /\ UNCHANGED sock
  /\ UNCHANGED <<listening, connected, verbs, loop>>

Read_ready_not_awaited(t) ==
  /\ At(t, {"read_dest", "read_ready"})
  /\ pc[t] = "read_dest" => sock[t] # << >>
  /\ sock' = [sock EXCEPT ![t] = IF @ = << >> THEN @ ELSE Tail(@)]
  /\ Advance(t)
  /\ UNCHANGED <<listening, connected, verbs, loop>>

(* read_exact.  Anything else than "Ready" where it is expected is fatal,  *)
(* and so is the short count at the end of the stream.                     *)
Read(t) ==
  /\ At(t, {"read_dest", "read_ready"})
  /\ \/ /\ sock[t] # << >>
        /\ sock' = [sock EXCEPT ![t] = Tail(@)]
        /\ IF pc[t] = "read_ready" /\ Head(sock[t])[2] # "ready" THEN Fatal(t) ELSE Advance(t)
     \/ /\ sock[t] = << >> /\ PeerGone(t)
        /\ Fatal(t) \/ SleepForEver(t)
        /\ UNCHANGED sock
  /\ UNCHANGED <<listening, connected, verbs, loop>>

(* RDMAAdapter::connect_qp: to RTR and RTS. *)
ConnectQp(t) ==
  /\ At(t, {"connect_qp"})
  /\ qp' = [qp EXCEPT ![t][chan[t]] = "RTS"]
  /\ Advance(t)
  /\ UNCHANGED <<listening, connected, sock, rq, wire, unacked, cq, loop>>

(* The client's post_ctrl_recv on either channel. *)
PrePost(t) ==
  /\ At(t, {"prepost"})
  /\ rq' = [rq EXCEPT ![t][chan[t]] = @ + 1]
  /\ Advance(t)
  /\ UNCHANGED <<listening, connected, sock, qp, wire, unacked, cq, loop>>

-----------------------------------------------------------------------------
(* start_service. *)

(* wait_for_wc on one channel takes one completion. *)
TakeWc(t, h) ==
  /\ cq[t][h] # << >>
  /\ cq' = [cq EXCEPT ![t][h] = Tail(@)]
  /\ wc' = [wc EXCEPT ![t][h] = Head(cq[t][h])]

(* Server: a receive on the data channel ... *)
ServerPostRecv(c) ==
  /\ At(Server(c), {"post_recv"})
  /\ rq' = [rq EXCEPT ![Server(c)]["data"] = @ + 1]
  /\ Goto(Server(c), "send")
  /\ UNCHANGED <<procs, chan, connected, sock, qp, wire, unacked, cq, loop>>

(* ... the memory information on the control channel ... *)
ServerSend(c) ==
  /\ At(Server(c), {"send"})
  /\ wire' = [wire EXCEPT ![Client(c)]["ctrl"] = @ + 1]
  /\ Goto(Server(c), "wait_ctrl")
  /\ UNCHANGED <<procs, chan, connected, sock, qp, rq, unacked, cq, loop>>

(* ... and one completion of each, in this order, ... *)
ServerWaitCtrl(c) ==
  /\ At(Server(c), {"wait_ctrl"})
  /\ TakeWc(Server(c), "ctrl")
  /\ Goto(Server(c), "wait_data")
  /\ UNCHANGED <<procs, chan, connected, sock, qp, rq, wire, unacked, data_inflight>>

ServerWaitData(c) ==
  /\ At(Server(c), {"wait_data"})
  /\ TakeWc(Server(c), "data")
  /\ Goto(Server(c), "decide")
  /\ UNCHANGED <<procs, chan, connected, sock, qp, rq, wire, unacked, data_inflight>>

ServerDecide_waits_for_recv(c) ==
  /\ At(Server(c), {"decide"})
  /\ Goto(Server(c), IF \E h \in Channels : wc[Server(c)][h] = "RECV" THEN "post_recv" ELSE "wait_ctrl")
  /\ UNCHANGED <<procs, chan, connected, sock, verbs, loop>>

(* ... until one of them is a reception; their status is looked at only    *)
(* when both are there, and a failed one is fatal.                         *)
ServerDecide(c) ==
  /\ At(Server(c), {"decide"})
  /\ LET got == {wc[Server(c)][h] : h \in Channels}
     IN  IF "ERR" \in got
           THEN Fatal(Server(c))
           ELSE /\ Goto(Server(c), IF got \cap {"RECV", "IMM"} # {} THEN "post_recv" ELSE "wait_ctrl")
                /\ UNCHANGED <<up, chan>>
  /\ UNCHANGED <<listening, connected, sock, verbs, loop>>

(* Client: the completion of its last write, if there was one, ... *)
ClientWaitData(c) ==
  /\ At(Client(c), {"wait_data"})
  /\ IF data_inflight[c] THEN TakeWc(Client(c), "data") ELSE UNCHANGED <<cq, wc>>
  /\ IF data_inflight[c] /\ Head(cq[Client(c)]["data"]) = "ERR"
       THEN Fatal(Client(c))
       ELSE Goto(Client(c), "wait_ctrl") /\ UNCHANGED <<up, chan>>
  /\ UNCHANGED <<listening, connected, sock, qp, rq, wire, unacked, data_inflight>>

(* ... then one of the control channel ... *)
ClientWaitCtrl(c) ==
  /\ At(Client(c), {"wait_ctrl"})
  /\ TakeWc(Client(c), "ctrl")
  /\ IF Head(cq[Client(c)]["ctrl"]) = "ERR"
       THEN Fatal(Client(c))
       ELSE Goto(Client(c), "handle") /\ UNCHANGED <<up, chan>>
  /\ UNCHANGED <<listening, connected, sock, qp, rq, wire, unacked, data_inflight>>

ClientRepost_forgotten(c) ==
  /\ At(Client(c), {"handle"})
  /\ \E h \in Channels : wc[Client(c)][h] = "RECV"
  /\ Goto(Client(c), "write")
  /\ UNCHANGED <<procs, chan, connected, sock, verbs, loop>>

(* ... and for each reception a new receive ... *)
ClientRepost(c) ==
  /\ At(Client(c), {"handle"})
  /\ \E h \in Channels : wc[Client(c)][h] = "RECV"
  /\ rq' = [rq EXCEPT ![Client(c)]["ctrl"] = @ + 1]
  /\ Goto(Client(c), "write")
  /\ UNCHANGED <<procs, chan, connected, sock, qp, wire, unacked, cq, loop>>

(* ... and a write with immediate on the data channel. *)
ClientWrite(c) ==
  /\ At(Client(c), {"write"})
  /\ wire' = [wire EXCEPT ![Server(c)]["data"] = @ + 1]
  /\ \E h \in Channels :
       /\ wc[Client(c)][h] = "RECV"
       /\ wc' = [wc EXCEPT ![Client(c)][h] = "none"]
  /\ Goto(Client(c), "handle")
  /\ UNCHANGED <<procs, chan, connected, sock, qp, rq, unacked, cq, data_inflight>>

ClientTurnEnds_data_not_polled(c) ==
  /\ At(Client(c), {"handle"})
  /\ \A h \in Channels : wc[Client(c)][h] # "RECV"
  /\ Goto(Client(c), "wait_data")
  /\ UNCHANGED <<procs, chan, connected, sock, verbs, loop>>

(* After its first turn the client takes a completion of the data channel  *)
(* in each.                                                                *)
ClientTurnEnds(c) ==
  /\ At(Client(c), {"handle"})
  /\ \A h \in Channels : wc[Client(c)][h] # "RECV"
  /\ data_inflight' = [data_inflight EXCEPT ![c] = TRUE]
  /\ Goto(Client(c), "wait_data")
  /\ UNCHANGED <<procs, chan, connected, sock, verbs, wc>>

-----------------------------------------------------------------------------
(* The adapters, the network and the end of processes (external). *)

Deliver(t, h) ==
  /\ wire[t][h] > 0
  /\ up[Proc(t)]
  /\ qp[t][h] = "RTS"
  /\ rq[t][h] > 0
  /\ wire' = [wire EXCEPT ![t][h] = @ - 1]
  /\ rq' = [rq EXCEPT ![t][h] = @ - 1]
  /\ unacked' = [unacked EXCEPT ![Peer(t)][h] = @ + 1]
  /\ cq' = [cq EXCEPT ![t][h] = Append(@, IF h = "data" THEN "IMM" ELSE "RECV")]
  /\ UNCHANGED <<procs, pc, chan, connected, sock, qp, loop>>

Ack(t, h) ==
  /\ up[Proc(t)]
  /\ unacked[t][h] > 0
  /\ unacked' = [unacked EXCEPT ![t][h] = @ - 1]
  /\ cq' = [cq EXCEPT ![t][h] = Append(@, IF h = "data" THEN "WRITE" ELSE "SEND")]
  /\ UNCHANGED <<procs, pc, chan, connected, sock, qp, rq, wire, loop>>

(* A message to a process that has ended, or one whose acknowledgement     *)
(* that process no longer sent, completes with an error.                   *)
Fail(t, h) ==
  /\ up[Proc(t)] /\ PeerGone(t)
  /\ \/ /\ wire[Peer(t)][h] > 0
        /\ wire' = [wire EXCEPT ![Peer(t)][h] = @ - 1]
        /\ UNCHANGED unacked
     \/ /\ unacked[t][h] > 0
        /\ unacked' = [unacked EXCEPT ![t][h] = @ - 1]
        /\ UNCHANGED wire
  /\ cq' = [cq EXCEPT ![t][h] = Append(@, "ERR")]
  /\ UNCHANGED <<procs, pc, chan, connected, sock, qp, rq, loop>>

(* A message of a process that has ended may never have left it. *)
Lose(t, h) ==
  /\ up[Proc(t)] /\ PeerGone(t)
  /\ wire[t][h] > 0
  /\ wire' = [wire EXCEPT ![t][h] = @ - 1]
  /\ UNCHANGED <<procs, pc, chan, connected, sock, qp, rq, unacked, cq, loop>>

(* A client is killed. *)
Die(c) ==
  /\ c \in Mortal /\ up[c]
  /\ up' = [up EXCEPT ![c] = FALSE]
  /\ UNCHANGED <<listening, pc, chan, connected, sock, verbs, loop>>

-----------------------------------------------------------------------------

ServerThread(c) ==
  \/ Accept(c) \/ Write(Server(c)) \/ Read(Server(c)) \/ ConnectQp(Server(c))
  \/ ServerPostRecv(c) \/ ServerSend(c) \/ ServerWaitCtrl(c) \/ ServerWaitData(c)
  \/ ServerDecide(c)

ClientThread(c) ==
  \/ Connect(c) \/ Write(Client(c)) \/ Read(Client(c)) \/ ConnectQp(Client(c))
  \/ PrePost(Client(c))
  \/ ClientWaitData(c) \/ ClientWaitCtrl(c) \/ ClientRepost(c) \/ ClientWrite(c)
  \/ ClientTurnEnds(c)

Network(t, h) == Deliver(t, h) \/ Ack(t, h) \/ Fail(t, h) \/ Lose(t, h)

Next ==
  \/ Listen
  \/ \E c \in Clients : ServerThread(c) \/ ClientThread(c) \/ ConnectTimeout(c) \/ Die(c)
  \/ \E t \in Threads, h \in Channels : Network(t, h)

(* Both programs are started and their threads scheduled, and a reliable   *)
(* connection delivers and acknowledges.                                   *)
Spec ==
  /\ Init /\ [][Next]_vars
  /\ WF_vars(Listen)
  /\ \A c \in Clients : WF_vars(ServerThread(c)) /\ WF_vars(ClientThread(c))
  /\ \A t \in Threads, h \in Channels : WF_vars(Deliver(t, h)) /\ WF_vars(Ack(t, h))

-----------------------------------------------------------------------------
(* Properties. *)

(* Both channels are connected over one byte stream and by sides that read *)
(* and write in opposite orders: what a side reads is what it expects, for *)
(* the channel it is connecting, whatever happens to the other processes.  *)
StreamMatches ==
  \A t \in Threads : pc[t] \in {"read_dest", "read_ready"} /\ sock[t] # << >> =>
    Head(sock[t]) = <<chan[t], IF pc[t] = "read_dest" THEN "dest" ELSE "ready">>

(* No message is posted before its receiver's queue pair is up and has a   *)
(* receive for it; the receives the client posts before it says "Ready"    *)
(* are what makes this so for the first.                                   *)
NoRNR ==
  \A t \in Threads, h \in Channels :
    wire[t][h] > 0 => qp[t][h] = "RTS" /\ rq[t][h] >= wire[t][h]

(* A side polls one completion of a channel per turn, so one too many      *)
(* would be taken for the next turn's from then on: no queue ever holds    *)
(* more than the one of this turn, none is of another kind than the        *)
(* channel is for, and none fails while the peer lives.                    *)
CompletionsBalanced ==
  \A t \in Threads, h \in Channels :
    /\ Len(cq[t][h]) + unacked[t][h] + wire[Peer(t)][h] <= 1
    /\ \A k \in DOMAIN cq[t][h] :
         \/ cq[t][h][k] = "ERR" /\ PeerGone(t)
         \/ cq[t][h][k] = CASE IsServer(t) /\ h = "data" -> "IMM"
                            [] IsServer(t) /\ h = "ctrl" -> "SEND"
                            [] ~IsServer(t) /\ h = "data" -> "WRITE"
                            [] ~IsServer(t) /\ h = "ctrl" -> "RECV"

(* No LOG(FATAL) fires among live processes: the server ends only after a  *)
(* connected client was killed, and a client nobody killed ends only if it *)
(* never got a connection or lost its server.                              *)
FatalOnlyAfterLoss ==
  /\ ~up["server"] => \E c \in Mortal : connected[c] /\ ~up[c]
  /\ \A c \in Clients \ Mortal : ~up[c] => ~connected[c] \/ ~up["server"]

(* The connections are independent of each other except for the end of     *)
(* the server: unless its client ends or the server does, a connection's   *)
(* data flows for ever, also while the server's thread for a killed client *)
(* spins or sleeps.                                                        *)
Progress ==
  \A c \in Clients : []<>(pc[Client(c)] = "write") \/ <>(~up[c] \/ ~up["server"])

=============================================================================
