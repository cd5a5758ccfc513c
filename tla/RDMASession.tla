---------------------------- MODULE RDMASession ----------------------------
(***************************************************************************)
(* One connection of the networking service: the session a client thread   *)
(* opens (run_tests_send_side) and the one the server serves in a thread   *)
(* of its own (run_tests_recv_side), from the TCP handshake that brings    *)
(* the two queue pairs up to the endless exchange of data and credits.     *)
(*                                                                         *)
(* The TCP socket and the verbs library are external: a socket is a FIFO   *)
(* byte stream cut at the sizes both sides exchange, a reliable-connected  *)
(* queue pair delivers in order, a message that carries an immediate or is *)
(* a SEND consumes a posted receive, and each side has one completion      *)
(* queue with an optional event channel.                                   *)
(*                                                                         *)
(* A definition named D_what is D with a plausible bug; it stands before D *)
(* and nothing uses it but the runs that show a property can fail.         *)
(***************************************************************************)
EXTENDS Naturals, Sequences, FiniteSets

CONSTANTS
  MaxUnacked,  \* the most delivered messages whose acknowledgement is late
  Mortal       \* the sides whose process may be killed

ASSUME UnackedAssumption == MaxUnacked \in Nat \ {0}
ASSUME MortalAssumption == Mortal \subseteq {"server", "client"}

VARIABLES
  use_event,   \* Config::use_event of both sides
  up,          \* whether each side's process runs
  pc,          \* where each side's thread is
  sent,        \* whether its sock_sync_data has written and is reading
  sock,        \* what the peer wrote to its socket and it has not read
  qp,          \* the state of its queue pair
  rq,          \* its posted receives
  wire,        \* messages on the way to it
  unacked,     \* its delivered messages with no completion yet
  cq,          \* its completion queue
  armed,       \* ibv_req_notify_cq is in force
  events       \* completion events not yet fetched

verbs == <<qp, rq, wire, unacked, cq, armed, events>>
vars  == <<use_event, up, pc, sent, sock, verbs>>

Sides == {"server", "client"}

Peer(s) == CHOOSE p \in Sides : p # s

(* What a side does before its loop: session_init (resources_init,         *)
(* resources_create, connect_qp), then the first lines of run_tests_*_side.*)
Program ==
  <<"greet", "create", "exchange", "to_init", "to_rtr", "to_rts", "sync_Q",
    "sync_before", "pull", "sync_after">>

(* The points where a side calls sock_sync_data. *)
SyncPoints == {"greet", "exchange", "sync_Q", "sync_before", "sync_after"}

LoopTop == IF use_event THEN "wait" ELSE "poll"

AfterHandshake(s) == IF s = "client" THEN "push" ELSE LoopTop

(* Where side s goes when the step at pc[s] is done. *)
NextPc(s) ==
  LET i == CHOOSE k \in DOMAIN Program : Program[k] = pc[s]
  IN  IF i = Len(Program) THEN AfterHandshake(s) ELSE Program[i + 1]

At(s, labels) == up[s] /\ pc[s] \in labels
Goto(s, label) == pc' = [pc EXCEPT ![s] = label] /\ UNCHANGED up

(* LOG(FATAL). *)
Fatal(s) == up' = [up EXCEPT ![s] = FALSE] /\ UNCHANGED <<pc, sent, sock>>

(* The connection is reset when a process ends with bytes it has not read, *)
(* and when its peer writes to it after its end (external).                *)
Reset(s) == ~up[Peer(s)] /\ sock[Peer(s)] # << >>

Init ==
  /\ use_event \in BOOLEAN
  /\ up = [s \in Sides |-> TRUE]
  /\ pc = [s \in Sides |-> "greet"]
  /\ sent = [s \in Sides |-> FALSE]
  /\ sock = [s \in Sides |-> << >>]
  /\ qp = [s \in Sides |-> "none"]
  /\ rq = [s \in Sides |-> 0]
  /\ wire = [s \in Sides |-> << >>]
  /\ unacked = [s \in Sides |-> 0]
  /\ cq = [s \in Sides |-> << >>]
  /\ armed = [s \in Sides |-> FALSE]
  /\ events = [s \in Sides |-> 0]

-----------------------------------------------------------------------------
(* sock_sync_data: write the local data, then read as much from the peer.  *)
(* A written message is tagged with the point of the program it belongs to.*)

(* send_data; a short count is fatal. *)
SyncSend(s) ==
  /\ At(s, SyncPoints)
  /\ ~sent[s]
  /\ \/ /\ sent' = [sent EXCEPT ![s] = TRUE]
        /\ sock' = [sock EXCEPT ![Peer(s)] = Append(@, pc[s])]
        /\ UNCHANGED <<up, pc>>
     \/ Reset(s) /\ Fatal(s)
  /\ UNCHANGED <<use_event, verbs>>

SyncRecv_eof_is_data(s) ==
  /\ At(s, SyncPoints)
  /\ sent[s]
  /\ sock[s] # << >> \/ ~up[Peer(s)]
  /\ sent' = [sent EXCEPT ![s] = FALSE]
  /\ sock' = [sock EXCEPT ![s] = IF @ = << >> THEN @ ELSE Tail(@)]
  /\ Goto(s, NextPc(s))
  /\ UNCHANGED <<use_event, verbs>>

(* recv_data_force; an error is fatal, and at the end of the stream it     *)
(* tries again for ever.                                                   *)
SyncRecv(s) ==
  /\ At(s, SyncPoints)
  /\ sent[s]
  /\ \/ /\ sock[s] # << >>
        /\ sent' = [sent EXCEPT ![s] = FALSE]
        /\ sock' = [sock EXCEPT ![s] = Tail(@)]
        /\ Goto(s, NextPc(s))
     \/ sock[s] = << >> /\ Reset(s) /\ Fatal(s)
  /\ UNCHANGED <<use_event, verbs>>

(* resources_create: event channel, CQ (armed in event mode), memory, QP. *)
ResourcesCreate(s) ==
  /\ At(s, {"create"})
  /\ qp' = [qp EXCEPT ![s] = "RESET"]
  /\ armed' = [armed EXCEPT ![s] = use_event]
  /\ Goto(s, NextPc(s))
  /\ UNCHANGED <<use_event, sent, sock, rq, wire, unacked, cq, events>>

(* connect_qp's three transitions, in this order. *)
ModifyQP(s) ==
  /\ \E t \in {<<"to_init", "INIT">>, <<"to_rtr", "RTR">>, <<"to_rts", "RTS">>} :
       /\ At(s, {t[1]})
       /\ qp' = [qp EXCEPT ![s] = t[2]]
  /\ Goto(s, NextPc(s))
  /\ UNCHANGED <<use_event, sent, sock, rq, wire, unacked, cq, armed, events>>

PullCtrl_forgotten(s) ==
  /\ At(s, {"pull"})
  /\ Goto(s, NextPc(s))
  /\ UNCHANGED <<use_event, sent, sock, verbs>>

(* pull_ctrl(0) between the last two synchronisations. *)
PullCtrl(s) ==
  /\ At(s, {"pull"})
  /\ rq' = [rq EXCEPT ![s] = @ + 1]
  /\ Goto(s, NextPc(s))
  /\ UNCHANGED <<use_event, sent, sock, qp, wire, unacked, cq, armed, events>>

-----------------------------------------------------------------------------
(* The loop: query_status, then the switch on the opcode. *)

GetEvent_not_consumed(s) ==
  /\ At(s, {"wait"})
  /\ events[s] > 0
  /\ Goto(s, "rearm")
  /\ UNCHANGED <<use_event, sent, sock, verbs>>

(* ibv_get_cq_event blocks until an event is there, and acknowledges it. *)
GetEvent(s) ==
  /\ At(s, {"wait"})
  /\ events[s] > 0
  /\ events' = [events EXCEPT ![s] = @ - 1]
  /\ Goto(s, "rearm")
  /\ UNCHANGED <<use_event, sent, sock, qp, rq, wire, unacked, cq, armed>>

Rearm(s) ==
  /\ At(s, {"rearm"})
  /\ armed' = [armed EXCEPT ![s] = TRUE]
  /\ Goto(s, "poll")
  /\ UNCHANGED <<use_event, sent, sock, qp, rq, wire, unacked, cq, events>>

(* The opcodes whose case answers the peer. *)
Answered(s) == IF s = "client" THEN {"RECV", "IMM"} ELSE {"IMM"}

Poll_answers_send_completion(s) ==
  /\ At(s, {"poll"})
  /\ cq[s] # << >>
  /\ cq' = [cq EXCEPT ![s] = Tail(@)]
  /\ Goto(s, "repost")
  /\ UNCHANGED <<use_event, sent, sock, qp, rq, wire, unacked, armed, events>>

(* poll_completion finds a completion and takes just that one; a failed    *)
(* one is logged and the loop goes on.  When it finds none for             *)
(* MAX_POLL_CQ_TIMEOUT the loop starts over: without events that is the    *)
(* same place, and with them a fetched event always leaves a completion to *)
(* find.                                                                   *)
Poll(s) ==
  /\ At(s, {"poll"})
  /\ cq[s] # << >>
  /\ cq' = [cq EXCEPT ![s] = Tail(@)]
  /\ Goto(s, IF Head(cq[s]) \in Answered(s) THEN "repost" ELSE LoopTop)
  /\ UNCHANGED <<use_event, sent, sock, qp, rq, wire, unacked, armed, events>>

Repost_forgotten(s) ==
  /\ At(s, {"repost"})
  /\ Goto(s, "push")
  /\ UNCHANGED <<use_event, sent, sock, verbs>>

(* pull_ctrl: a new receive replaces the consumed one before the answer. *)
Repost(s) ==
  /\ At(s, {"repost"})
  /\ rq' = [rq EXCEPT ![s] = @ + 1]
  /\ Goto(s, "push")
  /\ UNCHANGED <<use_event, sent, sock, qp, wire, unacked, cq, armed, events>>

(* What a posted send work request does at the peer. *)
PostSend(s, wc) ==
  /\ At(s, {"push"})
  /\ wire' = [wire EXCEPT ![Peer(s)] = Append(@, wc)]
  /\ Goto(s, LoopTop)
  /\ UNCHANGED <<use_event, sent, sock, qp, rq, unacked, cq, armed, events>>

(* push_data: a write with immediate. *)
PushData(s) == s = "client" /\ PostSend(s, "IMM")

(* push_ctrl: a send. *)
PushCtrl(s) == s = "server" /\ PostSend(s, "RECV")

-----------------------------------------------------------------------------
(* The adapters and the network (external). *)

(* A completion enters s's CQ; if the CQ is armed it raises one event. *)
Complete(s, wc) ==
  /\ cq' = [cq EXCEPT ![s] = Append(@, wc)]
  /\ armed' = [armed EXCEPT ![s] = FALSE]
  /\ events' = [events EXCEPT ![s] = IF armed[s] THEN @ + 1 ELSE @]

(* A message reaches side s, is acknowledged some time later, and consumes *)
(* a receive.                                                              *)
Deliver(s) ==
  /\ wire[s] # << >>
  /\ up[s]
  /\ qp[s] \in {"RTR", "RTS"}
  /\ rq[s] > 0
  /\ unacked[Peer(s)] < MaxUnacked
  /\ wire' = [wire EXCEPT ![s] = Tail(@)]
  /\ rq' = [rq EXCEPT ![s] = @ - 1]
  /\ unacked' = [unacked EXCEPT ![Peer(s)] = @ + 1]
  /\ Complete(s, Head(wire[s]))
  /\ UNCHANGED <<use_event, up, pc, sent, sock, qp>>

(* The acknowledgement comes back and completes s's oldest work request. *)
Ack(s) ==
  /\ up[s] /\ qp[s] # "ERR"
  /\ unacked[s] > 0
  /\ unacked' = [unacked EXCEPT ![s] = @ - 1]
  /\ Complete(s, IF s = "client" THEN "RDMA_WRITE" ELSE "SEND")
  /\ UNCHANGED <<use_event, up, pc, sent, sock, qp, rq, wire>>

(* The retries for a message to a process that has ended are exhausted:    *)
(* it and every later work request fails, and the queue pair, which takes  *)
(* no further message, with them.                                          *)
Fail(s) ==
  /\ up[s] /\ ~up[Peer(s)]
  /\ \/ /\ unacked[s] > 0
        /\ unacked' = [unacked EXCEPT ![s] = @ - 1]
        /\ wire' = [wire EXCEPT ![s] = << >>]
     \/ /\ unacked[s] = 0 /\ wire[Peer(s)] # << >>
        /\ wire' = [wire EXCEPT ![s] = << >>, ![Peer(s)] = Tail(@)]
        /\ UNCHANGED unacked
  /\ qp' = [qp EXCEPT ![s] = "ERR"]
  /\ Complete(s, "FAILED")
  /\ UNCHANGED <<use_event, up, pc, sent, sock, rq>>

(* A failed queue pair gives its receives back. *)
Flush(s) ==
  /\ up[s] /\ qp[s] = "ERR"
  /\ rq[s] > 0
  /\ rq' = [rq EXCEPT ![s] = @ - 1]
  /\ Complete(s, "FAILED")
  /\ UNCHANGED <<use_event, up, pc, sent, sock, qp, wire, unacked>>

(* Side s is killed; what it posted last may never leave its adapter. *)
Die(s) ==
  /\ s \in Mortal /\ up[s]
  /\ up' = [up EXCEPT ![s] = FALSE]
  /\ \E n \in 0 .. Len(wire[Peer(s)]) :
       wire' = [wire EXCEPT ![Peer(s)] = SubSeq(@, 1, n)]
  /\ UNCHANGED <<use_event, pc, sent, sock, qp, rq, unacked, cq, armed, events>>

-----------------------------------------------------------------------------

Thread(s) ==
  \/ SyncSend(s) \/ SyncRecv(s) \/ ResourcesCreate(s) \/ ModifyQP(s) \/ PullCtrl(s)
  \/ GetEvent(s) \/ Rearm(s) \/ Poll(s) \/ Repost(s)
  \/ PushData(s) \/ PushCtrl(s)

Next == \E s \in Sides : Thread(s) \/ Deliver(s) \/ Ack(s) \/ Fail(s) \/ Flush(s) \/ Die(s)

(* Threads are scheduled, and the reliable connection delivers and         *)
(* acknowledges.                                                           *)
Spec ==
  /\ Init /\ [][Next]_vars
  /\ \A s \in Sides : WF_vars(Thread(s)) /\ WF_vars(Deliver(s)) /\ WF_vars(Ack(s))

-----------------------------------------------------------------------------
(* Properties. *)

Elems(q) == {q[k] : k \in DOMAIN q}
Labels == Elems(Program) \cup {"wait", "rearm", "poll", "repost", "push"}

(* The state of both sides; no side ever has more than one receive posted  *)
(* or more than one completion event outstanding.                          *)
TypeOK ==
  /\ use_event \in BOOLEAN
  /\ up \in [Sides -> BOOLEAN]
  /\ pc \in [Sides -> Labels]
  /\ sent \in [Sides -> BOOLEAN]
  /\ sock \in [Sides -> Seq(SyncPoints)]
  /\ qp \in [Sides -> {"none", "RESET", "INIT", "RTR", "RTS", "ERR"}]
  /\ rq \in [Sides -> 0 .. 1]
  /\ wire \in [Sides -> Seq({"IMM", "RECV"})]
  /\ unacked \in [Sides -> 0 .. MaxUnacked]
  /\ cq \in [Sides -> Seq({"IMM", "RECV", "SEND", "RDMA_WRITE", "FAILED"})]
  /\ armed \in [Sides -> BOOLEAN]
  /\ events \in [Sides -> 0 .. 1]

(* How far side s is in Program. *)
Pos(s) ==
  IF pc[s] \in Elems(Program) THEN CHOOSE k \in DOMAIN Program : Program[k] = pc[s]
                             ELSE Len(Program) + 1

(* What sock_sync_data reads is what the peer wrote at the same point of   *)
(* its program: the greeting is never parsed as connection data, nor one   *)
(* side's first synchronisation byte taken for the other's second.  And no *)
(* side is past a synchronisation the other has not come to, also when the *)
(* other will never come to it because its process ended.                  *)
SyncsMatch ==
  \A s \in Sides :
    /\ pc[s] \in SyncPoints /\ sent[s] /\ sock[s] # << >> => Head(sock[s]) = pc[s]
    /\ \A k \in DOMAIN Program :
         Program[k] \in SyncPoints /\ k < Pos(s) =>
           k < Pos(Peer(s)) \/ (k = Pos(Peer(s)) /\ sent[Peer(s)])

(* When a message is posted its receiver's queue pair is ready and a       *)
(* receive is waiting for it: "there is a Receive Request in the responder *)
(* side, so we won't get any into RNR flow" (rdma_adapter.cpp:298, :434).  *)
NoRNR ==
  \A s \in Sides : wire[s] # << >> => qp[s] \in {"RTR", "RTS"} /\ rq[s] >= Len(wire[s])

(* The places in s's completion queue of messages it has yet to answer. *)
Received(s) == {k \in DOMAIN cq[s] : cq[s][k] \in Answered(s)}

(* The turn to act that side s holds, or that is on its way to s. *)
Turns(s) ==
  Len(wire[s]) + Cardinality(Received(s)) + Cardinality({l \in {"repost", "push"} : pc[s] = l})

(* Data and credit alternate: from the client's first write on exactly one *)
(* of them is alive, on the wire, in a completion queue or being answered, *)
(* whatever the order in which completions of sends and receives arrive;   *)
(* the failures that follow the end of a process never add a second.       *)
OneTurn ==
  pc["client"] \in {"wait", "rearm", "poll", "repost", "push"} =>
    \/ Turns("client") + Turns("server") = 1
    \/ Turns("client") + Turns("server") = 0 /\ \E s \in Sides : ~up[s]

(* While both processes live, a polled-mode session exchanges data for     *)
(* ever.                                                                   *)
BusyPollingProgress ==
  ~use_event => \/ <>(\E s \in Sides : ~up[s])
                \/ []<>(pc["client"] = "push") /\ []<>(pc["server"] = "push")

(* "Wait for completion events.  If we use busy polling, this step is      *)
(* skipped" (rdma_session.cpp:33): the wait is for completions, so one     *)
(* that is in the queue ends it.                                           *)
CompletionWaitEnds == \A s \in Sides : cq[s] # << >> ~> pc[s] = "poll"

=============================================================================
