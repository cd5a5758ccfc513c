-------------------------- MODULE AllReduceServer --------------------------
(***************************************************************************)
(* The single-threaded receiver of the networking service (--single-recv): *)
(* RDMAServer::connecting accepts the senders, then one of tree_allreduce, *)
(* full_mesh_allreduce, ring_allreduce and double_binary_tree_allreduce    *)
(* brings their sessions up one after the other and alternates do_reduce   *)
(* and broadcast over the groups of sessions for ever.  The last three     *)
(* have a single group.                                                    *)
(*                                                                         *)
(* The senders are run_tests_send_side.  The handshake of one session      *)
(* (module RDMASession) is one step here; so is a sender's reaction to a   *)
(* completion.  A sender's process may die at any time.                    *)
(*                                                                         *)
(* A definition named D_what is D with a plausible bug; it stands before D *)
(* and nothing uses it but the runs that show a property can fail.         *)
(***************************************************************************)
EXTENDS Naturals, Sequences, FiniteSets

CONSTANTS
  Clients,   \* the senders the server waits for (num_senders of them)
  Groupings, \* the ways sub_groups may divide them, one of which is in use
  Rounds,    \* bound on how often a sender pushes
  Mortal     \* the senders whose process may die

ASSUME ClientsAssumption == IsFiniteSet(Clients) /\ Clients # {}
ASSUME GroupAssumption ==
  \A f \in Groupings : \E k \in 1 .. Cardinality(Clients) :
    f \in [Clients -> 1 .. k] /\ {f[c] : c \in Clients} = 1 .. k
ASSUME RoundsAssumption == Rounds \in Nat
ASSUME MortalAssumption == Mortal \subseteq Clients

VARIABLES
  GroupOf,    \* the group of each sender
  use_event,  \* Config::use_event of the server
  spc,        \* where the server thread is
  sess_group, \* the sessions, in the order their connections were accepted
  initiated,  \* how many of them have been brought up
  g,          \* the group do_reduce or broadcast works on
  inflight,   \* each group's inflight_queue
  ready,      \* each group's ready_queue
  cq,         \* each session's completion queue at the server
  armed,      \* whether ibv_req_notify_cq is in force on it
  events,     \* its completion events not yet fetched
  unacked,    \* the server's sends on each session not yet completed
  wire,       \* data messages on the way to the server, per sender
  credits,    \* control messages on the way to, or received by, each sender
  running,    \* the senders past their handshake
  dead,       \* the senders whose process has died
  data,       \* how often each sender has pushed data
  reduced,    \* how many of these the server has taken from its CQ
  ctrl        \* how often the server has pushed a control message to it

queues == <<inflight, ready>>
cqs    == <<cq, armed, events>>
net    == <<cqs, unacked, wire, credits>>
counts == <<data, reduced, ctrl>>
conf   == <<GroupOf, use_event>>
vars   == <<conf, spc, sess_group, initiated, g, queues, net, running, dead, counts>>

Elems(q) == {q[i] : i \in DOMAIN q}

(* The number of groups: conf_.sub_groups.size(), or 1. *)
K == Cardinality({GroupOf[c] : c \in Clients})

Init ==
  /\ GroupOf \in Groupings
  /\ use_event \in BOOLEAN
  /\ spc = "accept"
  /\ sess_group = << >>
  /\ initiated = 0
  /\ g = 1
  /\ inflight = [i \in 1 .. K |-> << >>]
  /\ ready = [i \in 1 .. K |-> << >>]
  /\ cq = [c \in Clients |-> << >>]
  /\ armed = [c \in Clients |-> use_event]
  /\ events = [c \in Clients |-> 0]
  /\ unacked = [c \in Clients |-> 0]
  /\ wire = [c \in Clients |-> 0]
  /\ credits = [c \in Clients |-> 0]
  /\ running = {}
  /\ dead = {}
  /\ data = [c \in Clients |-> 0]
  /\ reduced = [c \in Clients |-> 0]
  /\ ctrl = [c \in Clients |-> 0]

-----------------------------------------------------------------------------
(* The server. *)

(* connecting: accept in any order of arrival, until num_senders are here; *)
(* a sender that died after its connect is still in the backlog.           *)
Accept(c) ==
  /\ spc = "accept"
  /\ c \notin Elems(sess_group)
  /\ sess_group' = Append(sess_group, c)
  /\ spc' = IF Len(sess_group) + 1 = Cardinality(Clients) THEN "init" ELSE "accept"
  /\ UNCHANGED <<conf, initiated, g, queues, net, running, dead, counts>>

(* The for loop over sess_group: session_init, sync, pull_ctrl(0), sync,   *)
(* and the push to the inflight queue of the peer's group.                 *)
SessionInit ==
  LET c == sess_group[initiated + 1]
  IN  /\ spc = "init"
      /\ c \notin dead
      /\ running' = running \cup {c}
      /\ inflight' = [inflight EXCEPT ![GroupOf[c]] = Append(@, c)]
      /\ initiated' = initiated + 1
      /\ spc' = IF initiated + 1 = Len(sess_group) THEN "reduce" ELSE "init"
      /\ UNCHANGED <<conf, sess_group, g, ready, net, dead, counts>>

(* On a peer that has died it blocks, or ends the process if the           *)
(* connection was reset.                                                   *)
SessionInitFatal ==
  /\ spc = "init"
  /\ sess_group[initiated + 1] \in dead
  /\ spc' = "ended"
  /\ UNCHANGED <<conf, sess_group, initiated, g, queues, net, running, dead, counts>>

(* peek_status with --use-event: ibv_get_cq_event blocks on the session at *)
(* the front until that one has an event, ...                              *)
GetEvent ==
  LET c == Head(inflight[g])
  IN  /\ use_event
      /\ spc = "reduce"
      /\ inflight[g] # << >>
      /\ events[c] > 0
      /\ events' = [events EXCEPT ![c] = @ - 1]
      /\ spc' = "rearm"
      /\ UNCHANGED <<conf, sess_group, initiated, g, queues, cq, armed, unacked, wire, credits,
                     running, dead, counts>>

(* ... and ibv_req_notify_cq asks for the next one. *)
Rearm ==
  /\ spc = "rearm"
  /\ armed' = [armed EXCEPT ![Head(inflight[g])] = TRUE]
  /\ spc' = "poll"
  /\ UNCHANGED <<conf, sess_group, initiated, g, queues, cq, events, unacked, wire, credits,
                 running, dead, counts>>

(* do_reduce polls after peek_status has waited for an event, if it has to. *)
AtPoll == spc = IF use_event THEN "poll" ELSE "reduce"

ReducePoll_any_completion ==
  LET c == Head(inflight[g])
  IN  /\ AtPoll
      /\ inflight[g] # << >>
      /\ IF cq[c] # << >>
           THEN /\ inflight' = [inflight EXCEPT ![g] = Tail(@)]
                /\ ready' = [ready EXCEPT ![g] = Append(@, c)]
                /\ reduced' = [reduced EXCEPT ![c] = @ + 1]
           ELSE /\ inflight' = [inflight EXCEPT ![g] = Append(Tail(@), c)]
                /\ UNCHANGED <<ready, reduced>>
      /\ spc' = "reduce"
      /\ cq' = [cq EXCEPT ![c] = IF @ = << >> THEN @ ELSE Tail(@)]
      /\ UNCHANGED <<conf, sess_group, initiated, g, armed, events, unacked, wire, credits,
                     running, dead, data, ctrl>>

ReducePoll_session_dropped ==
  LET c == Head(inflight[g])
  IN  /\ AtPoll
      /\ inflight[g] # << >>
      /\ inflight' = [inflight EXCEPT ![g] = Tail(@)]
      /\ IF cq[c] # << >> /\ Head(cq[c]) = "IMM"
           THEN /\ ready' = [ready EXCEPT ![g] = Append(@, c)]
                /\ reduced' = [reduced EXCEPT ![c] = @ + 1]
           ELSE UNCHANGED <<ready, reduced>>
      /\ spc' = "reduce"
      /\ cq' = [cq EXCEPT ![c] = IF @ = << >> THEN @ ELSE Tail(@)]
      /\ UNCHANGED <<conf, sess_group, initiated, g, armed, events, unacked, wire, credits,
                     running, dead, data, ctrl>>

(* peek_status: the completion polled from c's CQ, "none" if there is no   *)
(* completion or a failed one.                                             *)
PeekStatus(c) == IF cq[c] = << >> \/ Head(cq[c]) = "ERR" THEN "none" ELSE Head(cq[c])

(* One turn of do_reduce's loop: the session at the front is polled for    *)
(* one completion.  If that is its data the session becomes ready, after a *)
(* new receive is posted; otherwise (nothing there, a send completion, a   *)
(* failed completion) it goes to the back of the queue.                    *)
ReducePoll ==
  LET c == Head(inflight[g])
  IN  /\ AtPoll
      /\ inflight[g] # << >>
      /\ IF PeekStatus(c) = "IMM"
           THEN /\ inflight' = [inflight EXCEPT ![g] = Tail(@)]
                /\ ready' = [ready EXCEPT ![g] = Append(@, c)]
                /\ reduced' = [reduced EXCEPT ![c] = @ + 1]
           ELSE /\ inflight' = [inflight EXCEPT ![g] = Append(Tail(@), c)]
                /\ UNCHANGED <<ready, reduced>>
      /\ spc' = "reduce"
      /\ cq' = [cq EXCEPT ![c] = IF @ = << >> THEN @ ELSE Tail(@)]
      /\ UNCHANGED <<conf, sess_group, initiated, g, armed, events, unacked, wire, credits,
                     running, dead, data, ctrl>>

ReduceDone_broadcasts_each_group ==
  /\ spc = "reduce"
  /\ inflight[g] = << >>
  /\ spc' = "broadcast"
  /\ UNCHANGED <<conf, sess_group, initiated, g, queues, net, running, dead, counts>>

(* do_reduce returns: the next group, or the first broadcast. *)
ReduceDone ==
  /\ spc = "reduce"
  /\ inflight[g] = << >>
  /\ IF g < K
       THEN g' = g + 1 /\ spc' = spc
       ELSE g' = g /\ spc' = "broadcast"
  /\ UNCHANGED <<conf, sess_group, initiated, queues, net, running, dead, counts>>

(* One turn of broadcast's loop: push_ctrl(0) and back to inflight. *)
BroadcastSend ==
  LET c == Head(ready[g])
  IN  /\ spc = "broadcast"
      /\ ready[g] # << >>
      /\ ready' = [ready EXCEPT ![g] = Tail(@)]
      /\ inflight' = [inflight EXCEPT ![g] = Append(@, c)]
      /\ credits' = [credits EXCEPT ![c] = @ + 1]
      /\ unacked' = [unacked EXCEPT ![c] = @ + 1]
      /\ ctrl' = [ctrl EXCEPT ![c] = @ + 1]
      /\ UNCHANGED <<conf, spc, sess_group, initiated, g, cqs, wire, running, dead, data, reduced>>

BroadcastDone_skips_first_group ==
  /\ spc = "broadcast"
  /\ ready[g] = << >>
  /\ IF g > 2
       THEN g' = g - 1 /\ spc' = spc
       ELSE g' = 1 /\ spc' = "reduce"
  /\ UNCHANGED <<conf, sess_group, initiated, queues, net, running, dead, counts>>

(* broadcast returns: the group before, or the next round. *)
BroadcastDone ==
  /\ spc = "broadcast"
  /\ ready[g] = << >>
  /\ IF g > 1
       THEN g' = g - 1 /\ spc' = spc
       ELSE g' = 1 /\ spc' = "reduce"
  /\ UNCHANGED <<conf, sess_group, initiated, queues, net, running, dead, counts>>

-----------------------------------------------------------------------------
(* A sender: run_tests_send_side pushes once after the handshake, then     *)
(* once for every control message it receives.                             *)

MayPush(c) == c \in running \ dead /\ data[c] < Rounds

PushData(c) ==
  /\ data' = [data EXCEPT ![c] = @ + 1]
  /\ wire' = [wire EXCEPT ![c] = @ + 1]

FirstPush(c) ==
  /\ MayPush(c)
  /\ data[c] = 0
  /\ PushData(c)
  /\ UNCHANGED <<conf, spc, sess_group, initiated, g, queues, cqs, unacked, credits,
                 running, dead, reduced, ctrl>>

OnRecv_without_credit(c) ==
  /\ MayPush(c)
  /\ data[c] > 0
  /\ credits' = [credits EXCEPT ![c] = IF @ = 0 THEN 0 ELSE @ - 1]
  /\ PushData(c)
  /\ UNCHANGED <<conf, spc, sess_group, initiated, g, queues, cqs, unacked,
                 running, dead, reduced, ctrl>>

(* case IBV_WC_RECV: pull_ctrl(0), push_data(0). *)
OnRecv(c) ==
  /\ MayPush(c)
  /\ data[c] > 0
  /\ credits[c] > 0
  /\ credits' = [credits EXCEPT ![c] = @ - 1]
  /\ PushData(c)
  /\ UNCHANGED <<conf, spc, sess_group, initiated, g, queues, cqs, unacked,
                 running, dead, reduced, ctrl>>

(* The sender's process dies (external). *)
Die(c) ==
  /\ c \in Mortal \ dead
  /\ dead' = dead \cup {c}
  /\ UNCHANGED <<conf, spc, sess_group, initiated, g, queues, net, running, counts>>

-----------------------------------------------------------------------------
(* The adapters and the network (external). *)

(* A completion enters c's CQ; if the CQ is armed it raises one event. *)
Complete(c, wc) ==
  /\ cq' = [cq EXCEPT ![c] = Append(@, wc)]
  /\ armed' = [armed EXCEPT ![c] = FALSE]
  /\ events' = [events EXCEPT ![c] = IF armed[c] THEN @ + 1 ELSE @]

(* A write with immediate arrives. *)
Arrive(c) ==
  /\ wire[c] > 0
  /\ wire' = [wire EXCEPT ![c] = @ - 1]
  /\ Complete(c, "IMM")
  /\ UNCHANGED <<conf, spc, sess_group, initiated, g, queues, unacked, credits,
                 running, dead, counts>>

(* The oldest send on the session completes; with an error status if the   *)
(* peer is gone and the retries are exhausted.                             *)
SendCompletes(c) ==
  /\ unacked[c] > 0
  /\ unacked' = [unacked EXCEPT ![c] = @ - 1]
  /\ \E wc \in {"SEND"} \cup (IF c \in dead THEN {"ERR"} ELSE {}) : Complete(c, wc)
  /\ UNCHANGED <<conf, spc, sess_group, initiated, g, queues, wire, credits,
                 running, dead, counts>>

-----------------------------------------------------------------------------

Server ==
  \/ \E c \in Clients : Accept(c)
  \/ SessionInit \/ SessionInitFatal
  \/ GetEvent \/ Rearm \/ ReducePoll \/ ReduceDone \/ BroadcastSend \/ BroadcastDone

Client(c) == FirstPush(c) \/ OnRecv(c)

Next ==
  \/ Server
  \/ \E c \in Clients : Client(c) \/ Die(c) \/ Arrive(c) \/ SendCompletes(c)

(* The server thread and the senders' threads are scheduled, and the       *)
(* network delivers; nothing makes a process die.                          *)
Spec ==
  /\ Init /\ [][Next]_vars
  /\ WF_vars(Server)
  /\ \A c \in Clients : WF_vars(Client(c)) /\ WF_vars(Arrive(c)) /\ WF_vars(SendCompletes(c))

-----------------------------------------------------------------------------
(* Properties. *)

(* The state of server, senders and network; the server takes at most as   *)
(* many pushes of a sender as it made, and answers no more than that.      *)
TypeOK ==
  /\ GroupOf \in Groupings
  /\ use_event \in BOOLEAN
  /\ spc \in {"accept", "init", "ended", "reduce", "rearm", "poll", "broadcast"}
  /\ sess_group \in Seq(Clients)
  /\ initiated \in 0 .. Len(sess_group)
  /\ g \in 1 .. K
  /\ inflight \in [1 .. K -> Seq(Clients)]
  /\ ready \in [1 .. K -> Seq(Clients)]
  /\ cq \in [Clients -> Seq({"IMM", "SEND", "ERR"})]
  /\ armed \in [Clients -> BOOLEAN]
  /\ events \in [Clients -> 0 .. 1]
  /\ unacked \in [Clients -> Nat]
  /\ wire \in [Clients -> Nat]
  /\ credits \in [Clients -> Nat]
  /\ running \subseteq Clients
  /\ dead \subseteq Mortal
  /\ data \in [Clients -> 0 .. Rounds]
  /\ reduced \in [Clients -> 0 .. Rounds]
  /\ ctrl \in [Clients -> 0 .. Rounds]

(* No sender gets the control message of a round before the server has     *)
(* taken every sender's data of that round out of its completion queue:    *)
(* broadcast never overtakes the reduction, in any group.                  *)
ReduceBeforeBroadcast == \A c, d \in Clients : ctrl[c] <= reduced[d]

Queue(q, i) == IF q = "inflight" THEN inflight[i] ELSE ready[i]

(* do_reduce and broadcast shuffle sessions between queues; once brought   *)
(* up, a session is in one of the two queues of its own group, and in no   *)
(* other place of any queue.                                               *)
NoSessionLost ==
  \A c \in running :
    /\ \E q \in {"inflight", "ready"} : c \in Elems(Queue(q, GroupOf[c]))
    /\ \A q, r \in {"inflight", "ready"}, i, k \in 1 .. K :
         \A j \in DOMAIN Queue(q, i), l \in DOMAIN Queue(r, k) :
           Queue(q, i)[j] = c /\ Queue(r, k)[l] = c => q = r /\ i = k /\ j = l

Barrier == INSTANCE AllReduceBarrier WITH contributed <- data, released <- ctrl

(* Server, senders and network together implement a barrier per round,     *)
(* also when senders die.                                                  *)
ImplementsBarrier == Barrier!Spec

(* In polled mode, as long as no sender dies, every sender gets all its    *)
(* rounds answered, whatever the order of arrival and of completions.      *)
AllRoundsComplete == use_event \/ <>(dead # {}) \/ <>(\A c \in Clients : ctrl[c] = Rounds)

=============================================================================
