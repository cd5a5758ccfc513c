-------------------------- MODULE FullMeshBarrier --------------------------
(***************************************************************************)
(* The server of rdma_full_mesh_benchmark and its clients.  The event loop *)
(* builds a context with two BlockingQueues and a poll_cq thread for each  *)
(* connection.  When the fifteenth context is there it starts the thread   *)
(* sync_thread_func, which signals every poll_cq thread through q1 when it *)
(* has taken one arrival of each from q2.  A poll_cq thread answers an     *)
(* arrival only after a signal.                                            *)
(*                                                                         *)
(* Fewer than fifteen connections are never signalled.  One more than      *)
(* fifteen may come late: before or after the number of contexts is read   *)
(* for good.  (With two more, push_back may move ctx_group while it is     *)
(* iterated.)  A client may be killed once it is connected; the server     *)
(* then frees its context, which the sync thread goes on using, or ends.   *)
(* The connection manager and the verbs library are external.              *)
(*                                                                         *)
(* A definition named D_what is D with a plausible bug; it stands before D *)
(* and nothing uses it but the runs that show a property can fail.         *)
(***************************************************************************)
EXTENDS Naturals, Sequences, FiniteSets

CONSTANTS
  Members,   \* the connections that start the barrier (15 in the code)
  Late,      \* connections made after these
  Mortal,    \* the connections whose client may be killed
  Rounds     \* bound on how often a client writes data

ASSUME MembersAssumption == IsFiniteSet(Members) /\ Members # {}
ASSUME LateAssumption == IsFiniteSet(Late) /\ Late \cap Members = {} /\ Cardinality(Late) <= 1
ASSUME MortalAssumption == Mortal \subseteq Members \cup Late
ASSUME RoundsAssumption == Rounds \in Nat

Conns == Members \cup Late

VARIABLES
  ctx_group,  \* the contexts, in the order they were built
  up,         \* whether the server's process runs
  listening,  \* whether the server's _init is done
  conn,       \* where the server's event loop is with each connection
  cpc,        \* where each client's event loop is
  q1, q2,     \* how many entries each context's queues hold
  ppc,        \* where each context's poll_cq thread is
  wire,       \* writes a client has posted and the server has not polled
  inbox,      \* sends the server has posted and the client has not polled
  spc,        \* where the sync thread is
  index,      \* its loop variable
  last,       \* the end of its range-based for loops over ctx_group
  max_QP,     \* the number of contexts it counts up to
  bitmap,     \* the contexts whose arrival it has taken in this epoch
  data,       \* how often each client has written data
  grants      \* how often each client has been told to write

cm == <<up, listening, conn, cpc>>
syncvars == <<spc, index, last, max_QP, bitmap>>
vars == <<ctx_group, cm, q1, q2, ppc, wire, inbox, syncvars, data, grants>>

Init ==
  /\ ctx_group = << >>
  /\ up = TRUE
  /\ listening = FALSE
  /\ conn = [c \in Conns |-> "none"]
  /\ cpc = [c \in Conns |-> "addr"]
  /\ q1 = [c \in Conns |-> 0]
  /\ q2 = [c \in Conns |-> 0]
  /\ ppc = [c \in Conns |-> "none"]
  /\ wire = [c \in Conns |-> << >>]
  /\ inbox = [c \in Conns |-> << >>]
  /\ spc = "off"
  /\ index = 1
  /\ last = 0
  /\ max_QP = 0
  /\ bitmap = {}
  /\ data = [c \in Conns |-> 0]
  /\ grants = [c \in Conns |-> 0]

-----------------------------------------------------------------------------
(* BlockingQueue, whose operations hold its mutex; pop waits until Pop is  *)
(* possible, try_pop returns false.                                        *)

Push(q, c) == [q EXCEPT ![c] = @ + 1]

CanPop(q, c) == q[c] > 0

Pop(q, c) == [q EXCEPT ![c] = @ - 1]

(* The server's send_message with an immediate, the client's               *)
(* write_large_block.                                                      *)

SendMessage(c, imm_data) == inbox' = [inbox EXCEPT ![c] = Append(@, imm_data)]

WriteLargeBlock(c, what) == wire' = [wire EXCEPT ![c] = Append(@, what)]

-----------------------------------------------------------------------------
(* The connection managers' event loops. *)

(* The server binds and listens. *)
ServerInit ==
  /\ ~listening
  /\ listening' = TRUE
  /\ UNCHANGED <<ctx_group, up, conn, cpc, q1, q2, ppc, wire, inbox, syncvars, data, grants>>

CpcStep(c, from, to) ==
  /\ cpc[c] = from
  /\ cpc' = [cpc EXCEPT ![c] = to]
  /\ UNCHANGED <<ctx_group, up, listening, conn, q1, q2, ppc, wire, inbox, syncvars, data, grants>>

(* Client: ADDR_RESOLVED builds its context and queue pair and resolves    *)
(* the route, ROUTE_RESOLVED asks for the connection.                      *)
AddrResolved(c) == CpcStep(c, "addr", "route")
RouteResolved(c) == CpcStep(c, "route", "connecting")

(* REJECTED, as long as nobody listens: the client starts over with a new  *)
(* id, or exits when it has done so for five minutes.                      *)
Rejected(c) ==
  /\ ~(up /\ listening)
  /\ conn[c] = "none"
  /\ CpcStep(c, "connecting", "addr") \/ CpcStep(c, "connecting", "gone")

BuildContext_accepts(c) ==
  /\ listening
  /\ cpc[c] = "connecting" /\ conn[c] = "none"
  /\ c \in Late => \A m \in Members : conn[m] # "none"
  /\ conn' = [conn EXCEPT ![c] = "accepted"]
  /\ ppc' = [ppc EXCEPT ![c] = "poll"]
  /\ UNCHANGED <<ctx_group, up, listening, cpc, q1, q2, wire, inbox, syncvars, data, grants>>

(* Server: CONNECT_REQUEST calls build_context, which starts the thread of *)
(* the connection ...                                                      *)
BuildContext(c) ==
  /\ listening
  /\ cpc[c] = "connecting" /\ conn[c] = "none"
  /\ \A d \in Conns : conn[d] # "building"
  /\ c \in Late => \A m \in Members : conn[m] # "none"
  /\ conn' = [conn EXCEPT ![c] = "building"]
  /\ ppc' = [ppc EXCEPT ![c] = "poll"]
  /\ UNCHANGED <<ctx_group, up, listening, cpc, q1, q2, wire, inbox, syncvars, data, grants>>

(* ... before it makes the queues that thread uses, and the sync thread    *)
(* when this is the fifteenth; on_pre_conn and rdma_accept follow.         *)
ConnectRequest(c) ==
  /\ conn[c] = "building"
  /\ conn' = [conn EXCEPT ![c] = "accepted"]
  /\ ctx_group' = Append(ctx_group, c)
  /\ spc' = IF Len(ctx_group) + 1 = Cardinality(Members) THEN "start" ELSE spc
  /\ UNCHANGED <<up, listening, cpc, q1, q2, ppc, wire, inbox, index, last, max_QP, bitmap,
                 data, grants>>

(* Client: ESTABLISHED posts the receives and starts poll_cq. *)
ClientEstablished(c) ==
  /\ conn[c] \in {"accepted", "established"}
  /\ CpcStep(c, "connecting", "up")

(* ESTABLISHED: on_connection sends the memory region, with immediate 666. *)
Established(c) ==
  /\ conn[c] = "accepted"
  /\ \A d \in Conns : conn[d] # "building"
  /\ conn' = [conn EXCEPT ![c] = "established"]
  /\ SendMessage(c, 666)
  /\ UNCHANGED <<ctx_group, up, listening, cpc, q1, q2, ppc, wire, syncvars, data, grants>>

-----------------------------------------------------------------------------
(* The end of a process. *)

(* A client is killed (external). *)
Die(c) == c \in Mortal /\ CpcStep(c, "up", "gone")

(* Server: DISCONNECTED destroys the queue pair and frees the context,     *)
(* which stays in ctx_group.                                               *)
OnDisconnect(c) ==
  /\ conn[c] = "established" /\ cpc[c] = "gone"
  /\ \A d \in Conns : conn[d] # "building"
  /\ conn' = [conn EXCEPT ![c] = "freed"]
  /\ wire' = [wire EXCEPT ![c] = << >>]
  /\ inbox' = [inbox EXCEPT ![c] = << >>]
  /\ UNCHANGED <<ctx_group, up, listening, cpc, q1, q2, ppc, syncvars, data, grants>>

(* The server's process ends: poll_cq polls the failed completion of a     *)
(* send to a client that is gone, and calls rc_die; or a thread uses a     *)
(* freed context, where it may as well find what was there before.         *)
ServerEnds ==
  /\ \E c \in Conns :
       \/ /\ conn[c] = "established" /\ cpc[c] = "gone"
          /\ inbox[c] # << >> /\ ppc[c] = "poll"
       \/ /\ conn[c] = "freed"
          /\ \/ spc = "signal" /\ index <= last /\ ctx_group[index] = c
             \/ spc = "scan" /\ index <= max_QP /\ ctx_group[index] = c /\ c \notin bitmap
             \/ ppc[c] = "signal" /\ CanPop(q1, c)
  /\ up' = FALSE
  /\ UNCHANGED <<ctx_group, listening, conn, cpc, q1, q2, ppc, wire, inbox, syncvars, data, grants>>

(* Client: DISCONNECTED, or a write that fails, ends it too. *)
ClientDisconnected(c) ==
  /\ ~up /\ conn[c] # "none"
  /\ CpcStep(c, "connecting", "gone") \/ CpcStep(c, "up", "gone")

-----------------------------------------------------------------------------
(* A client's poll_cq: the memory region is answered with the client's     *)
(* name, each grant with a block of data.  A message that arrives before   *)
(* the client's own ESTABLISHED has posted receives is retried without end *)
(* (rnr_retry_count = 7), so it is polled later and never lost.            *)
ClientPoll(c) ==
  /\ cpc[c] = "up"
  /\ inbox[c] # << >>
  /\ inbox' = [inbox EXCEPT ![c] = Tail(@)]
  /\ IF Head(inbox[c]) = 666
       THEN WriteLargeBlock(c, "name") /\ UNCHANGED data
       ELSE /\ data[c] < Rounds
            /\ WriteLargeBlock(c, "data")
            /\ data' = [data EXCEPT ![c] = @ + 1]
  /\ UNCHANGED <<ctx_group, cm, q1, q2, ppc, syncvars, grants>>

-----------------------------------------------------------------------------
(* The server's poll_cq for one connection. *)

PollCq_name_counts(c) ==
  /\ ppc[c] = "poll"
  /\ wire[c] # << >>
  /\ wire' = [wire EXCEPT ![c] = Tail(@)]
  /\ q2' = Push(q2, c)
  /\ ppc' = [ppc EXCEPT ![c] = "signal"]
  /\ UNCHANGED <<ctx_group, cm, q1, inbox, syncvars, data, grants>>

(* An arrival is put into q2, unless it is the client's name; a receive is *)
(* posted.                                                                 *)
PollCq(c) ==
  /\ ppc[c] = "poll"
  /\ wire[c] # << >>
  /\ wire' = [wire EXCEPT ![c] = Tail(@)]
  /\ q2' = IF Head(wire[c]) = "name" THEN q2 ELSE Push(q2, c)
  /\ ppc' = [ppc EXCEPT ![c] = "signal"]
  /\ UNCHANGED <<ctx_group, cm, q1, inbox, syncvars, data, grants>>

AnswerArrival_without_signal(c) ==
  /\ ppc[c] = "signal"
  /\ q1' = IF CanPop(q1, c) THEN Pop(q1, c) ELSE q1
  /\ SendMessage(c, 888)
  /\ grants' = [grants EXCEPT ![c] = @ + 1]
  /\ ppc' = [ppc EXCEPT ![c] = "poll"]
  /\ UNCHANGED <<ctx_group, cm, q2, wire, syncvars, data>>

(* q1->pop() waits for the sync thread; then immediate 888 goes out. *)
AnswerArrival(c) ==
  /\ ppc[c] = "signal"
  /\ conn[c] # "freed"
  /\ CanPop(q1, c)
  /\ q1' = Pop(q1, c)
  /\ SendMessage(c, 888)
  /\ grants' = [grants EXCEPT ![c] = @ + 1]
  /\ ppc' = [ppc EXCEPT ![c] = "poll"]
  /\ UNCHANGED <<ctx_group, cm, q2, wire, syncvars, data>>

-----------------------------------------------------------------------------
(* sync_thread_func. *)

(* max_QP = ctx_group.size(), a second after the thread was started. *)
SyncStart ==
  /\ spc = "start"
  /\ max_QP' = Len(ctx_group)
  /\ spc' = "first"
  /\ UNCHANGED <<ctx_group, cm, q1, q2, ppc, wire, inbox, index, last, bitmap, data, grants>>

(* A loop over all contexts begins: the first signals, or those of the     *)
(* next epoch when every bit is set.                                       *)
SyncLoopBegin ==
  /\ \/ spc = "first"
     \/ spc = "scan" /\ index > max_QP /\ Cardinality(bitmap) = max_QP
  /\ last' = Len(ctx_group)
  /\ index' = 1
  /\ spc' = "signal"
  /\ UNCHANGED <<ctx_group, cm, q1, q2, ppc, wire, inbox, max_QP, bitmap, data, grants>>

SyncSignal ==
  /\ spc = "signal"
  /\ index <= last
  /\ q1' = Push(q1, ctx_group[index])
  /\ index' = index + 1
  /\ UNCHANGED <<ctx_group, cm, q2, ppc, wire, inbox, spc, last, max_QP, bitmap, data, grants>>

SyncLoopEnd ==
  /\ spc = "signal"
  /\ index > last
  /\ bitmap' = {}
  /\ index' = 1
  /\ spc' = "scan"
  /\ UNCHANGED <<ctx_group, cm, q1, q2, ppc, wire, inbox, last, max_QP, data, grants>>

(* One context of the scan: q2->try_pop if its bit is not set. *)
SyncScan ==
  LET c == ctx_group[index]
  IN  /\ spc = "scan"
      /\ index <= max_QP
      /\ IF c \notin bitmap /\ CanPop(q2, c)
           THEN q2' = Pop(q2, c) /\ bitmap' = bitmap \cup {c}
           ELSE UNCHANGED <<q2, bitmap>>
      /\ index' = index + 1
      /\ UNCHANGED <<ctx_group, cm, q1, ppc, wire, inbox, spc, last, max_QP, data, grants>>

SyncScanAgain_misses_last ==
  /\ spc = "scan"
  /\ index + 1 > max_QP
  /\ Cardinality(bitmap) # max_QP
  /\ index' = 1
  /\ UNCHANGED <<ctx_group, cm, q1, q2, ppc, wire, inbox, spc, last, max_QP, bitmap, data, grants>>

(* A pass without all bits set: the next pass. *)
SyncScanAgain ==
  /\ spc = "scan"
  /\ index > max_QP
  /\ Cardinality(bitmap) # max_QP
  /\ index' = 1
  /\ UNCHANGED <<ctx_group, cm, q1, q2, ppc, wire, inbox, spc, last, max_QP, bitmap, data, grants>>

-----------------------------------------------------------------------------

EventLoop ==
  /\ up
  /\ \/ ServerInit
     \/ \E c \in Conns : BuildContext(c) \/ ConnectRequest(c) \/ Established(c) \/ OnDisconnect(c)

PollThread(c) == up /\ (PollCq(c) \/ AnswerArrival(c))

Sync ==
  /\ up
  /\ SyncStart \/ SyncLoopBegin \/ SyncSignal \/ SyncLoopEnd \/ SyncScan \/ SyncScanAgain

Client(c) == AddrResolved(c) \/ RouteResolved(c) \/ ClientEstablished(c) \/ ClientPoll(c)

Next ==
  \/ EventLoop \/ Sync
  \/ up /\ ServerEnds
  \/ \E c \in Conns :
       PollThread(c) \/ Client(c) \/ Rejected(c) \/ Die(c) \/ ClientDisconnected(c)

(* All programs of the mesh are started and all threads are scheduled;     *)
(* nothing makes a client give up or end.                                  *)
Spec ==
  /\ Init /\ [][Next]_vars
  /\ WF_vars(EventLoop) /\ WF_vars(Sync)
  /\ \A c \in Conns : WF_vars(Client(c)) /\ WF_vars(PollThread(c))

-----------------------------------------------------------------------------
(* Properties. *)

(* The thread of a connection is started before its queues are there, and  *)
(* never uses them before they are: its first completion needs a client    *)
(* that saw the connection accepted.                                       *)
BuiltBeforeUse ==
  \A c \in Conns : ppc[c] = "signal" => \E k \in DOMAIN ctx_group : ctx_group[k] = c

(* "MUST be empty" (RDMAServer.cpp:231): when the sync thread signals a    *)
(* context it counts, nothing more has arrived for it.  A connection that  *)
(* came after max_QP was read is signalled but never counted, so this is   *)
(* not so for it.                                                          *)
MustBeEmpty ==
  spc = "signal" => \A k \in index .. max_QP : q2[ctx_group[k]] = 0

(* A client's data and the grants after the first (which answers its name),*)
(* for the connections that start the barrier.                             *)
Contributed == [c \in Members |-> data[c]]
Released == [c \in Members |-> IF grants[c] = 0 THEN 0 ELSE grants[c] - 1]

Barrier == INSTANCE AllReduceBarrier WITH
             Clients <- Members, contributed <- Contributed, released <- Released

(* The threads, their queues and the clients implement a barrier per       *)
(* epoch, whether or not a late connection joins the counted ones, and     *)
(* whichever client is killed and whatever becomes of its context.         *)
ImplementsBarrier == Barrier!Spec

(* The barrier never gets stuck: unless a client has given up connecting   *)
(* or was killed, every client gets all its rounds granted.                *)
AllRoundsComplete ==
  <>(\E c \in Conns : cpc[c] = "gone") \/ <>(\A c \in Members : grants[c] = Rounds + 1)

=============================================================================
