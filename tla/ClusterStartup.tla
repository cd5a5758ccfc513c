--------------------------- MODULE ClusterStartup ---------------------------
(***************************************************************************)
(* Bringing a cluster up: the operator starts the same program on every    *)
(* node; each process starts a server thread and one client thread per     *)
(* target of its topology (full_mesh_service, ring_service, tree_service,  *)
(* double_binary_tree_service, server_client_service).  Clients retry      *)
(* until the server listens, a server accepts connections in the order     *)
(* they come, and sessions are initialised by a handshake of both ends.    *)
(*                                                                         *)
(* LOG(FATAL) ends the whole process.  The TCP stack is external: connect  *)
(* succeeds as soon as the peer listens, and the connection then waits in  *)
(* its backlog whether or not the server ever accepts it.                  *)
(*                                                                         *)
(* A definition named D_what is D with a plausible bug; it stands before D *)
(* and nothing uses it but the runs that show a property can fail.         *)
(***************************************************************************)
EXTENDS Topology, Sequences

CONSTANT
  Configs   \* command lines: [topo, n, w, single_recv]

ASSUME ConfigAssumption ==
  \A c \in Configs : c.n \in Nat \ {0, 1} /\ c.w \in Nat /\ c.single_recv \in BOOLEAN

VARIABLES
  config,    \* the command line all nodes are started with
  server,    \* where each node's server thread is
  client,    \* where each node's client threads are, per target
  backlog,   \* connections a server has not accepted yet, oldest first
  sess,      \* the connections a server has accepted, oldest first
  up,        \* how many of them are initialised (with a single receiver),
             \* or which (with a thread per connection)
  aborted    \* the nodes whose process has hit LOG(FATAL)

vars == <<config, server, client, backlog, sess, up, aborted>>

(* What each node computes from its command line before it starts threads. *)
TargetTable == [c \in Configs |-> [i \in Nodes(c.n) |-> Targets(c.topo, c.n, c.w, i)]]

SenderTable == [c \in Configs |-> [j \in Nodes(c.n) |-> NumSenders(c.topo, c.n, c.w, j)]]

GroupTable == [c \in Configs |-> [j \in Nodes(c.n) |-> IF c.topo = "tree" THEN TreePeers(c.n, c.w, j) ELSE {}]]

N == Nodes(config.n)

IsServer(j) == j \in Servers(config.topo, config.n)

TargetsOf(i) == TargetTable[config][i]

num_senders(j) == SenderTable[config][j]

Alive(i) == i \in N \ aborted

Init ==
  /\ config \in Configs
  /\ server = [j \in N |-> "off"]
  /\ client = [i \in N |-> [j \in TargetsOf(i) |-> "off"]]
  /\ backlog = [j \in N |-> << >>]
  /\ sess = [j \in N |-> << >>]
  /\ up = [j \in N |-> {}]
  /\ aborted = {}

-----------------------------------------------------------------------------
(* start_service_async: one thread per server and per client. *)
Launch(i) ==
  /\ server[i] = "off"
  /\ server' = [server EXCEPT ![i] = IF IsServer(i) THEN "starting" ELSE "none"]
  /\ client' = [client EXCEPT ![i] = [j \in TargetsOf(i) |-> "connecting"]]
  /\ UNCHANGED <<config, backlog, sess, up, aborted>>

(* RDMAServer::connecting up to listen. *)
Listen(j) ==
  /\ Alive(j)
  /\ server[j] = "starting"
  /\ server' = [server EXCEPT ![j] = "accept"]
  /\ UNCHANGED <<config, client, backlog, sess, up, aborted>>

(* The socket stays open when the accept loop is over. *)
Listening(j) == Alive(j) /\ server[j] \in {"accept", "init", "run"}

(* RDMAClient::connecting. *)
Connect(i, j) ==
  /\ Alive(i)
  /\ client[i][j] = "connecting"
  /\ Listening(j)
  /\ client' = [client EXCEPT ![i][j] = "connected"]
  /\ backlog' = [backlog EXCEPT ![j] = Append(@, i)]
  /\ UNCHANGED <<config, server, sess, up, aborted>>

(* All retries were refused: post_connect is fatal. *)
GiveUp(i, j) ==
  /\ Alive(i)
  /\ client[i][j] = "connecting"
  /\ ~Listening(j)
  /\ aborted' = aborted \cup {i}
  /\ UNCHANGED <<config, server, client, backlog, sess, up>>

Accept_one_short(j) ==
  /\ Alive(j)
  /\ server[j] = "accept"
  /\ backlog[j] # << >>
  /\ sess' = [sess EXCEPT ![j] = Append(@, Head(backlog[j]))]
  /\ backlog' = [backlog EXCEPT ![j] = Tail(@)]
  /\ server' = [server EXCEPT ![j] =
       IF config.single_recv /\ Len(sess[j]) + 2 >= num_senders(j) THEN "init" ELSE "accept"]
  /\ UNCHANGED <<config, client, up, aborted>>

Accept_counts_before(j) ==
  /\ Alive(j)
  /\ server[j] = "accept"
  /\ backlog[j] # << >>
  /\ sess' = [sess EXCEPT ![j] = Append(@, Head(backlog[j]))]
  /\ backlog' = [backlog EXCEPT ![j] = Tail(@)]
  /\ server' = [server EXCEPT ![j] =
       IF config.single_recv /\ Len(sess[j]) = num_senders(j) THEN "init" ELSE "accept"]
  /\ UNCHANGED <<config, client, up, aborted>>

(* One turn of the accept loop: handle_with_new_connect keeps the session  *)
(* for later (single receiver) or starts a thread for it; with a single    *)
(* receiver the loop ends after num_senders connections.                   *)
Accept(j) ==
  /\ Alive(j)
  /\ server[j] = "accept"
  /\ backlog[j] # << >>
  /\ sess' = [sess EXCEPT ![j] = Append(@, Head(backlog[j]))]
  /\ backlog' = [backlog EXCEPT ![j] = Tail(@)]
  /\ server' = [server EXCEPT ![j] =
       IF config.single_recv /\ Len(sess[j]) + 1 = num_senders(j) THEN "init" ELSE "accept"]
  /\ UNCHANGED <<config, client, up, aborted>>

(* The sessions the server's threads are waiting in session_init for: the  *)
(* next one in order of arrival, or all of them.                           *)
Waiting(j) ==
  IF config.single_recv
    THEN IF server[j] = "init" THEN {sess[j][Cardinality(up[j]) + 1]} ELSE {}
    ELSE {sess[j][k] : k \in DOMAIN sess[j]} \ up[j]

(* Both ends run session_init and the synchronisations after it.  The tree *)
(* server then looks for the sender in its groups, CHECK(found).           *)
SessionInit(j, i) ==
  /\ Alive(j) /\ Alive(i)
  /\ i \in Waiting(j)
  /\ client' = [client EXCEPT ![i][j] = "running"]
  /\ IF config.single_recv /\ config.topo = "tree" /\ i \notin GroupTable[config][j]
       THEN aborted' = aborted \cup {j} /\ UNCHANGED <<server, up>>
       ELSE /\ up' = [up EXCEPT ![j] = @ \cup {i}]
            /\ server' = [server EXCEPT ![j] =
                 IF config.single_recv /\ Cardinality(up[j]) + 1 = Len(sess[j]) THEN "run" ELSE @]
            /\ UNCHANGED aborted
  /\ UNCHANGED <<config, backlog, sess>>

(* A thread in the middle of a handshake with a process that is gone: a    *)
(* failed read or write is fatal.  (An orderly end of the stream is not,   *)
(* recv_data_force then loops for ever.)                                   *)
PeerLost(i, j) ==
  /\ Alive(i) /\ j \in aborted
  /\ \/ j \in TargetsOf(i) /\ client[i][j] = "connected"
     \/ j \in Waiting(i)
  /\ aborted' = aborted \cup {i}
  /\ UNCHANGED <<config, server, client, backlog, sess, up>>

-----------------------------------------------------------------------------

Step(i) ==
  \/ Launch(i) \/ Listen(i) \/ Accept(i)
  \/ \E j \in TargetsOf(i) : Connect(i, j)
  \/ \E j \in N : SessionInit(i, j)

Next ==
  \/ \E i \in N : Step(i)
  \/ \E i \in N : \E j \in TargetsOf(i) : GiveUp(i, j)
  \/ \E i, j \in N : PeerLost(i, j)

(* Every node is started, and each of its threads is scheduled.  Nothing   *)
(* makes a client give up: the retries last five minutes.                  *)
Spec ==
  /\ Init /\ [][Next]_vars
  /\ \A i \in UNION {Nodes(c.n) : c \in Configs} :
       /\ WF_vars(i \in N /\ (Launch(i) \/ Listen(i) \/ Accept(i)))
       /\ \A j \in UNION {Nodes(c.n) : c \in Configs} :
            /\ WF_vars(i \in N /\ j \in TargetsOf(i) /\ Connect(i, j))
            /\ WF_vars(i \in N /\ j \in N /\ SessionInit(i, j))

-----------------------------------------------------------------------------
(* Properties. *)

(* A server leaves its accept loop, which it never enters again, only when *)
(* every client that will ever connect to it has: no client connects to a  *)
(* socket that nobody accepts from any more and hangs in its handshake.    *)
NoClientStranded ==
  \A j \in N : server[j] \in {"init", "run"} =>
    backlog[j] = << >> /\ \A i \in N : j \in TargetsOf(i) =>
                             client[i][j] \in {"connected", "running"}

(* Once every server listens no process ends any more: no client gives up, *)
(* no server meets a sender it has no group for, no handshake loses its    *)
(* peer.                                                                   *)
NoLateAbort == [][(\A j \in N : IsServer(j) => Listening(j)) => aborted' = aborted]_vars

(* However the nodes are interleaved, the cluster comes up: every client   *)
(* has a session with its target, and every single receiver that expects   *)
(* senders is past the initialisation of its sessions, unless a process    *)
(* gave up.  No circular wait between handshakes.                          *)
ClusterComesUp ==
  <>(aborted # {}) \/
  <>[](\A i \in N :
         /\ \A j \in TargetsOf(i) : client[i][j] = "running"
         /\ config.single_recv /\ IsServer(i) /\ num_senders(i) > 0 => server[i] = "run")

=============================================================================
