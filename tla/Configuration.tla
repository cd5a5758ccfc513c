--------------------------- MODULE Configuration ---------------------------
(***************************************************************************)
(* From the command line to the threads of the networking service.  The    *)
(* same program is started with the same options on each of n nodes; every *)
(* node parses them (Config::parse_args, conflict_check) and works out for *)
(* itself what it serves (NetworkingService::start_service_async and the   *)
(* *_service method of the topology): whether it runs a server, how many   *)
(* senders that waits for, and the nodes its clients connect to.           *)
(*                                                                         *)
(* An address is a number, in the order std::sort puts the addresses.  An  *)
(* option is a pair of its name and its argument.  The nodes do not meet   *)
(* before they connect (module ClusterStartup), so they are taken in turn. *)
(*                                                                         *)
(* A definition named D_what is D with a plausible bug; it stands before D *)
(* and nothing uses it but the runs that show a property can fail.         *)
(***************************************************************************)
EXTENDS Topology, Integers, SequencesExt, TLC

CONSTANT
  Deployments   \* [n: the number of nodes, args: the options they are started with]

Options == {"cluster", "server", "num", "single-recv", "event-channel", "topo", "tree-width"}

ASSUME DeploymentAssumption ==
  \A d \in Deployments :
    /\ d.n \in Nat \ {0, 1}
    /\ Len(d.args) \in Nat /\ DOMAIN d.args = 1 .. Len(d.args)
    /\ \A a \in Range(d.args) :
         Len(a) = 2 /\ a[1] \in Options /\ (a[1] = "tree-width" => a[2] \in Int)

(* A list of addresses names every node once, in any order: this makes one *)
(* command line the right one for all nodes.                               *)
ASSUME ClusterAssumption ==
  \A d \in Deployments : \A a \in Range(d.args) :
    a[1] = "cluster" => a[2] \in Bijection(1 .. d.n, Nodes(d.n))

VARIABLES
  np, argv,   \* the deployment: the number of nodes and their options
  turn,       \* the node whose turn it is
  optind,     \* the option it parses next
  conf,       \* the nodes' Config objects
  stage,      \* how far each has come, or how it ended
  service     \* what its server and its clients are to do

confVars == <<np, argv, turn, optind, conf, stage, service>>

(* The empty server_name, an address no node has. *)
Nobody == -1

(* The defaults of Config, as far as they decide anything here. *)
DefaultConf ==
  [cluster |-> << >>, num_senders |-> 0, single_recv |-> FALSE, all_reduce |-> "unknown",
   tree_width |-> 0, server_name |-> Nobody, serve_as_client |-> FALSE, use_event |-> FALSE]

NoService == [server |-> FALSE, num_senders |-> 0, targets |-> {}]

ConfInit ==
  /\ \E d \in Deployments : np = d.n /\ argv = d.args
  /\ turn = 0
  /\ optind = 1
  /\ conf = [m \in Nodes(np) |-> DefaultConf]
  /\ stage = [m \in Nodes(np) |-> "parse"]
  /\ service = [m \in Nodes(np) |-> NoService]

(* std::sort: the r-th is the entry with less than r others below it and   *)
(* at least r up to it.                                                    *)
Sorted(list) ==
  LET below == [a \in Range(list) |-> Cardinality({k \in DOMAIN list : list[k] < a})]
      upto == [a \in Range(list) |-> Cardinality({k \in DOMAIN list : list[k] <= a})]
  IN  [r \in DOMAIN list |-> CHOOSE a \in Range(list) : below[a] < r /\ r <= upto[a]]

-----------------------------------------------------------------------------
(* Config. *)

AddToCluster_unsorted(me, list, node) == IF node = me THEN list ELSE Append(list, node)

(* All addresses but the node's own, in order. *)
AddToCluster(me, list, node) == Sorted(IF node = me THEN list ELSE Append(list, node))

SetServerName(me, c, node) ==
  [c EXCEPT !.server_name = node, !.serve_as_client = node # me]

(* The cases of parse_args that set what start_service_async depends on.   *)
(* The name of no topology changes nothing.                                *)
ParseOption(me, c, option) ==
  LET arg == option[2]
      list[k \in 0 .. Len(arg)] == IF k = 0 THEN c.cluster ELSE AddToCluster(me, list[k - 1], arg[k])
  IN  CASE option[1] = "cluster" -> [c EXCEPT !.cluster = list[Len(arg)]]
        [] option[1] = "server" -> SetServerName(me, c, arg)
        [] option[1] = "num" -> [c EXCEPT !.num_senders = arg]
        [] option[1] = "single-recv" -> [c EXCEPT !.single_recv = TRUE]
        [] option[1] = "event-channel" -> [c EXCEPT !.use_event = TRUE]
        [] option[1] = "topo" -> [c EXCEPT !.all_reduce = IF arg \in Topologies THEN arg ELSE @]
        [] option[1] = "tree-width" -> [c EXCEPT !.tree_width = arg]

NextOption ==
  /\ turn \in Nodes(np) /\ stage[turn] = "parse"
  /\ optind <= Len(argv)
  /\ conf' = [conf EXCEPT ![turn] = ParseOption(turn, @, argv[optind])]
  /\ optind' = optind + 1
  /\ UNCHANGED <<np, argv, turn, stage, service>>

(* conflict_check: the number of senders, if none is given, is that of the *)
(* other nodes ...                                                         *)
WithSenders(c) ==
  IF c.num_senders = 0 /\ c.cluster # << >> THEN [c EXCEPT !.num_senders = Len(c.cluster)] ELSE c

(* ... without any a single receiver is refused, as is a tree of no width, *)
Refused(c) ==
  \/ c.single_recv /\ c.num_senders = 0
  \/ c.all_reduce = "tree" /\ c.tree_width <= 0

(* ... and in server-client mode the role follows from the server's name,  *)
(* also when there is none: the check for that case never fires here,      *)
(* since serve_as_client is only set together with a name.                 *)
WithRole(me, c) ==
  IF c.all_reduce = "server-client" THEN [c EXCEPT !.serve_as_client = c.server_name # me] ELSE c

ConflictCheck_counts_at_server(me) ==
  /\ stage[me] = "parse"
  /\ optind > Len(argv)
  /\ LET c == IF conf[me].serve_as_client THEN conf[me] ELSE WithSenders(conf[me])
     IN  /\ conf' = [conf EXCEPT ![me] = IF Refused(c) THEN c ELSE WithRole(me, c)]
         /\ stage' = [stage EXCEPT ![me] = IF Refused(c) THEN "exit" ELSE "ready"]
  /\ UNCHANGED <<np, argv, turn, optind, service>>

ConflictCheck(me) ==
  /\ stage[me] = "parse"
  /\ optind > Len(argv)
  /\ LET c == WithSenders(conf[me])
     IN  /\ conf' = [conf EXCEPT ![me] = IF Refused(c) THEN c ELSE WithRole(me, c)]
         /\ stage' = [stage EXCEPT ![me] = IF Refused(c) THEN "exit" ELSE "ready"]
  /\ UNCHANGED <<np, argv, turn, optind, service>>

-----------------------------------------------------------------------------
(* NetworkingService. *)

(* get_neighboring_node: the first of the list that sorts after this node, *)
(* else the first.                                                         *)
NextHop(me, list) ==
  LET after == {k \in DOMAIN list : me < list[k]}
      first == CHOOSE k \in after : \A j \in after : k <= j
  IN  IF after # {} THEN list[first] ELSE list[1]

(* The list tree and double binary tree make of cluster and local_ip, and  *)
(* the position of this node in it.                                        *)
All(me, c) == Sorted(Append(c.cluster, me))
Rank(me, c) == CHOOSE r \in 0 .. Len(c.cluster) : All(me, c)[r + 1] = me

(* What a *_service method launches, as targets and senders in that list. *)
Serve(me, c) ==
  LET size == Len(c.cluster) + 1
      nodes(ranks) == {All(me, c)[r + 1] : r \in ranks}
  IN  CASE c.all_reduce = "server-client" ->
             [server |-> ~c.serve_as_client, num_senders |-> c.num_senders,
              targets |-> IF c.serve_as_client THEN {c.server_name} ELSE {}]
        [] c.all_reduce = "full-mesh" ->
             [server |-> TRUE, num_senders |-> c.num_senders, targets |-> Range(c.cluster)]
        [] c.all_reduce = "ring" ->
             [server |-> TRUE, num_senders |-> 1, targets |-> {NextHop(me, c.cluster)}]
        [] c.all_reduce = "tree" ->
             [server |-> TRUE,
              num_senders |-> NumSenders("tree", size, c.tree_width, Rank(me, c)),
              targets |-> nodes(Targets("tree", size, c.tree_width, Rank(me, c)))]
        [] c.all_reduce = "dbt" ->
             [server |-> TRUE,
              num_senders |-> NumSenders("dbt", size, 0, Rank(me, c)),
              targets |-> nodes(Targets("dbt", size, 0, Rank(me, c)))]

(* How start_service_async ends: LOG(FATAL) for no topology, no next hop,  *)
(* a client without a server's name (RDMAClient::config_check), or a size  *)
(* that is no power of the width; a width of 1 keeps the security check of *)
(* extract_sub_groups in its loop for ever; a double binary tree of one    *)
(* node reads past the end of its list.                                    *)
Outcome(c) ==
  CASE c.all_reduce = "unknown" -> "fatal"
    [] c.all_reduce = "ring" /\ c.cluster = << >> -> "fatal"
    [] c.all_reduce = "server-client" /\ c.serve_as_client /\ c.server_name = Nobody -> "fatal"
    [] c.all_reduce = "tree" /\ c.tree_width = 1 /\ c.cluster # << >> -> "hang"
    [] c.all_reduce = "tree" /\ ~IsTreeSize(Len(c.cluster) + 1, c.tree_width) -> "fatal"
    [] c.all_reduce = "dbt" /\ c.cluster = << >> -> "undefined"
    [] OTHER -> "running"

StartServiceAsync(me) ==
  /\ stage[me] = "ready"
  /\ stage' = [stage EXCEPT ![me] = Outcome(conf[me])]
  /\ service' = [service EXCEPT ![me] =
       IF Outcome(conf[me]) = "running" THEN Serve(me, conf[me]) ELSE NoService]
  /\ UNCHANGED <<np, argv, turn, optind, conf>>

-----------------------------------------------------------------------------

(* The next node's turn. *)
NextNode ==
  /\ turn \in Nodes(np) /\ stage[turn] \notin {"parse", "ready"}
  /\ turn' = turn + 1
  /\ optind' = 1
  /\ UNCHANGED <<np, argv, conf, stage, service>>

ConfNext ==
  \/ NextOption \/ NextNode
  \/ \E me \in Nodes(np) : me = turn /\ (ConflictCheck(me) \/ StartServiceAsync(me))

ConfSpec == ConfInit /\ [][ConfNext]_confVars

-----------------------------------------------------------------------------
(* Properties. *)

Done == turn = np
Running(topo) == Done /\ \A m \in Nodes(np) : stage[m] = "running" /\ conf[m].all_reduce = topo

(* The nodes share one command line, which lists all of them or none, and  *)
(* judge it alike, each without its own address: never do some run         *)
(* and wait for others that have refused it.                               *)
NodesAgree == Done => \A m \in Nodes(np) : stage[m] = stage[0]

(* Following the clients' targets from any node of a ring passes every     *)
(* node once, whatever the order the addresses were given in: one cycle,   *)
(* not several.                                                            *)
RingIsOneCycle ==
  Running("ring") /\ Len(conf[0].cluster) = np - 1 =>
    LET hop[m \in 0 .. np] == IF m = 0 THEN 0 ELSE CHOOSE t \in service[hop[m - 1]].targets : TRUE
    IN  hop[np] = 0 /\ {hop[m] : m \in 1 .. np} = Nodes(np)

(* In a tree that starts each group has as many members as the tree is     *)
(* wide and all of them compute the same group, and no peer is in two: the *)
(* server finds every sender in exactly one of its groups.                 *)
TreeGroupsAgree ==
  Running("tree") /\ Len(conf[0].cluster) = np - 1 =>
    LET w == conf[0].tree_width
    IN  \A m \in Nodes(np), s \in Steps(np, w) :
          /\ m \in SubGroup(np, w, m, s)
          /\ Cardinality(SubGroup(np, w, m, s)) = w
          /\ \A j \in SubGroup(np, w, m, s) : SubGroup(np, w, j, s) = SubGroup(np, w, m, s)
          /\ \A t \in Steps(np, w) \ {s} : SubGroups(np, w, m)[s] \cap SubGroups(np, w, m)[t] = {}

(* Reducing group after group, from the smallest step to the largest,      *)
(* combines the data of the whole cluster at every node.  holds[s] is what *)
(* each has combined before step s, and holds[np] what it has at the end.  *)
TreeReachesAll ==
  Running("tree") /\ Len(conf[0].cluster) = np - 1 =>
    LET w == conf[0].tree_width
        holds[s \in Steps(np, w) \cup {np}] ==
          [m \in Nodes(np) |->
             IF s = 1 THEN {m} ELSE UNION {holds[s \div w][p] : p \in SubGroup(np, w, m, s \div w)}]
    IN  \A m \in Nodes(np) : holds[np][m] = Nodes(np)

(* In double binary trees of even size every edge of either tree is known  *)
(* at both its ends, both trees reach their root from every node, and no   *)
(* node has children in both trees.                                        *)
DoubleTreeMatches ==
  Running("dbt") /\ Len(conf[0].cluster) = np - 1 /\ np % 2 = 0 =>
    /\ \A t \in {1, 2}, m, j \in Nodes(np) :
         j \in TreeUpper(np, t, m) <=> m \in TreeDownstream(np, t, j)
    /\ \A t \in {1, 2}, m \in Nodes(np) :
         LET above[h \in 0 .. np] ==
               IF h = 0 THEN {m} ELSE UNION {TreeUpper(np, t, j) : j \in above[h - 1]}
         IN  \E h \in 0 .. np : above[h] = {IF t = 1 THEN 0 ELSE np - 1}
    /\ \A m \in Nodes(np) : TreeDownstream(np, 1, m) = {} \/ TreeDownstream(np, 2, m) = {}

(* The number of senders each server waits for is the number of nodes      *)
(* whose clients connect to it, and these connect only to nodes that run a *)
(* server: in every deployment that runs and lists all nodes (where it     *)
(* needs the list), where --num is absent or true, and a double binary     *)
(* tree has an even size.                                                  *)
SendersMatch ==
  \A topo \in Topologies :
    /\ Running(topo)
    /\ topo # "server-client" => Len(conf[0].cluster) = np - 1
    /\ topo \in {"full-mesh", "server-client"} => conf[0].num_senders = np - 1
    /\ topo = "dbt" => np % 2 = 0
    => \A j \in Nodes(np) :
         LET senders == {m \in Nodes(np) : j \in service[m].targets}
         IN  IF service[j].server THEN service[j].num_senders = Cardinality(senders)
                                  ELSE senders = {}

=============================================================================
