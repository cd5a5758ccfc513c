------------------------------ MODULE Topology ------------------------------
(***************************************************************************)
(* Who connects to whom in the networking service.  Every node is started  *)
(* with the same list of addresses and sorts it, so a node is its rank     *)
(* 0 .. n-1 in that order.  Each node computes on its own, for its         *)
(* topology, the nodes its clients connect to and how many senders its     *)
(* server waits for (num_senders).                                         *)
(*                                                                         *)
(* A definition named D_what is D with a plausible bug; it stands before D *)
(* and nothing uses it but the runs that show a property can fail.         *)
(***************************************************************************)
EXTENDS Naturals, FiniteSets, Functions

Nodes(n) == 0 .. n - 1

Others(n, i) == Nodes(n) \ {i}

(* AllReduceType, named as on the command line. *)
Topologies == {"full-mesh", "ring", "tree", "dbt", "server-client"}

-----------------------------------------------------------------------------
(* Ring: get_neighboring_node takes the first other node that sorts after  *)
(* this one, else the first of the others.                                 *)

RingNext(n, i) ==
  LET after == {j \in Others(n, i) : i < j}
      least(S) == CHOOSE j \in S : \A k \in S : j <= k
  IN  IF after # {} THEN least(after) ELSE least(Others(n, i))

-----------------------------------------------------------------------------
(* Tree: extract_sub_groups. *)

(* The security check: divide by the width until the width is left; a      *)
(* remainder is fatal.  (With width 1 the loop does not end.)              *)
IsTreeSize(n, w) ==
  LET ok[v \in 0 .. n] == v = 0 \/ v = w \/ (v % w = 0 /\ ok[v \div w])
  IN  ok[n]

(* The values step takes: the powers of the width below n. *)
Steps(n, w) ==
  LET power[s \in 1 .. n] == s = 1 \/ (s % w = 0 /\ power[s \div w])
  IN  {s \in 1 .. n - 1 : power[s]}

SubGroup_unaligned(n, w, i, step) ==
  {k \in Nodes(n) : \E m \in 0 .. w - 1 : k = i + m * step}

SubGroup_one_short(n, w, i, step) ==
  LET base == i - (i % (step * w))
  IN  {base + m * step + (i % step) : m \in {k \in 0 .. w - 2 : base + k * step < n}}

(* The group of node i at this step: at most w nodes, step apart, from the *)
(* left margin of the window that holds i, at i's offset in it.            *)
SubGroup(n, w, i, step) ==
  LET base == i - (i % (step * w))
  IN  {base + m * step + (i % step) : m \in {k \in 0 .. w - 1 : base + k * step < n}}

(* sub_groups with filter_local, in the order they are reduced. *)
SubGroups(n, w, i) == [step \in Steps(n, w) |-> SubGroup(n, w, i, step) \ {i}]

TreePeers(n, w, i) == UNION Range(SubGroups(n, w, i))

-----------------------------------------------------------------------------
(* Double binary tree: get_connection for a node at an offset of the       *)
(* sorted list; the second tree uses the list sorted the other way round.  *)

Downstream_odd_child(n, offset) ==
  CASE offset = 0 -> {1}
    [] offset # 0 /\ offset < n \div 2 -> {2 * offset, 2 * offset - 1}
    [] OTHER -> {}

Downstream(n, offset) ==
  CASE offset = 0 -> {1}
    [] offset # 0 /\ offset < n \div 2 -> {2 * offset, 2 * offset + 1}
    [] OTHER -> {}

Upper_zero_based_heap(offset) == IF offset = 0 THEN {} ELSE {(offset - 1) \div 2}

Upper(offset) == IF offset = 0 THEN {} ELSE {offset \div 2}

Mirror(n, i) == n - 1 - i

(* trees[t][0] and trees[t][1] of get_tree_neighbors. *)
TreeUpper(n, t, i) ==
  IF t = 1 THEN Upper(i) ELSE {Mirror(n, o) : o \in Upper(Mirror(n, i))}

TreeDownstream(n, t, i) ==
  IF t = 1 THEN Downstream(n, i) ELSE {Mirror(n, o) : o \in Downstream(n, Mirror(n, i))}

-----------------------------------------------------------------------------
(* What the *_service methods make of it. *)

(* The nodes that the clients of node i connect to.  In server-client mode *)
(* node 0 is the server.                                                   *)
Targets(topo, n, w, i) ==
  CASE topo = "full-mesh" -> Others(n, i)
    [] topo = "ring" -> {RingNext(n, i)}
    [] topo = "tree" -> TreePeers(n, w, i)
    [] topo = "dbt" -> TreeUpper(n, 1, i) \cup TreeUpper(n, 2, i)
    [] topo = "server-client" -> {0} \ {i}

(* num_senders of node i's server. *)
NumSenders(topo, n, w, i) ==
  CASE topo = "full-mesh" -> n - 1
    [] topo = "ring" -> 1
    [] topo = "tree" -> Cardinality(TreePeers(n, w, i))
    [] topo = "dbt" ->
         Cardinality(TreeDownstream(n, 1, i)) + Cardinality(TreeDownstream(n, 2, i))
    [] topo = "server-client" -> n - 1

(* The nodes that run a server. *)
Servers(topo, n) == IF topo = "server-client" THEN {0} ELSE Nodes(n)

=============================================================================
