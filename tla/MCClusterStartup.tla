-------------------------- MODULE MCClusterStartup --------------------------
(* Command lines to start clusters with. *)
EXTENDS ClusterStartup

Cluster(t, size, width, single) == [topo |-> t, n |-> size, w |-> width, single_recv |-> single]

(* The five topologies in the sizes they are meant for, with both receiver *)
(* modes.                                                                  *)
SoundConfigs ==
  {Cluster("dbt", 4, 0, TRUE)} \cup
  UNION {{Cluster("full-mesh", 3, 0, b), Cluster("ring", 4, 0, b), Cluster("tree", 3, 3, b),
          Cluster("dbt", 2, 0, b), Cluster("server-client", 4, 0, b)} : b \in BOOLEAN}

(* A double binary tree over an odd number of nodes. *)
OddTree == {Cluster("dbt", 3, 0, TRUE)}

=============================================================================
