----------------------------- MODULE MCTopology -----------------------------
(* The deployments to check. *)
EXTENDS Configuration

CONSTANTS MaxN, MaxW

ASSUME BoundsAssumption == MaxN \in Nat /\ MaxN >= 3 /\ MaxW \in Nat /\ MaxW >= 2

(* An option, or its absence. *)
Maybe(name, values) == {<< >>} \cup {<<<<name, v>>>> : v \in values}

TopoOptions(widths) ==
  {<<<<"topo", t>>>> : t \in Topologies \ {"tree"}} \cup
  {<<<<"topo", "tree">>, <<"tree-width", w>>>> : w \in widths}

(* Two or three nodes with any combination of options, the addresses in    *)
(* any order or absent, no topology or an unknown one, also after another, *)
(* any width, a wrong --num.                                               *)
SmallDeployments ==
  UNION {{[n |-> size, args |-> t \o s \o u \o m \o c] :
             t \in {<< >>, <<<<"topo", "tree">>>>, <<<<"topo", "star">>>>,
                    <<<<"topo", "ring">>, <<"topo", "star">>>>} \cup TopoOptions(0 .. 3),
             s \in Maybe("server", {0, 1}),
             u \in Maybe("single-recv", {""}),
             m \in Maybe("num", {size - 1, size}),
             c \in {<< >>} \cup {<<<<"cluster", p>>>> : p \in SetToSeqs(Nodes(size))}} :
         size \in {2, 3}}

(* All sizes and widths, the addresses listed in descending order. *)
LargeDeployments ==
  UNION {{[n |-> size,
           args |-> <<<<"cluster", [r \in 1 .. size |-> size - r]>>, <<"single-recv", "">>,
                      <<"server", 0>>, <<"event-channel", "">>>> \o t] :
             t \in TopoOptions(2 .. MaxW)} : size \in 4 .. MaxN}

AllDeployments == SmallDeployments \cup LargeDeployments

=============================================================================
