------------------------- MODULE MCAllReduceServer -------------------------
(* Three senders, one of them mortal: of a node of a full mesh of four, in *)
(* one group, or of a node of a width-2 tree over eight, in three groups.  *)
EXTENDS AllReduceServer

CONSTANTS n2, n3, n5

MCClients == {n2, n3, n5}
MCGroupings ==
  {[c \in MCClients |-> 1],
   [c \in MCClients |-> CASE c = n2 -> 1 [] c = n3 -> 2 [] c = n5 -> 3]}
MCMortal == {n3}

=============================================================================
