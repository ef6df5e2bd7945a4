--------------------------- MODULE MCOperatorStock ---------------------------
(* Two nodes of three chests, of which the first two are reserved, and a chest
   is full with one: an order of two takes two chests, in two nodes, and the
   diamonds need a node to be added. *)
EXTENDS OperatorStock

MCRoom   == [g \in Goods |-> 1]
MCSupply == [g \in Goods |-> IF g = "iron" THEN 2 ELSE 1]
=============================================================================
