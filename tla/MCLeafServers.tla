---------------------------- MODULE MCLeafServers ----------------------------
(* Two ambassadors of a process, and the thread that shuts the servers down. *)
EXTENDS LeafServers

CONSTANTS c1, c2

TwoAndOne == [c \in Clients |-> IF c = c1 THEN 2 ELSE 1]
TwoKinds == {"thread", "network"}
=============================================================================
