------------------------------ MODULE MCGossip ------------------------------
(* The gossip of a few nodes.                                              *)
EXTENDS Gossip

CONSTANTS n1, n2, n3

=============================================================================
