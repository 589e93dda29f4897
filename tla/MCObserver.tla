----------------------------- MODULE MCObserver -----------------------------
(* One node and one chain with one transaction.                            *)
EXTENDS Observer

CONSTANTS t1

=============================================================================
