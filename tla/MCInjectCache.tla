---------------------------- MODULE MCInjectCache ---------------------------
(* Two senders and the consensus thread of one node.                       *)
EXTENDS InjectCache

CONSTANTS s1, s2, cs

MCThreads == {s1, s2, cs}

=============================================================================
