----------------------------- MODULE MCKeysign ------------------------------
(* Three members, of which two sign; one calls twice and leads at first.    *)
EXTENDS Keysign, TLC

CONSTANTS n1, n2, n3

Leaders == [w \in Windows |-> IF w = 1 THEN n3 ELSE n1]
TwoCalls == (n1 :> 1) @@ (n2 :> 1) @@ (n3 :> 2)

=============================================================================
