----------------------------- MODULE MCOutbound -----------------------------
(* Two vaults, three nodes and an inbound with one outbound.               *)
EXTENDS Outbound, TLC

CONSTANTS v1, v2, n1, n2, n3, a1, x1

MCMembers == (v1 :> {n1, n2}) @@ (v2 :> {n3})

OneAction == {a1}

OneAsset == [a \in Actions |-> x1]

AllFirst == [a \in Actions |-> v1]

\* The two members of v1 are alike.
Alike == Permutations({n1, n2})

=============================================================================
