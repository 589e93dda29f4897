------------------------------ MODULE MCSigner ------------------------------
(***************************************************************************)
(* Instances of Signer for TLC: one or two items of one vault/chain.       *)
(***************************************************************************)
EXTENDS Signer, TLC

CONSTANTS v1, w1, w2, t1, t2

OneVault == {v1}
AllOnOne == [i \in Items |-> v1]

Alike == Permutations(Workers) \cup Permutations(TxIds)

=============================================================================
