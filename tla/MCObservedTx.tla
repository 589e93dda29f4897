---------------------------- MODULE MCObservedTx ----------------------------
(***************************************************************************)
(* Small instances of ObservedTx: sets of observations and of validator    *)
(* sets for the .cfg files.                                                *)
(***************************************************************************)
EXTENDS ObservedTx, TLC

CONSTANTS n1, n2, n3

MCNodes == {n1, n2, n3}
Symmetry == Permutations(Nodes)

Obs(coins, gas, seen, final) ==
  [coins |-> coins, gas |-> gas, blockHeight |-> seen, finaliseHeight |-> final]

\* seen at height 1 with one more confirmation to go, then final at height 2
Confirmed(gas) == {Obs(2, gas, 1, 2), Obs(2, gas, 2, 2)}

\* final as soon as it is seen
AtOnce(gas) == {Obs(2, gas, 2, 2)}

\* nodes that report different coins
Disputed == {Obs(2, 1, 2, 2), Obs(3, 1, 2, 2)}

\* a reorg changes the effective gas, up or down
Regassed == {Obs(2, 1, 2, 2), Obs(2, 2, 3, 3)}

Always(S) == [m \in Memos |-> S]

NoObservations == Always({})
UnfinalThenFinal == Always(Confirmed(1))

\* a disputed add, a migration seen on both sides (its coins and gas empty the
\* sending vault), a cancel with confirmations, and outbounds whose gas changes
BookingIn == [m \in Memos |-> CASE m = "add"     -> Disputed
                                [] m = "migrate" -> AtOnce(1)
                                [] OTHER         -> {}]
BookingOut == [m \in Memos |-> CASE m = "add"     -> {}
                                 [] m = "migrate" -> AtOnce(2)
                                 [] m = "cancel"  -> Confirmed(1)
                                 [] OTHER         -> Regassed]

\* no churn; any validator set of two or three nodes
NoChurn == {Nodes}
AnyChurn == {S \in SUBSET Nodes : Cardinality(S) >= 2}

ActiveVaults == {[v \in Vaults |-> "Active"]}
InboundVaults == {[v \in Vaults |-> s] : s \in {"Active", "Inactive"}}
RetiringVaults == {[v \in Vaults |-> IF v = "from" THEN "Retiring" ELSE "Active"]}
=============================================================================
