-------------------------- MODULE ObservedTxVoter --------------------------
(***************************************************************************)
(* The voter that collects the observations of one external transaction    *)
(* (x/thorchain/types/type_observed_tx.go), as operators on a record.      *)
(*                                                                         *)
(* An observation keeps what the code compares: the coins and the gas of   *)
(* the transaction, and the external heights BlockHeight and               *)
(* FinaliseHeight.  The transaction ID, the chain and the addresses are    *)
(* the same in all observations of one voter.  As in Go, the zero value    *)
(* stands for "no transaction".                                            *)
(***************************************************************************)
EXTENDS Integers, Sequences, FiniteSets

CONSTANT Nodes              \* all node accounts, active or not

ASSUME NodesAssumption == IsFiniteSet(Nodes) /\ Nodes # {}

Observation == [coins : Nat, gas : Nat, blockHeight : Nat, finaliseHeight : Nat]

ObservedTxs == [coins : Nat, gas : Nat, blockHeight : Nat, finaliseHeight : Nat,
                signers : SUBSET Nodes]

NoTx == [coins |-> 0, gas |-> 0, blockHeight |-> 0, finaliseHeight |-> 0,
         signers |-> {}]

IsEmpty(t) == t.blockHeight = 0

IsFinal(t) == t.finaliseHeight = t.blockHeight

EqualsExIgnoreGas(t, u) == t.coins = u.coins

EqualsEx(t, u) == EqualsExIgnoreGas(t, u) /\ t.gas = u.gas

Equals(t, u) == /\ EqualsEx(t, u)
                /\ t.blockHeight = u.blockHeight
                /\ t.finaliseHeight = u.finaliseHeight

\* 2/3 of the total, rounded up
HasSuperMajority(signers, total) ==
  LET min == (total * 2) \div 3 + (IF (total * 2) % 3 > 0 THEN 1 ELSE 0)
  IN  /\ signers <= total
      /\ signers > 0
      /\ signers >= min

-----------------------------------------------------------------------------

Voters == [txs : Seq(ObservedTxs), tx : ObservedTxs,
           height : Nat, unfinalizedHeight : Nat, finalisedHeight : Nat,
           updatedVault : BOOLEAN, reverted : BOOLEAN]

NewVoter == [txs |-> <<>>, tx |-> NoTx,
             height |-> 0, unfinalizedHeight |-> 0, finalisedHeight |-> 0,
             updatedVault |-> FALSE, reverted |-> FALSE]

\* The index of the entry that equals observation o.  Add keeps the entries
\* pairwise different, so there is at most one.
EntryOf(v, o) == {i \in DOMAIN v.txs : Equals(v.txs[i], o)}

\* Add refuses a signer that already signed an equal entry ...
HasVoted(v, o, n) == \E i \in EntryOf(v, o) : n \in v.txs[i].signers

\* ... and otherwise signs the equal entry or appends a new one.
Add(v, o, n) ==
  IF EntryOf(v, o) # {}
  THEN [v EXCEPT !.txs = [i \in DOMAIN v.txs |->
          IF i \in EntryOf(v, o)
          THEN [v.txs[i] EXCEPT !.signers = @ \cup {n}]
          ELSE v.txs[i]]]
  ELSE [v EXCEPT !.txs = Append(v.txs,
          [coins |-> o.coins, gas |-> o.gas, blockHeight |-> o.blockHeight,
           finaliseHeight |-> o.finaliseHeight, signers |-> {n}])]

\* The nodes that signed any entry with the contents of t and the given
\* finality, whatever external height they saw it at.
MatchingSigners(v, t, final) ==
  UNION {v.txs[i].signers :
           i \in {j \in DOMAIN v.txs : /\ IsFinal(v.txs[j]) = final
                                       /\ EqualsEx(v.txs[j], t)}}

Agreed(v, t, final, active) ==
  HasSuperMajority(Cardinality(MatchingSigners(v, t, final) \cap active),
                   Cardinality(active))

\* mutant: every observation counts for every entry
WinnersOfAny(v, final, active) ==
  {i \in DOMAIN v.txs : /\ IsFinal(v.txs[i]) = final
                        /\ HasSuperMajority(
                             Cardinality(UNION {v.txs[j].signers : j \in DOMAIN v.txs}
                                         \cap active),
                             Cardinality(active))}

\* getConsensusTx: the first entry that a super majority agrees with.  The
\* entry comes back with its own signers only.
Winners(v, final, active) ==
  {i \in DOMAIN v.txs : /\ IsFinal(v.txs[i]) = final
                        /\ Agreed(v, v.txs[i], final, active)}

First(S) == CHOOSE i \in S : \A j \in S : i <= j

GetTx(v, active) ==
  IF ~IsEmpty(v.tx) /\ IsFinal(v.tx) THEN v.tx
  ELSE IF Winners(v, TRUE, active) # {}
       THEN v.txs[First(Winners(v, TRUE, active))]
       ELSE IF Winners(v, FALSE, active) # {}
            THEN v.txs[First(Winners(v, FALSE, active))]
            ELSE v.tx

HasConsensus(v, active) == ~IsEmpty(GetTx(v, active))

HasFinalised(v, active) ==
  ~IsEmpty(GetTx(v, active)) /\ IsFinal(GetTx(v, active))

\* mutant: the finality of the observation is not looked at
GetConsensusSignersAny(v) ==
  IF IsEmpty(v.tx) THEN {}
  ELSE MatchingSigners(v, v.tx, TRUE) \cup MatchingSigners(v, v.tx, FALSE)

GetConsensusSigners(v) ==
  IF IsEmpty(v.tx) THEN {} ELSE MatchingSigners(v, v.tx, IsFinal(v.tx))

-----------------------------------------------------------------------------
(***************************************************************************)
(* Slash points, clamped at zero by SetNodeAccountSlashPoints.             *)
(***************************************************************************)

IncSlashPoints(slash, points, S) ==
  [n \in Nodes |-> IF n \in S THEN slash[n] + points ELSE slash[n]]

DecSlashPoints(slash, points, S) ==
  [n \in Nodes |-> IF n \notin S THEN slash[n]
                   ELSE IF slash[n] < points THEN 0 ELSE slash[n] - points]

=============================================================================
