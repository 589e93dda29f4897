-------------------------- MODULE ObservedTxProofs --------------------------
(***************************************************************************)
(* Theorems about ObservedTx for every set of nodes, of observations and   *)
(* of validator sets.                                                      *)
(***************************************************************************)
EXTENDS ObservedTx, TLAPS, FiniteSetTheorems, WellFoundedInduction

-----------------------------------------------------------------------------
(***************************************************************************)
(* Lemmas about the voter's operators                                      *)
(***************************************************************************)

\* A non-empty set of naturals has a first element.
LEMMA FirstIsMember ==
  ASSUME NEW S \in SUBSET Nat, S # {}
  PROVE  First(S) \in S /\ \A j \in S : First(S) <= j
<1> DEFINE R == {p \in Nat \X Nat : p[1] < p[2]}
<1>1. IsWellFoundedOn(R, Nat)
  BY NatLessThanWellFounded DEF OpToRel
<1>2. PICK x \in S : \A y \in S : ~(<<y, x>> \in R)
  BY <1>1, WFMin, Zenon
<1>3. ASSUME NEW y \in S PROVE x <= y
  <2>1. x \in Nat /\ y \in Nat
    OBVIOUS
  <2>2. y < x => <<y, x>> \in R
    BY <2>1
  <2>3. ~(y < x)
    BY <1>2, <2>2
  <2>4. QED
    BY <2>1, <2>3
<1>4. QED
  BY <1>3 DEF First

\* What GetTx returns is an entry or the recorded consensus tx.
LEMMA GetTxMember ==
  ASSUME NEW v \in Voters, NEW A
  PROVE  GetTx(v, A) = v.tx \/ \E i \in DOMAIN v.txs : GetTx(v, A) = v.txs[i]
<1>1. \A f \in BOOLEAN : Winners(v, f, A) \in SUBSET Nat
  BY DEF Winners, Voters
<1>2. \A f \in BOOLEAN : Winners(v, f, A) # {} =>
        First(Winners(v, f, A)) \in DOMAIN v.txs
  BY <1>1, FirstIsMember DEF Winners
<1>3. QED
  BY <1>2 DEF GetTx

LEMMA GetTxType ==
  ASSUME NEW v \in Voters, NEW A
  PROVE  GetTx(v, A) \in ObservedTxs
BY GetTxMember DEF Voters

LEMMA EntryType ==
  ASSUME NEW v \in Voters, NEW i \in DOMAIN v.txs
  PROVE  v.txs[i] \in ObservedTxs
BY DEF Voters

LEMMA SignedType ==
  ASSUME NEW t \in ObservedTxs, NEW n \in Nodes
  PROVE  [t EXCEPT !.signers = @ \cup {n}] \in ObservedTxs
<1>1. t.signers \cup {n} \in SUBSET Nodes
  BY DEF ObservedTxs
<1>2. QED
  BY <1>1 DEF ObservedTxs

\* Add keeps the type and touches the entries only.
LEMMA AddType ==
  ASSUME NEW v \in Voters, NEW o \in Observation, NEW n \in Nodes
  PROVE  /\ Add(v, o, n) \in Voters
         /\ Add(v, o, n).tx = v.tx
         /\ Add(v, o, n).height = v.height
         /\ Add(v, o, n).unfinalizedHeight = v.unfinalizedHeight
         /\ Add(v, o, n).finalisedHeight = v.finalisedHeight
         /\ Add(v, o, n).updatedVault = v.updatedVault
         /\ Add(v, o, n).reverted = v.reverted
<1>1. CASE EntryOf(v, o) # {}
  <2> DEFINE txs == [i \in DOMAIN v.txs |->
                       IF i \in EntryOf(v, o)
                       THEN [v.txs[i] EXCEPT !.signers = @ \cup {n}]
                       ELSE v.txs[i]]
  <2>1. \A i \in DOMAIN v.txs : txs[i] \in ObservedTxs
    BY EntryType, SignedType
  <2>2. txs \in Seq(ObservedTxs)
    BY <2>1 DEF Voters
  <2>3. Add(v, o, n) = [v EXCEPT !.txs = txs]
    BY <1>1 DEF Add
  <2> HIDE DEF txs
  <2>4. QED
    BY <2>2, <2>3 DEF Voters
<1>2. CASE EntryOf(v, o) = {}
  <2> DEFINE e == [coins |-> o.coins, gas |-> o.gas,
                   blockHeight |-> o.blockHeight,
                   finaliseHeight |-> o.finaliseHeight, signers |-> {n}]
  <2>1. e \in ObservedTxs
    BY DEF ObservedTxs, Observation
  <2>2. Add(v, o, n) = [v EXCEPT !.txs = Append(v.txs, e)]
    BY <1>2 DEF Add
  <2> HIDE DEF e
  <2>3. QED
    BY <2>1, <2>2 DEF Voters
<1>3. QED
  BY <1>1, <1>2

LEMMA SlashType ==
  ASSUME NEW s \in [Nodes -> Nat], NEW k \in Nat, NEW S
  PROVE  /\ IncSlashPoints(s, k, S) \in [Nodes -> Nat]
         /\ DecSlashPoints(s, k, S) \in [Nodes -> Nat]
BY DEF IncSlashPoints, DecSlashPoints

\* The slash points an attestation can leave behind.
LEMMA AttestSlashType ==
  ASSUME TypeOK, NEW n
  PROVE  /\ Charged(n) \in [Nodes -> Nat]
         /\ \A S : Settled(Charged(n), S) \in [Nodes -> Nat]
         /\ LateRefund(Charged(n), n) \in [Nodes -> Nat]
         /\ DecSlashPoints(Charged(n), ObserveSlashPoints, {n}) \in [Nodes -> Nat]
<1>1. /\ slash \in [Nodes -> Nat]
      /\ ObserveSlashPoints \in Nat
      /\ LackOfObservationPenalty \in Nat
      /\ ObserveSlashPoints + LackOfObservationPenalty \in Nat
  BY ConstantsAssumption DEF TypeOK
<1>2. Charged(n) \in [Nodes -> Nat]
  BY <1>1, SlashType DEF Charged
<1>3. QED
  BY <1>1, <1>2, SlashType DEF Settled, LateRefund

\* The voters an attestation can leave behind: they keep their entries and
\* change height, tx and finalisedHeight as stated.
LEMMA VoterStepType ==
  ASSUME TypeOK, NEW v \in Voters, NEW n \in Nodes
  PROVE  /\ Unfinalised(v) \in Voters
         /\ Unfinalised(v).txs = v.txs
         /\ Unfinalised(v).tx = GetTx(v, active)
         /\ Unfinalised(v).height = height
         /\ Unfinalised(v).finalisedHeight = v.finalisedHeight
         /\ Unfinalised(v).updatedVault = v.updatedVault
         /\ Unfinalised(v).reverted = v.reverted
         /\ Finalised(v) \in Voters
         /\ Finalised(v).txs = v.txs
         /\ Finalised(v).tx = GetTx(v, active)
         /\ Finalised(v).height = height
         /\ Finalised(v).finalisedHeight = height
         /\ Finalised(v).updatedVault = v.updatedVault
         /\ Finalised(v).reverted = v.reverted
         /\ FinalisedOut(v) \in Voters
         /\ FinalisedOut(v).txs = v.txs
         /\ FinalisedOut(v).tx = GetTx(v, active)
         /\ FinalisedOut(v).height = IF v.height = 0 THEN height ELSE v.height
         /\ FinalisedOut(v).finalisedHeight = height
         /\ FinalisedOut(v).reverted = v.reverted
         /\ LateSigned(v, n) \in Voters
         /\ LateSigned(v, n).txs = v.txs
         /\ LateSigned(v, n).tx = [v.tx EXCEPT !.signers = @ \cup {n}]
         /\ LateSigned(v, n).height = v.height
         /\ LateSigned(v, n).finalisedHeight = v.finalisedHeight
         /\ LateSigned(v, n).updatedVault = v.updatedVault
         /\ LateSigned(v, n).reverted = v.reverted
<1>1. GetTx(v, active) \in ObservedTxs /\ height \in Nat
  BY GetTxType DEF TypeOK
<1>2. [v.tx EXCEPT !.signers = @ \cup {n}] \in ObservedTxs
  BY SignedType DEF Voters
<1>3. v.height \in Nat /\ v.unfinalizedHeight \in Nat
  BY DEF Voters
<1>4. /\ Unfinalised(v) \in Voters
      /\ Unfinalised(v).txs = v.txs
      /\ Unfinalised(v).tx = GetTx(v, active)
      /\ Unfinalised(v).height = height
      /\ Unfinalised(v).finalisedHeight = v.finalisedHeight
      /\ Unfinalised(v).updatedVault = v.updatedVault
      /\ Unfinalised(v).reverted = v.reverted
  BY <1>1, <1>3 DEF Unfinalised, Voters
<1>5. /\ Finalised(v) \in Voters
      /\ Finalised(v).txs = v.txs
      /\ Finalised(v).tx = GetTx(v, active)
      /\ Finalised(v).height = height
      /\ Finalised(v).finalisedHeight = height
      /\ Finalised(v).updatedVault = v.updatedVault
      /\ Finalised(v).reverted = v.reverted
  BY <1>1, <1>4 DEF Finalised, Voters
<1>6. /\ FinalisedOut(v) \in Voters
      /\ FinalisedOut(v).txs = v.txs
      /\ FinalisedOut(v).tx = GetTx(v, active)
      /\ FinalisedOut(v).height = IF v.height = 0 THEN height ELSE v.height
      /\ FinalisedOut(v).finalisedHeight = height
      /\ FinalisedOut(v).reverted = v.reverted
  BY <1>1, <1>3, <1>5 DEF FinalisedOut, Voters
<1>7. /\ LateSigned(v, n) \in Voters
      /\ LateSigned(v, n).txs = v.txs
      /\ LateSigned(v, n).tx = [v.tx EXCEPT !.signers = @ \cup {n}]
      /\ LateSigned(v, n).height = v.height
      /\ LateSigned(v, n).finalisedHeight = v.finalisedHeight
      /\ LateSigned(v, n).updatedVault = v.updatedVault
      /\ LateSigned(v, n).reverted = v.reverted
  BY <1>2 DEF LateSigned, Voters
<1>8. QED
  BY <1>4, <1>5, <1>6, <1>7

-----------------------------------------------------------------------------
(***************************************************************************)
(* Type correctness                                                        *)
(***************************************************************************)

LEMMA IdleType == Idle \in Msgs
<1>1. NewErrataVoter \in ErrataVoters
  BY DEF NewErrataVoter, ErrataVoters
<1>2. NoUndo \in Undos
  BY <1>1 DEF NoUndo, Undos
<1>3. NoObs \in Observation
  BY DEF NoObs, Observation
<1>4. QED
  BY <1>2, <1>3 DEF Idle, Msgs

\* A message after one more attestation.
LEMMA AttestedType ==
  ASSUME TypeOK, NEW n, NEW c \in BOOLEAN, Attested(n, c)
  PROVE  /\ msg' \in Msgs
         /\ msg'.kind = msg.kind
         /\ msg'.obs = msg.obs
         /\ msg'.crossed = (msg.crossed \/ c)
<1>1. msg.todo \ {n} \in SUBSET Nodes /\ (msg.crossed \/ c) \in BOOLEAN
  BY DEF TypeOK, Msgs
<1>2. QED
  BY <1>1 DEF Attested, TypeOK, Msgs

LEMMA DeliverType ==
  ASSUME TypeOK, DeliverSingle \/ DeliverQuorum
  PROVE  TypeOK'
<1>1. active \subseteq Nodes
  BY ConstantsAssumption DEF TypeOK
<1>2. PICK S \in SUBSET active, single \in BOOLEAN : DeliverMsg(S, single)
  BY DEF DeliverSingle, DeliverQuorum
<1>3. InObs[memo] \subseteq Observation /\ OutObs[memo] \subseteq Observation
  BY ConstantsAssumption DEF TypeOK
<1>4. NoObs \in Observation /\ NoUndo \in Undos
  BY IdleType DEF Idle, Msgs
<1>5. [errataVoter |-> errataVoter, slash |-> slash] \in Undos
  BY DEF TypeOK, Undos
<1>6. PICK k \in {"in", "out", "errata"}, o \in Observation, u \in Undos :
        Deliver(k, o, S, single, u)
  BY <1>2, <1>3, <1>4, <1>5 DEF DeliverMsg
<1>7. msg' \in Msgs
  BY <1>1, <1>6 DEF Deliver, Msgs
<1>8. UNCHANGED <<memo, height, active, inVoter, outVoter, errataVoter, slash,
                  ledger>>
  BY <1>6 DEF Deliver
<1>9. QED
  BY <1>7, <1>8 DEF TypeOK, ledger

\* What an inbound attestation does to inVoter, slash and msg.
LEMMA AttestInType ==
  ASSUME TypeOK, AttestIn
  PROVE  TypeOK'
<1>1. PICK n \in msg.todo :
        /\ msg.kind = "in"
        /\ \/ InDuplicate(n) \/ InFinal(n) \/ InUnfinal(n)
           \/ InLate(n) \/ InRecorded(n)
        /\ UNCHANGED <<memo, height, active, outVoter, errataVoter, ledger>>
  BY DEF AttestIn
<1>2. n \in Nodes /\ msg.obs \in Observation /\ inVoter \in Voters
  BY DEF TypeOK, Msgs
<1> DEFINE v == Add(inVoter, msg.obs, n)
<1>3. v \in Voters
  BY <1>2, AddType
<1> HIDE DEF v
<1>4. inVoter' \in Voters /\ slash' \in [Nodes -> Nat]
  <2>1. CASE InDuplicate(n)
    BY <1>2, <2>1, AttestSlashType DEF InDuplicate, DuplicateSlash
  <2>2. CASE InFinal(n)
    BY <1>2, <1>3, <2>2, AttestSlashType, VoterStepType DEF InFinal, v
  <2>3. CASE InUnfinal(n)
    BY <1>2, <1>3, <2>3, AttestSlashType, VoterStepType DEF InUnfinal, v
  <2>4. CASE InLate(n)
    BY <1>2, <1>3, <2>4, AttestSlashType, VoterStepType DEF InLate, v
  <2>5. CASE InRecorded(n)
    BY <1>2, <1>3, <2>5, AttestSlashType DEF InRecorded, v
  <2>6. QED
    BY <1>1, <2>1, <2>2, <2>3, <2>4, <2>5
<1>5. msg' \in Msgs
  BY <1>1, AttestedType DEF InDuplicate, InFinal, InUnfinal, InLate, InRecorded
<1>6. QED
  BY <1>1, <1>4, <1>5 DEF TypeOK, ledger

LEMMA FundsType ==
  ASSUME NEW f \in [Vaults -> Nat], NEW v \in Vaults, NEW k \in Nat
  PROVE  /\ AddFunds(f, v, k) \in [Vaults -> Nat]
         /\ SubFunds(f, v, k) \in [Vaults -> Nat]
<1>1. f[v] + k \in Nat /\ SafeSub(f[v], k) \in Nat
  BY DEF SafeSub
<1>2. QED
  BY <1>1 DEF AddFunds, SubFunds

LEMMA VaultNames == InVault \in Vaults /\ OutVault \in Vaults
BY DEF InVault, OutVault, Vaults

LEMMA HandleInType ==
  ASSUME TypeOK, HandleIn \/ RunSwapQueue
  PROVE  TypeOK'
<1>1. /\ inVoter \in Voters /\ inVoter.tx \in ObservedTxs
      /\ inVoter.tx.coins \in Nat /\ msg.obs.coins \in Nat
      /\ funds \in [Vaults -> Nat] /\ pool \in Nat /\ dispatches \in Nat
  BY DEF TypeOK, Voters, ObservedTxs, Msgs, Observation
<1>2. ASSUME CreditVault PROVE inVoter' \in Voters /\ funds' \in [Vaults -> Nat]
  <2>1. inVoter.updatedVault \/ CreditDue \in BOOLEAN
    BY <1>1 DEF Voters, CreditDue, InFinalised, HasFinalised
  <2>2. [inVoter EXCEPT !.updatedVault = @ \/ CreditDue] \in Voters
    BY <1>1, <2>1 DEF Voters
  <2>3. AddFunds(funds, InVault, msg.obs.coins) \in [Vaults -> Nat]
    BY <1>1, FundsType, VaultNames
  <2>4. QED
    BY <1>1, <1>2, <2>2, <2>3 DEF CreditVault
<1>3. CASE HandleInIgnored
  BY <1>3, IdleType DEF HandleInIgnored, TypeOK, ledger
<1>4. CASE HandleInCredited
  BY <1>2, <1>4, IdleType DEF HandleInCredited, TypeOK
<1>5. CASE HandleInRefund
  BY <1>1, <1>2, <1>5, IdleType DEF HandleInRefund, Dispatch, TypeOK, Outcomes
<1>6. CASE HandleInSwap
  BY <1>1, <1>2, <1>6, IdleType DEF HandleInSwap, Dispatch, TypeOK, Outcomes
<1>7. CASE HandleInAdd
  BY <1>1, <1>2, <1>7, IdleType DEF HandleInAdd, Dispatch, TypeOK, Outcomes
<1>8. CASE RunSwapQueue
  BY <1>1, <1>8 DEF RunSwapQueue, TypeOK, Outcomes
<1>9. QED
  BY <1>3, <1>4, <1>5, <1>6, <1>7, <1>8 DEF HandleIn

\* The gas correction that ends an outbound attestation.
LEMMA CorrectGasType ==
  ASSUME TypeOK, NEW v \in Voters, CorrectGas(v)
  PROVE  /\ outVoter' \in Voters
         /\ funds' \in [Vaults -> Nat]
         /\ gasMgr' \in Nat
<1>1. /\ v.tx \in ObservedTxs /\ v.tx.gas \in Nat /\ msg.obs.gas \in Nat
      /\ funds \in [Vaults -> Nat] /\ gasMgr \in Nat
  BY DEF TypeOK, Voters, ObservedTxs, Msgs, Observation
<1>2. [v.tx EXCEPT !.gas = msg.obs.gas] \in ObservedTxs
  BY <1>1 DEF ObservedTxs
<1>3. [v EXCEPT !.tx.gas = msg.obs.gas] \in Voters
  BY <1>2 DEF Voters
<1>4. /\ msg.obs.gas > v.tx.gas => msg.obs.gas - v.tx.gas \in Nat
      /\ ~(msg.obs.gas > v.tx.gas) => v.tx.gas - msg.obs.gas \in Nat
  BY <1>1
<1>5. funds' \in [Vaults -> Nat]
  BY <1>1, <1>4, FundsType, VaultNames DEF CorrectGas
<1>6. outVoter' \in Voters
  BY <1>3 DEF CorrectGas
<1>7. gasMgr' \in Nat
  BY <1>1, <1>4 DEF CorrectGas
<1>8. QED
  BY <1>5, <1>6, <1>7

LEMMA AttestOutType ==
  ASSUME TypeOK, AttestOut
  PROVE  TypeOK'
<1>1. PICK n \in msg.todo :
        /\ msg.kind = "out"
        /\ \/ OutDuplicate(n) \/ OutFinal(n) \/ OutUnfinal(n)
           \/ OutLate(n) \/ OutRecorded(n)
        /\ UNCHANGED <<memo, height, active, inVoter, errataVoter, status,
                       bondSlash, pool, outcome, dispatches>>
  BY DEF AttestOut
<1>2. n \in Nodes /\ msg.obs \in Observation /\ outVoter \in Voters
  BY DEF TypeOK, Msgs
<1> DEFINE v == Add(outVoter, msg.obs, n)
<1>3. v \in Voters
  BY <1>2, AddType
<1> HIDE DEF v
<1>4. /\ outVoter' \in Voters /\ slash' \in [Nodes -> Nat]
      /\ funds' \in [Vaults -> Nat] /\ gasMgr' \in Nat
  <2>1. CASE OutDuplicate(n)
    BY <1>2, <2>1, AttestSlashType DEF OutDuplicate, DuplicateSlash, TypeOK
  <2>2. CASE OutFinal(n)
    BY <1>2, <1>3, <2>2, AttestSlashType, VoterStepType, CorrectGasType
       DEF OutFinal, v
  <2>3. CASE OutUnfinal(n)
    BY <1>2, <1>3, <2>3, AttestSlashType, VoterStepType, CorrectGasType
       DEF OutUnfinal, v
  <2>4. CASE OutLate(n)
    BY <1>2, <1>3, <2>4, AttestSlashType, VoterStepType, CorrectGasType
       DEF OutLate, v
  <2>5. CASE OutRecorded(n)
    BY <1>2, <1>3, <2>5, AttestSlashType, CorrectGasType DEF OutRecorded, v
  <2>6. QED
    BY <1>1, <2>1, <2>2, <2>3, <2>4, <2>5
<1>5. msg' \in Msgs
  <2>1. (outVoter.height = 0) \in BOOLEAN
    OBVIOUS
  <2>2. QED
    BY <1>1, <2>1, AttestedType
       DEF OutDuplicate, OutFinal, OutUnfinal, OutLate, OutRecorded
<1>6. QED
  BY <1>1, <1>4, <1>5 DEF TypeOK

LEMMA HandleOutType ==
  ASSUME TypeOK, HandleOut
  PROVE  TypeOK'
<1>1. /\ msg.obs.gas \in Nat /\ msg.obs.coins \in Nat
      /\ funds \in [Vaults -> Nat] /\ gasMgr \in Nat /\ bondSlash \in Nat
      /\ msg.obs.coins + msg.obs.gas \in Nat
  BY DEF TypeOK, Msgs, Observation
<1>2. GasReimbursed \in Nat /\ CoinsOut \in Nat
  BY <1>1 DEF GasReimbursed, CoinsOut
<1>3. /\ SubFunds(funds, OutVault, msg.obs.gas) \in [Vaults -> Nat]
      /\ SubFunds(funds, OutVault, msg.obs.coins + msg.obs.gas) \in [Vaults -> Nat]
      /\ FundsAfterOut \in [Vaults -> Nat]
  BY <1>1, <1>2, FundsType, VaultNames DEF FundsAfterOut
<1>4. CASE HandleOutIgnored
  BY <1>4, IdleType DEF HandleOutIgnored, TypeOK, ledger
<1>5. CASE HandleOutCancel
  BY <1>2, <1>3, <1>5, IdleType DEF HandleOutCancel, TypeOK
<1>6. CASE HandleOutUnexpected
  BY <1>1, <1>3, <1>6, IdleType DEF HandleOutUnexpected, TypeOK
<1>7. CASE HandleOutDone
  <2>1. status' \in [Vaults -> VaultStatus]
    BY <1>7 DEF HandleOutDone, TypeOK, VaultStatus
  <2>2. gasMgr' \in Nat /\ bondSlash' \in Nat
    BY <1>1, <1>2, <1>7 DEF HandleOutDone
  <2>3. QED
    BY <1>3, <1>7, <2>1, <2>2, IdleType DEF HandleOutDone, TypeOK
<1>8. QED
  BY <1>4, <1>5, <1>6, <1>7 DEF HandleOut

LEMMA ErrataVoterType ==
  ASSUME TypeOK, NEW n \in Nodes
  PROVE  /\ ErrataSigned(n) \in ErrataVoters
         /\ [ErrataSigned(n) EXCEPT !.blockHeight = height] \in ErrataVoters
         /\ [ErrataSigned(n) EXCEPT !.blockHeight = height].blockHeight = height
         /\ ErrataSigned(n).blockHeight = errataVoter.blockHeight
<1>1. errataVoter.signers \cup {n} \in SUBSET Nodes /\ height \in Nat
  BY DEF TypeOK, ErrataVoters
<1>2. QED
  BY <1>1 DEF ErrataSigned, TypeOK, ErrataVoters

LEMMA AttestErrataType ==
  ASSUME TypeOK, AttestErrata
  PROVE  TypeOK'
<1>1. PICK n \in msg.todo :
        /\ msg.kind = "errata"
        /\ \/ ErrataDuplicate(n) \/ ErrataPending(n) \/ ErrataLate(n)
           \/ ErrataFails(n) \/ ErrataOutboundOnly(n) \/ ErrataTooEarly(n)
           \/ ErrataUnfinal(n) \/ ErrataInternal(n) \/ ErrataFinal(n)
        /\ UNCHANGED <<memo, height, active>>
  BY DEF AttestErrata
<1>2. /\ n \in Nodes /\ inVoter \in Voters /\ outVoter \in Voters
      /\ inVoter.tx.coins \in Nat /\ outVoter.tx.coins \in Nat
      /\ funds \in [Vaults -> Nat] /\ slash \in [Nodes -> Nat]
      /\ msg.undo.errataVoter \in ErrataVoters
      /\ msg.undo.slash \in [Nodes -> Nat]
      /\ LackOfObservationPenalty \in Nat
  BY ConstantsAssumption DEF TypeOK, Voters, ObservedTxs, Msgs, Undos
<1>3. FundsTakenBack \in [Vaults -> Nat]
  BY <1>2, FundsType, VaultNames DEF FundsTakenBack
<1>4. /\ [inVoter EXCEPT !.reverted = TRUE] \in Voters
      /\ [outVoter EXCEPT !.reverted = TRUE] \in Voters
  BY <1>2 DEF Voters
<1>5. /\ AddFunds(funds, OutVault, outVoter.tx.coins) \in [Vaults -> Nat]
      /\ AddFunds(FundsTakenBack, OutVault, outVoter.tx.coins) \in [Vaults -> Nat]
  BY <1>2, <1>3, FundsType, VaultNames
<1>6. ASSUME ErrataAgreed(n)
      PROVE  /\ errataVoter' \in ErrataVoters
             /\ slash' \in [Nodes -> Nat]
             /\ msg' \in Msgs
  BY <1>2, <1>6, ErrataVoterType, AttestSlashType, AttestedType DEF ErrataAgreed
<1>7. CASE ErrataDuplicate(n)
  BY <1>1, <1>2, <1>7, AttestSlashType, AttestedType
     DEF ErrataDuplicate, TypeOK, ledger
<1>8. CASE ErrataPending(n)
  BY <1>1, <1>2, <1>8, ErrataVoterType, AttestSlashType, AttestedType
     DEF ErrataPending, TypeOK, ledger
<1>9. CASE ErrataLate(n)
  BY <1>1, <1>2, <1>9, ErrataVoterType, SlashType, AttestedType
     DEF ErrataLate, TypeOK, ledger
<1>10. CASE ErrataFails(n)
  BY <1>1, <1>2, <1>10, IdleType DEF ErrataFails, TypeOK, ledger
<1>11. CASE ErrataOutboundOnly(n)
  BY <1>1, <1>4, <1>5, <1>6, <1>11 DEF ErrataOutboundOnly, OutboundErrata, TypeOK
<1>12. CASE ErrataTooEarly(n)
  BY <1>1, <1>6, <1>12 DEF ErrataTooEarly, TypeOK, ledger
<1>13. CASE ErrataUnfinal(n)
  BY <1>1, <1>3, <1>4, <1>6, <1>13 DEF ErrataUnfinal, InReverted, TypeOK
<1>14. CASE ErrataInternal(n)
  BY <1>1, <1>4, <1>5, <1>6, <1>14
     DEF ErrataInternal, InReverted, OutboundErrata, TypeOK
<1>15. CASE ErrataFinal(n)
  <2>1. pool' \in Nat
    BY <1>2, <1>15 DEF ErrataFinal, SafeSub, TypeOK
  <2>2. QED
    BY <1>1, <1>3, <1>4, <1>6, <1>15, <2>1 DEF ErrataFinal, InReverted, TypeOK
<1>16. QED
  BY <1>1, <1>7, <1>8, <1>9, <1>10, <1>11, <1>12, <1>13, <1>14, <1>15

LEMMA OtherType ==
  ASSUME TypeOK, ErrataDone \/ NextBlock \/ Churn
  PROVE  TypeOK'
<1>1. CASE ErrataDone
  BY <1>1, IdleType DEF ErrataDone, TypeOK, ledger
<1>2. CASE NextBlock
  BY <1>2 DEF NextBlock, TypeOK, ledger
<1>3. CASE Churn
  BY <1>3 DEF Churn, TypeOK, ledger
<1>4. QED
  BY <1>1, <1>2, <1>3

LEMMA InitType ==
  ASSUME Init
  PROVE  TypeOK
<1>1. NoTx \in ObservedTxs
  BY DEF NoTx, ObservedTxs
<1>2. NewVoter \in Voters
  BY <1>1 DEF NewVoter, Voters
<1>3. QED
  BY <1>2, IdleType, ConstantsAssumption
     DEF Init, TypeOK, NewErrataVoter, ErrataVoters, Outcomes

LEMMA NextType ==
  ASSUME TypeOK, [Next]_vars
  PROVE  TypeOK'
<1>1. CASE Next
  BY <1>1, DeliverType, AttestInType, HandleInType, AttestOutType, HandleOutType,
     AttestErrataType, OtherType DEF Next
<1>2. CASE UNCHANGED vars
  BY <1>2 DEF vars, ledger, TypeOK
<1>3. QED
  BY <1>1, <1>2

\* The type invariant holds for every number of nodes, every set of
\* observations, every sequence of validator sets and every bound.
THEOREM TypeCorrect == Spec => []TypeOK
<1>1. Init => TypeOK
  BY InitType
<1>2. TypeOK /\ [Next]_vars => TypeOK'
  BY NextType
<1>3. QED
  BY <1>1, <1>2, PTL DEF Spec

-----------------------------------------------------------------------------
(***************************************************************************)
(* The inductive invariant of the inbound side                             *)
(***************************************************************************)

\* t is what some node may have observed.
Seen(t) == \E o \in InObs[memo] : Equals(t, o)

\* The message being executed has brought the inbound to consensus.
CrossedIn == msg.kind = "in" /\ msg.crossed

\* Nothing is agreed on that was not observed.
SeenInv ==
  /\ \A i \in DOMAIN inVoter.txs : Seen(inVoter.txs[i])
  /\ ~IsEmpty(inVoter.tx) => Seen(inVoter.tx)
  /\ msg.kind = "in" => msg.obs \in InObs[memo]

\* How the voter's fields depend on each other: a credit or a final height
\* needs a consensus tx, a final tx needs a final height.
VoterInv ==
  /\ inVoter.updatedVault => ~IsEmpty(inVoter.tx)
  /\ inVoter.updatedVault /\ memo # "migrate" => inVoter.finalisedHeight # 0
  /\ (inVoter.finalisedHeight # 0) <=> (~IsEmpty(inVoter.tx) /\ IsFinal(inVoter.tx))
  /\ inVoter.reverted => errataVoter.blockHeight # 0

\* A message that crosses finds the inbound agreed on, not dispatched and (but
\* for a migration) not credited, and what it then sees as final is recorded
\* as final.
CrossInv ==
  CrossedIn => /\ ~IsEmpty(inVoter.tx)
               /\ dispatches = 0
               /\ memo # "migrate" => ~inVoter.updatedVault
               /\ HasFinalised(inVoter, active) => inVoter.finalisedHeight # 0

\* Without churn no super majority on a final entry goes unnoticed, and the
\* message that crosses carries what is agreed on.
StableInv ==
  Stable => /\ inVoter.finalisedHeight = 0 => Winners(inVoter, TRUE, active) = {}
            /\ CrossedIn /\ inVoter.finalisedHeight # 0 => EqualsEx(inVoter.tx, msg.obs)

InboundInv == SeenInv /\ VoterInv /\ CrossInv /\ StableInv
              /\ DispatchedOnce /\ InboundBooked

\* Add signs or appends an entry that equals o and leaves the others alone.
LEMMA AddEntries ==
  ASSUME NEW v \in Voters, NEW o \in Observation, NEW n \in Nodes,
         NEW w, w = Add(v, o, n)
  PROVE  /\ DOMAIN v.txs \subseteq DOMAIN w.txs
         /\ \A i \in DOMAIN w.txs :
              Equals(w.txs[i], o) \/ (i \in DOMAIN v.txs /\ w.txs[i] = v.txs[i])
         /\ \A i \in DOMAIN v.txs : ~Equals(v.txs[i], o) => w.txs[i] = v.txs[i]
<1>1. CASE EntryOf(v, o) # {}
  <2> DEFINE txs == [i \in DOMAIN v.txs |->
                       IF i \in EntryOf(v, o)
                       THEN [v.txs[i] EXCEPT !.signers = @ \cup {n}]
                       ELSE v.txs[i]]
  <2>1. w = [v EXCEPT !.txs = txs]
    BY <1>1 DEF Add
  <2>2. w.txs = txs
    BY <2>1 DEF Voters
  <2>3. ASSUME NEW i \in EntryOf(v, o) PROVE Equals(txs[i], o)
    <3>1. i \in DOMAIN v.txs /\ Equals(v.txs[i], o) /\ v.txs[i] \in ObservedTxs
      BY <2>3, EntryType DEF EntryOf
    <3>2. txs[i] = [v.txs[i] EXCEPT !.signers = @ \cup {n}]
      BY <3>1, <2>3
    <3>3. QED
      BY <3>1, <3>2 DEF Equals, EqualsEx, EqualsExIgnoreGas, ObservedTxs
  <2>4. ASSUME NEW i \in DOMAIN v.txs, i \notin EntryOf(v, o)
        PROVE  txs[i] = v.txs[i]
    BY <2>4
  <2>5. ASSUME NEW i \in DOMAIN v.txs PROVE i \in EntryOf(v, o) <=> Equals(v.txs[i], o)
    BY DEF EntryOf
  <2>6. DOMAIN txs = DOMAIN v.txs
    OBVIOUS
  <2> HIDE DEF txs
  <2>7. QED
    BY <2>2, <2>3, <2>4, <2>5, <2>6
<1>2. CASE EntryOf(v, o) = {}
  <2> DEFINE e == [coins |-> o.coins, gas |-> o.gas,
                   blockHeight |-> o.blockHeight,
                   finaliseHeight |-> o.finaliseHeight, signers |-> {n}]
  <2>1. e \in ObservedTxs
    BY DEF ObservedTxs, Observation
  <2>2. w = [v EXCEPT !.txs = Append(v.txs, e)]
    BY <1>2 DEF Add
  <2>3. Equals(e, o)
    BY DEF Equals, EqualsEx, EqualsExIgnoreGas
  <2> HIDE DEF e
  <2>4. w.txs = Append(v.txs, e) /\ v.txs \in Seq(ObservedTxs)
    BY <2>2 DEF Voters
  <2>5. QED
    BY <2>1, <2>3, <2>4
<1>3. QED
  BY <1>1, <1>2

\* An attestation of o adds no signer to contents other than those of o.
LEMMA AddMatching ==
  ASSUME NEW v \in Voters, NEW o \in Observation, NEW n \in Nodes,
         NEW w, w = Add(v, o, n), NEW t, NEW f, ~EqualsEx(t, o)
  PROVE  MatchingSigners(w, t, f) = MatchingSigners(v, t, f)
<1> DEFINE M(x) == {j \in DOMAIN x.txs : IsFinal(x.txs[j]) = f /\ EqualsEx(x.txs[j], t)}
<1>1. ASSUME NEW u, Equals(u, o), EqualsEx(u, t) PROVE FALSE
  BY <1>1 DEF Equals, EqualsEx, EqualsExIgnoreGas
<1>2. ASSUME NEW j \in M(w) PROVE j \in M(v) /\ w.txs[j] = v.txs[j]
  BY <1>1, AddEntries
<1>3. ASSUME NEW j \in M(v) PROVE j \in M(w) /\ w.txs[j] = v.txs[j]
  BY <1>1, AddEntries
<1>4. M(w) = M(v) /\ \A j \in M(w) : w.txs[j] = v.txs[j]
  BY <1>2, <1>3
<1>5. /\ MatchingSigners(w, t, f) = UNION {w.txs[j].signers : j \in M(w)}
      /\ MatchingSigners(v, t, f) = UNION {v.txs[j].signers : j \in M(v)}
  BY DEF MatchingSigners
<1> HIDE DEF M
<1>6. QED
  BY <1>4, <1>5

LEMMA WinnersOfTxs ==
  ASSUME NEW v, NEW w, w.txs = v.txs, NEW f, NEW A
  PROVE  Winners(w, f, A) = Winners(v, f, A)
BY DEF Winners, Agreed, MatchingSigners

\* Recording what GetTx returned does not change what it returns.
LEMMA GetTxIdempotent ==
  ASSUME NEW v \in Voters, NEW w \in Voters, NEW A,
         w.txs = v.txs, w.tx = GetTx(v, A)
  PROVE  GetTx(w, A) = GetTx(v, A)
<1>1. \A f \in BOOLEAN : Winners(w, f, A) = Winners(v, f, A)
  BY WinnersOfTxs
<1>2. QED
  BY <1>1 DEF GetTx

\* A late signer does not change whether the voter is final.
LEMMA LateSameFinality ==
  ASSUME NEW v \in Voters, NEW w \in Voters, NEW A, w.txs = v.txs,
         w.tx.blockHeight = v.tx.blockHeight,
         w.tx.finaliseHeight = v.tx.finaliseHeight
  PROVE  HasFinalised(w, A) <=> HasFinalised(v, A)
<1>1. \A f \in BOOLEAN : Winners(w, f, A) = Winners(v, f, A)
  BY WinnersOfTxs
<1>2. QED
  BY <1>1 DEF GetTx, HasFinalised, IsEmpty, IsFinal

\* A super majority on a final entry makes the voter final, and unless a final
\* tx is already recorded only that does.
LEMMA FinalWinner ==
  ASSUME NEW v \in Voters, NEW A, \A i \in DOMAIN v.txs : ~IsEmpty(v.txs[i])
  PROVE  /\ Winners(v, TRUE, A) # {} => HasFinalised(v, A)
         /\ HasFinalised(v, A) /\ ~(~IsEmpty(v.tx) /\ IsFinal(v.tx)) =>
              \E i \in Winners(v, TRUE, A) : GetTx(v, A) = v.txs[i]
<1>1. \A f \in BOOLEAN : Winners(v, f, A) \in SUBSET Nat
  BY DEF Winners, Voters
<1>2. \A f \in BOOLEAN : Winners(v, f, A) # {} =>
        First(Winners(v, f, A)) \in Winners(v, f, A)
  BY <1>1, FirstIsMember
<1>3. \A f \in BOOLEAN : \A i \in Winners(v, f, A) :
        i \in DOMAIN v.txs /\ IsFinal(v.txs[i]) = f
  BY DEF Winners
<1>4. Winners(v, TRUE, A) # {} => HasFinalised(v, A)
  <2>1. ASSUME NEW i \in Winners(v, TRUE, A)
        PROVE  ~IsEmpty(v.txs[i]) /\ IsFinal(v.txs[i])
    BY <1>3
  <2>2. QED
    BY <1>2, <2>1 DEF HasFinalised, GetTx
<1>5. ASSUME HasFinalised(v, A), ~(~IsEmpty(v.tx) /\ IsFinal(v.tx))
      PROVE  \E i \in Winners(v, TRUE, A) : GetTx(v, A) = v.txs[i]
  <2>1. CASE Winners(v, TRUE, A) # {}
    BY <1>2, <1>5, <2>1 DEF GetTx
  <2>2. CASE Winners(v, TRUE, A) = {}
    <3>1. ASSUME NEW i \in Winners(v, FALSE, A) PROVE ~IsFinal(v.txs[i])
      BY <1>3
    <3>2. QED
      BY <1>2, <1>5, <2>2, <3>1 DEF GetTx, HasFinalised
  <2>3. QED
    BY <2>1, <2>2
<1>6. QED
  BY <1>4, <1>5

\* What the voter looks like while an attestation is being processed.
LEMMA AddSeen ==
  ASSUME TypeOK, SeenInv, msg.kind = "in", NEW n \in Nodes,
         NEW v, v = Add(inVoter, msg.obs, n)
  PROVE  /\ v \in Voters
         /\ \A i \in DOMAIN v.txs : Seen(v.txs[i]) /\ ~IsEmpty(v.txs[i])
         /\ ~IsEmpty(GetTx(v, active)) => Seen(GetTx(v, active))
<1>1. inVoter \in Voters /\ msg.obs \in Observation
  BY DEF TypeOK, Msgs
<1>2. v \in Voters /\ v.tx = inVoter.tx
  BY <1>1, AddType
<1>3. msg.obs \in InObs[memo]
  BY DEF SeenInv
<1>4. ASSUME NEW i \in DOMAIN v.txs PROVE Seen(v.txs[i])
  BY <1>1, <1>3, AddEntries DEF SeenInv, Seen
<1>5. ASSUME NEW t, Seen(t) PROVE ~IsEmpty(t)
  <2>1. PICK o \in InObs[memo] : Equals(t, o)
    BY <1>5 DEF Seen
  <2>2. o \in Observation /\ o.blockHeight > 0
    BY ConstantsAssumption DEF TypeOK
  <2>3. QED
    BY <2>1, <2>2 DEF Equals, IsEmpty, Observation
<1>6. QED
  BY <1>2, <1>4, <1>5, GetTxMember DEF SeenInv

\* The message that brings the final consensus carries what is agreed on.
LEMMA CrossingAgrees ==
  ASSUME TypeOK, SeenInv, VoterInv, StableInv, Stable, msg.kind = "in",
         NEW n \in Nodes, NEW v, v = Add(inVoter, msg.obs, n), ReachesFinal(v)
  PROVE  EqualsEx(GetTx(v, active), msg.obs)
<1>1. inVoter \in Voters /\ msg.obs \in Observation
  BY DEF TypeOK, Msgs
<1>2. v.tx = inVoter.tx /\ v.finalisedHeight = inVoter.finalisedHeight
  BY <1>1, AddType
<1>3. inVoter.finalisedHeight = 0 /\ ~(~IsEmpty(v.tx) /\ IsFinal(v.tx))
  BY <1>2 DEF ReachesFinal, VoterInv
<1>4. PICK i \in Winners(v, TRUE, active) : GetTx(v, active) = v.txs[i]
  BY <1>3, AddSeen, FinalWinner DEF ReachesFinal
<1>5. Winners(inVoter, TRUE, active) = {}
  BY <1>3 DEF StableInv
<1>6. ASSUME ~EqualsEx(v.txs[i], msg.obs) PROVE FALSE
  <2>1. /\ i \in DOMAIN v.txs /\ IsFinal(v.txs[i]) = TRUE
        /\ Agreed(v, v.txs[i], TRUE, active)
    BY <1>4 DEF Winners
  <2>2. i \in DOMAIN inVoter.txs /\ v.txs[i] = inVoter.txs[i]
    BY <1>1, <1>6, <2>1, AddEntries DEF Equals
  <2>3. MatchingSigners(v, v.txs[i], TRUE) = MatchingSigners(inVoter, v.txs[i], TRUE)
    <3>1. \A f \in BOOLEAN :
            MatchingSigners(v, v.txs[i], f) = MatchingSigners(inVoter, v.txs[i], f)
      BY <1>1, <1>6, AddMatching
    <3>2. QED
      BY <3>1, Zenon
  <2>4. i \in Winners(inVoter, TRUE, active)
    BY <2>1, <2>2, <2>3 DEF Winners, Agreed
  <2>5. QED
    BY <1>5, <2>4
<1>7. QED
  BY <1>4, <1>6

\* An attestation that does not bring the final consensus leaves none behind.
LEMMA NotCrossing ==
  ASSUME TypeOK, SeenInv, msg.kind = "in", NEW n \in Nodes,
         NEW v, v = Add(inVoter, msg.obs, n), ~ReachesFinal(v)
  PROVE  /\ HasFinalised(v, active) => v.finalisedHeight # 0
         /\ v.finalisedHeight = 0 => Winners(v, TRUE, active) = {}
BY AddSeen, FinalWinner DEF ReachesFinal

LEMMA AttestInInv ==
  ASSUME TypeOK, InboundInv, AttestIn
  PROVE  InboundInv'
<1>1. PICK n \in msg.todo :
        /\ msg.kind = "in"
        /\ \/ InDuplicate(n) \/ InFinal(n) \/ InUnfinal(n)
           \/ InLate(n) \/ InRecorded(n)
        /\ UNCHANGED <<memo, height, active, outVoter, errataVoter, ledger>>
  BY DEF AttestIn
<1>2. n \in Nodes /\ msg.obs \in Observation /\ inVoter \in Voters
  BY DEF TypeOK, Msgs
<1>3. TypeOK'
  BY AttestInType
<1>4. msg'.kind = msg.kind /\ msg'.obs = msg.obs /\ msg.crossed \in BOOLEAN
  BY <1>1, AttestedType
     DEF InDuplicate, InFinal, InUnfinal, InLate, InRecorded, TypeOK, Msgs
<1>5. /\ memo' = memo /\ active' = active /\ errataVoter' = errataVoter
      /\ funds' = funds /\ outcome' = outcome /\ dispatches' = dispatches
      /\ height \in Nat /\ height # 0
  BY <1>1 DEF ledger, TypeOK
<1>6. /\ Stable' <=> Stable
      /\ SameCoins' <=> SameCoins
      /\ SelfTransfer' <=> SelfTransfer
      /\ InVault' = InVault
      /\ \A t : Seen(t)' <=> Seen(t)
  BY <1>5 DEF Stable, SameCoins, SelfTransfer, InVault, Seen
<1> DEFINE v == Add(inVoter, msg.obs, n)
<1>7. /\ v \in Voters /\ v.tx = inVoter.tx /\ v.reverted = inVoter.reverted
      /\ v.finalisedHeight = inVoter.finalisedHeight
      /\ v.updatedVault = inVoter.updatedVault
  BY <1>2, AddType
<1>8. /\ \A i \in DOMAIN v.txs : Seen(v.txs[i])
      /\ ~IsEmpty(GetTx(v, active)) => Seen(GetTx(v, active))
  BY <1>1, <1>2, AddSeen DEF InboundInv
<1> HIDE DEF v
<1>9. CASE InDuplicate(n)
  <2>1. inVoter' = inVoter /\ msg'.crossed = msg.crossed
    BY <1>9, <1>4, AttestedType DEF InDuplicate
  <2>2. QED
    BY <1>4, <1>5, <1>6, <2>1
       DEF InboundInv, SeenInv, VoterInv, CrossInv, StableInv, CrossedIn,
           DispatchedOnce, InboundBooked
<1>10. CASE InFinal(n)
  <2>1. ReachesFinal(v) /\ inVoter' = Finalised(v) /\ msg'.crossed = TRUE
    BY <1>10, AttestedType DEF InFinal, v
  <2>2. /\ inVoter'.txs = v.txs
        /\ inVoter'.tx = GetTx(v, active)
        /\ inVoter'.finalisedHeight = height
        /\ inVoter'.updatedVault = inVoter.updatedVault
        /\ inVoter'.reverted = inVoter.reverted
    BY <1>2, <1>7, <2>1, VoterStepType
  <2>3. ~IsEmpty(inVoter'.tx) /\ IsFinal(inVoter'.tx)
    BY <2>1, <2>2 DEF ReachesFinal, HasFinalised
  <2>4. inVoter.finalisedHeight = 0 /\ dispatches = 0
    BY <1>7, <2>1 DEF ReachesFinal, InboundInv, DispatchedOnce, TypeOK
  <2>5. SeenInv'
    BY <1>4, <1>5, <1>8, <2>2, <2>3 DEF InboundInv, SeenInv, Seen
  <2>6. VoterInv'
    BY <1>5, <2>2, <2>3 DEF InboundInv, VoterInv
  <2>7. CrossInv'
    BY <1>5, <2>2, <2>3, <2>4 DEF InboundInv, VoterInv, CrossInv
  <2>8. StableInv'
    <3>1. Stable => EqualsEx(GetTx(v, active), msg.obs)
      BY <1>1, <1>2, <2>1, CrossingAgrees DEF InboundInv, v
    <3>2. QED
      BY <1>4, <1>5, <1>6, <2>2, <3>1 DEF StableInv
  <2>9. DispatchedOnce'
    BY <1>5, <2>2, <2>4 DEF InboundInv, DispatchedOnce
  <2>10. InboundBooked'
    <3>1. CASE inVoter.updatedVault
      <4>1. memo = "migrate" /\ ~IsEmpty(inVoter.tx)
        BY <2>4, <3>1 DEF InboundInv, VoterInv
      <4>2. Seen(inVoter.tx) /\ Seen(inVoter'.tx)
        BY <1>8, <2>2, <2>3, <4>1 DEF InboundInv, SeenInv
      <4>3. SameCoins => inVoter'.tx.coins = inVoter.tx.coins
        BY <4>2 DEF SameCoins, Seen, Equals, EqualsEx, EqualsExIgnoreGas
      <4>4. QED
        BY <1>5, <1>6, <2>2, <4>1, <4>3 DEF InboundInv, InboundBooked
    <3>2. CASE ~inVoter.updatedVault
      BY <1>5, <1>6, <2>2, <3>2 DEF InboundInv, InboundBooked
    <3>3. QED
      BY <3>1, <3>2
  <2>11. QED
    BY <2>5, <2>6, <2>7, <2>8, <2>9, <2>10 DEF InboundInv
<1>11. CASE InUnfinal(n)
  <2>1. /\ ReachesUnfinal(v) /\ ~ReachesFinal(v)
        /\ inVoter' = Unfinalised(v) /\ msg'.crossed = TRUE
    BY <1>11, AttestedType DEF InUnfinal, ReachesUnfinal, ReachesFinal, v
  <2>2. /\ inVoter' \in Voters
        /\ inVoter'.txs = v.txs
        /\ inVoter'.tx = GetTx(v, active)
        /\ inVoter'.finalisedHeight = inVoter.finalisedHeight
        /\ inVoter'.updatedVault = inVoter.updatedVault
        /\ inVoter'.reverted = inVoter.reverted
    BY <1>2, <1>7, <2>1, VoterStepType
  <2>3. /\ ~IsEmpty(inVoter'.tx) /\ ~IsFinal(inVoter'.tx)
        /\ inVoter.finalisedHeight = 0
    BY <1>7, <2>1, <2>2 DEF ReachesUnfinal, HasFinalised, HasConsensus
  <2>4. dispatches = 0
    BY <2>3 DEF InboundInv, DispatchedOnce, TypeOK
  <2>5. SeenInv'
    BY <1>4, <1>5, <1>8, <2>2, <2>3 DEF InboundInv, SeenInv, Seen
  <2>6. VoterInv'
    BY <1>5, <2>2, <2>3 DEF InboundInv, VoterInv
  <2>7. CrossInv'
    <3>1. GetTx(inVoter', active) = GetTx(v, active)
      BY <1>7, <2>2, GetTxIdempotent
    <3>2. ~HasFinalised(inVoter', active)
      BY <2>1, <3>1 DEF ReachesUnfinal, HasFinalised
    <3>3. QED
      BY <1>5, <2>2, <2>3, <2>4, <3>2 DEF InboundInv, VoterInv, CrossInv
  <2>8. StableInv'
    <3>1. Winners(inVoter', TRUE, active) = Winners(v, TRUE, active)
      <4>1. \A f \in BOOLEAN : Winners(inVoter', f, active) = Winners(v, f, active)
        BY <2>2, WinnersOfTxs
      <4>2. QED
        BY <4>1, Zenon
    <3>2. Winners(v, TRUE, active) = {}
      BY <1>1, <1>2, <1>7, <2>1, <2>3, NotCrossing DEF InboundInv, v
    <3>3. QED
      BY <1>5, <2>2, <2>3, <3>1, <3>2 DEF StableInv
  <2>9. DispatchedOnce'
    BY <1>5, <2>2, <2>4 DEF InboundInv, DispatchedOnce
  <2>10. InboundBooked'
    <3>1. CASE inVoter.updatedVault
      <4>1. memo = "migrate" /\ ~IsEmpty(inVoter.tx)
        BY <2>3, <3>1 DEF InboundInv, VoterInv
      <4>2. Seen(inVoter.tx) /\ Seen(inVoter'.tx)
        BY <1>8, <2>2, <2>3, <4>1 DEF InboundInv, SeenInv
      <4>3. SameCoins => inVoter'.tx.coins = inVoter.tx.coins
        BY <4>2 DEF SameCoins, Seen, Equals, EqualsEx, EqualsExIgnoreGas
      <4>4. QED
        BY <1>5, <1>6, <2>2, <4>1, <4>3 DEF InboundInv, InboundBooked
    <3>2. CASE ~inVoter.updatedVault
      BY <1>5, <1>6, <2>2, <3>2 DEF InboundInv, InboundBooked
    <3>3. QED
      BY <3>1, <3>2
  <2>11. QED
    BY <2>5, <2>6, <2>7, <2>8, <2>9, <2>10 DEF InboundInv
<1>12. CASE InLate(n) \/ InRecorded(n)
  <2>1. ~ReachesFinal(v) /\ msg'.crossed = msg.crossed
    BY <1>4, <1>12, AttestedType
       DEF InLate, InRecorded, IsLate, InTime, ReachesFinal, v
  <2>2. /\ inVoter' \in Voters
        /\ inVoter'.txs = v.txs
        /\ inVoter'.tx.coins = inVoter.tx.coins
        /\ inVoter'.tx.gas = inVoter.tx.gas
        /\ inVoter'.tx.blockHeight = inVoter.tx.blockHeight
        /\ inVoter'.tx.finaliseHeight = inVoter.tx.finaliseHeight
        /\ inVoter'.finalisedHeight = inVoter.finalisedHeight
        /\ inVoter'.updatedVault = inVoter.updatedVault
        /\ inVoter'.reverted = inVoter.reverted
    <3>1. CASE InRecorded(n)
      BY <1>7, <3>1 DEF InRecorded, v
    <3>2. CASE InLate(n)
      <4>1. inVoter' = LateSigned(v, n) /\ v.tx \in ObservedTxs
        BY <1>7, <3>2 DEF InLate, Voters, v
      <4>2. /\ inVoter' \in Voters
            /\ inVoter'.txs = v.txs
            /\ inVoter'.tx = [v.tx EXCEPT !.signers = @ \cup {n}]
            /\ inVoter'.finalisedHeight = inVoter.finalisedHeight
            /\ inVoter'.updatedVault = inVoter.updatedVault
            /\ inVoter'.reverted = inVoter.reverted
        BY <1>2, <1>7, <4>1, VoterStepType
      <4>3. QED
        BY <1>7, <4>1, <4>2 DEF ObservedTxs
    <3>3. QED
      BY <1>12, <3>1, <3>2
  <2>3. SeenInv'
    BY <1>4, <1>5, <1>8, <2>2
       DEF InboundInv, SeenInv, IsEmpty, Seen, Equals, EqualsEx, EqualsExIgnoreGas
  <2>4. VoterInv'
    BY <1>5, <2>2 DEF InboundInv, VoterInv, IsEmpty, IsFinal
  <2>5. CrossInv'
    <3>1. HasFinalised(inVoter', active) <=> HasFinalised(v, active)
      BY <1>7, <2>2, LateSameFinality
    <3>2. HasFinalised(v, active) => v.finalisedHeight # 0
      BY <1>1, <1>2, <2>1, NotCrossing DEF InboundInv, v
    <3>3. QED
      BY <1>4, <1>5, <1>7, <2>1, <2>2, <3>1, <3>2
         DEF InboundInv, CrossInv, CrossedIn, IsEmpty
  <2>6. StableInv'
    <3>1. Winners(inVoter', TRUE, active) = Winners(v, TRUE, active)
      <4>1. \A f \in BOOLEAN : Winners(inVoter', f, active) = Winners(v, f, active)
        BY <2>2, WinnersOfTxs
      <4>2. QED
        BY <4>1, Zenon
    <3>2. v.finalisedHeight = 0 => Winners(v, TRUE, active) = {}
      BY <1>1, <1>2, <2>1, NotCrossing DEF InboundInv, v
    <3>3. QED
      BY <1>4, <1>5, <1>6, <1>7, <2>1, <2>2, <3>1, <3>2
         DEF InboundInv, StableInv, CrossedIn, EqualsEx, EqualsExIgnoreGas
  <2>7. DispatchedOnce' /\ InboundBooked'
    BY <1>5, <1>6, <2>2 DEF InboundInv, DispatchedOnce, InboundBooked
  <2>8. QED
    BY <2>3, <2>4, <2>5, <2>6, <2>7 DEF InboundInv
<1>13. QED
  BY <1>1, <1>9, <1>10, <1>11, <1>12

\* A step that leaves the inbound alone and does not execute a message that
\* crosses keeps the invariant.
LEMMA InboundUntouched ==
  ASSUME TypeOK, InboundInv, memo' = memo, inVoter' = inVoter,
         Stable => active' = active,
         errataVoter.blockHeight # 0 => errataVoter'.blockHeight # 0,
         dispatches' = dispatches, (outcome' = "none") <=> (outcome = "none"),
         ~SelfTransfer => funds'[InVault] = funds[InVault],
         ~CrossedIn', msg'.kind = "in" => msg'.obs \in InObs[memo]
  PROVE  InboundInv'
<1>1. /\ Stable' <=> Stable
      /\ SameCoins' <=> SameCoins
      /\ SelfTransfer' <=> SelfTransfer
      /\ InVault' = InVault
  BY DEF Stable, SameCoins, SelfTransfer, InVault
<1>2. SeenInv'
  BY DEF InboundInv, SeenInv, Seen
<1>3. VoterInv'
  BY DEF InboundInv, VoterInv
<1>4. CrossInv' /\ StableInv'
  BY <1>1 DEF InboundInv, CrossInv, StableInv
<1>5. DispatchedOnce' /\ InboundBooked'
  BY <1>1 DEF InboundInv, DispatchedOnce, InboundBooked
<1>6. QED
  BY <1>2, <1>3, <1>4, <1>5 DEF InboundInv

LEMMA IdleIsIdle == Idle.kind = "none"
BY DEF Idle

\* What the outbound side changes is not the receiving vault.
LEMMA OtherVault ==
  ASSUME ~SelfTransfer, NEW f \in [Vaults -> Nat], NEW k \in Nat
  PROVE  /\ AddFunds(f, OutVault, k)[InVault] = f[InVault]
         /\ SubFunds(f, OutVault, k)[InVault] = f[InVault]
<1>1. OutVault # InVault
  BY DEF OutVault, InVault
<1>2. QED
  BY <1>1, VaultNames DEF AddFunds, SubFunds

LEMMA DeliverInv ==
  ASSUME TypeOK, InboundInv, DeliverSingle \/ DeliverQuorum
  PROVE  InboundInv'
<1>1. PICK S, single : DeliverMsg(S, single)
  BY DEF DeliverSingle, DeliverQuorum
<1>2. PICK k, o, u : Deliver(k, o, S, single, u) /\ (k = "in" => o \in InObs[memo])
  BY <1>1 DEF DeliverMsg
<1>3. msg'.crossed = FALSE /\ msg'.kind = k /\ msg'.obs = o
  BY <1>2 DEF Deliver
<1>4. UNCHANGED <<memo, active, inVoter, errataVoter, funds, outcome, dispatches>>
  BY <1>2 DEF Deliver, ledger
<1>5. QED
  BY <1>2, <1>3, <1>4, InboundUntouched DEF CrossedIn

\* The credit of the vault by a message that has crossed.
LEMMA CreditInv ==
  ASSUME TypeOK, InboundInv, CrossedIn, ~inVoter.reverted, CreditVault, memo' = memo
  PROVE  /\ inVoter' = [inVoter EXCEPT !.updatedVault = @ \/ CreditDue]
         /\ VoterInv /\ errataVoter' = errataVoter => VoterInv'
         /\ InboundBooked'
         /\ InFinalised => inVoter'.updatedVault /\ inVoter'.finalisedHeight # 0
<1>1. /\ inVoter \in Voters /\ funds \in [Vaults -> Nat] /\ msg.obs \in Observation
      /\ InitFunds \in Nat
      /\ inVoter.tx.coins \in Nat /\ msg.obs.coins \in Nat
  BY ConstantsAssumption DEF TypeOK, Msgs, Voters, ObservedTxs, Observation
<1>2. /\ inVoter' = [inVoter EXCEPT !.updatedVault = @ \/ CreditDue]
      /\ inVoter'.tx = inVoter.tx
      /\ inVoter'.finalisedHeight = inVoter.finalisedHeight
      /\ inVoter'.reverted = inVoter.reverted
      /\ inVoter'.updatedVault <=> (inVoter.updatedVault \/ CreditDue)
  BY <1>1 DEF CreditVault, Voters
<1>3. ~IsEmpty(inVoter.tx) /\ (InFinalised => inVoter.finalisedHeight # 0)
  BY DEF InboundInv, CrossInv, InFinalised
<1>4. CreditDue /\ memo # "migrate" => inVoter.finalisedHeight # 0
  BY <1>3 DEF CreditDue
<1>5. VoterInv /\ errataVoter' = errataVoter => VoterInv'
  BY <1>2, <1>3, <1>4 DEF VoterInv
<1>6. /\ Stable' <=> Stable
      /\ SameCoins' <=> SameCoins
      /\ SelfTransfer' <=> SelfTransfer
      /\ InVault' = InVault
  BY DEF Stable, SameCoins, SelfTransfer, InVault
<1>7. InboundBooked'
  <2>1. CASE ~CreditDue
    BY <1>2, <1>6, <2>1 DEF InboundInv, InboundBooked, CreditVault
  <2>2. CASE CreditDue
    <3>1. SUFFICES ASSUME ~SelfTransfer, SameCoins \/ (Stable /\ memo # "migrate")
                   PROVE  funds'[InVault] = InitFunds + inVoter.tx.coins
      BY <1>2, <1>6, <2>2 DEF InboundBooked
    <3>2. funds[InVault] = InitFunds
      BY <1>1, <2>2, <3>1 DEF InboundInv, InboundBooked, CreditDue
    <3>3. funds'[InVault] = funds[InVault] + msg.obs.coins
      BY <1>1, <2>2, <3>1, VaultNames DEF CreditVault, AddFunds
    <3>4. msg.obs.coins = inVoter.tx.coins
      <4>1. CASE SameCoins
        BY <1>3, <4>1 DEF InboundInv, SeenInv, Seen, SameCoins, CrossedIn,
                          Equals, EqualsEx, EqualsExIgnoreGas
      <4>2. CASE Stable /\ memo # "migrate"
        BY <1>4, <2>2, <4>2 DEF InboundInv, StableInv, EqualsEx, EqualsExIgnoreGas
      <4>3. QED
        BY <3>1, <4>1, <4>2
    <3>5. QED
      BY <3>2, <3>3, <3>4
  <2>3. QED
    BY <2>1, <2>2
<1>8. InFinalised => inVoter'.updatedVault /\ inVoter'.finalisedHeight # 0
  BY <1>2, <1>3 DEF CreditDue
<1>9. QED
  BY <1>2, <1>5, <1>7, <1>8

\* The parts of the invariant a credit cannot disturb.
LEMMA CreditRest ==
  ASSUME TypeOK, InboundInv, memo' = memo, active' = active, msg' = Idle,
         inVoter' = [inVoter EXCEPT !.updatedVault = @ \/ CreditDue]
  PROVE  SeenInv' /\ CrossInv' /\ StableInv'
<1>1. inVoter \in Voters
  BY DEF TypeOK
<1>2. /\ inVoter'.txs = inVoter.txs
      /\ inVoter'.tx = inVoter.tx
      /\ inVoter'.finalisedHeight = inVoter.finalisedHeight
  BY <1>1 DEF Voters
<1>3. msg'.kind # "in" /\ ~CrossedIn'
  BY IdleIsIdle DEF CrossedIn
<1>4. SeenInv'
  BY <1>2, <1>3 DEF InboundInv, SeenInv, Seen
<1>5. StableInv'
  <2>1. Winners(inVoter', TRUE, active) = Winners(inVoter, TRUE, active)
    BY <1>2 DEF Winners, Agreed, MatchingSigners
  <2>2. QED
    BY <1>2, <1>3, <2>1 DEF InboundInv, StableInv, Stable
<1>6. QED
  BY <1>3, <1>4, <1>5 DEF CrossInv

LEMMA HandleInInv ==
  ASSUME TypeOK, InboundInv, HandleIn \/ RunSwapQueue
  PROVE  InboundInv'
<1>1. ASSUME HandlingIn, msg.crossed, ~inVoter.reverted, CreditVault,
             UNCHANGED <<memo, active, errataVoter>>, msg' = Idle
      PROVE  /\ SeenInv' /\ VoterInv' /\ CrossInv' /\ StableInv' /\ InboundBooked'
             /\ InFinalised => inVoter'.updatedVault /\ inVoter'.finalisedHeight # 0
  BY <1>1, CreditInv, CreditRest DEF InboundInv, CrossedIn, HandlingIn
<1>2. CASE HandleInIgnored
  <2>1. msg' = Idle /\ UNCHANGED <<memo, active, inVoter, errataVoter, funds, outcome,
                                   dispatches>>
    BY <1>2 DEF HandleInIgnored, ledger
  <2>2. QED
    BY <2>1, IdleIsIdle, InboundUntouched DEF CrossedIn
<1>3. CASE HandleInCredited
  <2>1. SeenInv' /\ VoterInv' /\ CrossInv' /\ StableInv' /\ InboundBooked'
    BY <1>1, <1>3 DEF HandleInCredited
  <2>2. /\ UNCHANGED <<outcome, dispatches>>
        /\ inVoter' = [inVoter EXCEPT !.updatedVault = @ \/ CreditDue]
    BY <1>3 DEF HandleInCredited, CreditVault
  <2>3. DispatchedOnce'
    BY <2>2 DEF InboundInv, DispatchedOnce, TypeOK, Voters
  <2>4. QED
    BY <2>1, <2>3 DEF InboundInv
<1>4. ASSUME NEW r \in Outcomes \ {"none"}, Dispatch(r) PROVE InboundInv'
  <2>1. /\ SeenInv' /\ VoterInv' /\ CrossInv' /\ StableInv' /\ InboundBooked'
        /\ inVoter'.updatedVault /\ inVoter'.finalisedHeight # 0
    BY <1>1, <1>4 DEF Dispatch
  <2>2. dispatches = 0
    BY <1>4 DEF Dispatch, HandlingIn, InboundInv, CrossInv, CrossedIn
  <2>3. DispatchedOnce'
    BY <1>4, <2>1, <2>2 DEF Dispatch, DispatchedOnce
  <2>4. QED
    BY <2>1, <2>3 DEF InboundInv
<1>5. CASE HandleInRefund \/ HandleInSwap \/ HandleInAdd
  BY <1>4, <1>5 DEF HandleInRefund, HandleInSwap, HandleInAdd, Outcomes
<1>6. CASE RunSwapQueue
  <2>1. msg' = Idle /\ UNCHANGED <<memo, active, inVoter, errataVoter, funds, dispatches>>
    BY <1>6 DEF RunSwapQueue
  <2>2. outcome # "none" /\ outcome' # "none"
    BY <1>6 DEF RunSwapQueue
  <2>3. QED
    BY <2>1, <2>2, IdleIsIdle, InboundUntouched DEF CrossedIn
<1>7. QED
  BY <1>2, <1>3, <1>5, <1>6 DEF HandleIn

\* What the outbound side does leaves the receiving vault alone.
LEMMA AttestOutFunds ==
  ASSUME TypeOK, AttestOut, ~SelfTransfer
  PROVE  funds'[InVault] = funds[InVault]
<1>1. PICK n \in msg.todo : \/ OutDuplicate(n) \/ OutFinal(n) \/ OutUnfinal(n)
                            \/ OutLate(n) \/ OutRecorded(n)
  BY DEF AttestOut
<1>2. n \in Nodes /\ msg.obs \in Observation /\ outVoter \in Voters
  BY DEF TypeOK, Msgs
<1> DEFINE v == Add(outVoter, msg.obs, n)
<1>3. v \in Voters
  BY <1>2, AddType
<1> HIDE DEF v
<1>4. ASSUME NEW w \in Voters, CorrectGas(w)
      PROVE  funds'[InVault] = funds[InVault]
  <2>1. /\ w.tx.gas \in Nat /\ msg.obs.gas \in Nat /\ funds \in [Vaults -> Nat]
    BY DEF TypeOK, Voters, ObservedTxs, Msgs, Observation
  <2>2. /\ msg.obs.gas > w.tx.gas => msg.obs.gas - w.tx.gas \in Nat
        /\ ~(msg.obs.gas > w.tx.gas) => w.tx.gas - msg.obs.gas \in Nat
    BY <2>1
  <2>3. QED
    BY <1>4, <2>1, <2>2, OtherVault DEF CorrectGas
<1>5. CASE OutDuplicate(n)
  BY <1>5 DEF OutDuplicate
<1>6. CASE OutFinal(n)
  BY <1>2, <1>3, <1>4, <1>6, VoterStepType DEF OutFinal, v
<1>7. CASE OutUnfinal(n)
  BY <1>2, <1>3, <1>4, <1>7, VoterStepType DEF OutUnfinal, v
<1>8. CASE OutLate(n)
  BY <1>2, <1>3, <1>4, <1>8, VoterStepType DEF OutLate, v
<1>9. CASE OutRecorded(n)
  BY <1>3, <1>4, <1>9 DEF OutRecorded, v
<1>10. QED
  BY <1>1, <1>5, <1>6, <1>7, <1>8, <1>9

LEMMA HandleOutFunds ==
  ASSUME TypeOK, HandleOut, ~SelfTransfer
  PROVE  funds'[InVault] = funds[InVault]
<1>1. /\ msg.obs.gas \in Nat /\ msg.obs.coins \in Nat
      /\ funds \in [Vaults -> Nat] /\ CoinsOut \in Nat
      /\ msg.obs.coins + msg.obs.gas \in Nat
  BY DEF TypeOK, Msgs, Observation, CoinsOut
<1>2. SubFunds(funds, OutVault, msg.obs.gas) \in [Vaults -> Nat]
  BY <1>1, FundsType, VaultNames
<1>3. /\ FundsAfterOut[InVault] = funds[InVault]
      /\ SubFunds(funds, OutVault, msg.obs.gas)[InVault] = funds[InVault]
      /\ SubFunds(funds, OutVault, msg.obs.coins + msg.obs.gas)[InVault]
           = funds[InVault]
  BY <1>1, <1>2, OtherVault DEF FundsAfterOut
<1>4. QED
  BY <1>3 DEF HandleOut, HandleOutIgnored, HandleOutCancel, HandleOutUnexpected,
              HandleOutDone, ledger

LEMMA OutInv ==
  ASSUME TypeOK, InboundInv, AttestOut \/ HandleOut
  PROVE  InboundInv'
<1>1. UNCHANGED <<memo, active, inVoter, errataVoter, outcome, dispatches>>
  BY DEF AttestOut, HandleOut, HandleOutIgnored, HandleOutCancel,
         HandleOutUnexpected, HandleOutDone, ledger
<1>2. msg'.kind # "in"
  <2>1. CASE AttestOut
    <3>1. (outVoter.height = 0) \in BOOLEAN
      OBVIOUS
    <3>2. msg'.kind = msg.kind /\ msg.kind = "out"
      BY <2>1, <3>1, AttestedType
         DEF AttestOut, OutDuplicate, OutFinal, OutUnfinal, OutLate, OutRecorded
    <3>3. QED
      BY <3>2
  <2>2. CASE HandleOut
    BY <2>2, IdleIsIdle DEF HandleOut, HandleOutIgnored, HandleOutCancel,
                            HandleOutUnexpected, HandleOutDone
  <2>3. QED
    BY <2>1, <2>2
<1>3. ~SelfTransfer => funds'[InVault] = funds[InVault]
  BY AttestOutFunds, HandleOutFunds
<1>4. QED
  BY <1>1, <1>2, <1>3, InboundUntouched DEF CrossedIn

\* An errata takes back what was credited and marks the inbound, once.
LEMMA RevertInv ==
  ASSUME TypeOK, InboundInv, UNCHANGED <<memo, active, outcome, dispatches>>,
         ~inVoter.reverted, InReverted, errataVoter'.blockHeight # 0,
         ~SelfTransfer => funds'[InVault] = FundsTakenBack[InVault],
         msg'.kind = "errata"
  PROVE  InboundInv'
<1>1. /\ inVoter \in Voters /\ funds \in [Vaults -> Nat] /\ InitFunds \in Nat
      /\ inVoter.tx.coins \in Nat
  BY ConstantsAssumption DEF TypeOK, Voters, ObservedTxs
<1>2. /\ inVoter'.txs = inVoter.txs
      /\ inVoter'.tx = inVoter.tx
      /\ inVoter'.finalisedHeight = inVoter.finalisedHeight
      /\ inVoter'.updatedVault = inVoter.updatedVault
      /\ inVoter'.reverted = TRUE
  BY <1>1 DEF InReverted, Voters
<1>3. msg'.kind # "in" /\ ~CrossedIn'
  BY DEF CrossedIn
<1>4. SeenInv'
  BY <1>2, <1>3 DEF InboundInv, SeenInv, Seen
<1>5. VoterInv'
  BY <1>2 DEF InboundInv, VoterInv
<1>6. StableInv'
  <2>1. Winners(inVoter', TRUE, active) = Winners(inVoter, TRUE, active)
    BY <1>2 DEF Winners, Agreed, MatchingSigners
  <2>2. QED
    BY <1>2, <1>3, <2>1 DEF InboundInv, StableInv, Stable
<1>7. DispatchedOnce'
  BY <1>2 DEF InboundInv, DispatchedOnce
<1>8. InboundBooked'
  <2>1. /\ Stable' <=> Stable
        /\ SameCoins' <=> SameCoins
        /\ SelfTransfer' <=> SelfTransfer
        /\ InVault' = InVault
    BY DEF Stable, SameCoins, SelfTransfer, InVault
  <2>2. SUFFICES ASSUME ~SelfTransfer, SameCoins \/ (Stable /\ memo # "migrate")
                 PROVE  funds'[InVault] = InitFunds
    BY <1>1, <1>2, <2>1 DEF InboundBooked
  <2>3. funds[InVault] = InitFunds + (IF inVoter.updatedVault THEN inVoter.tx.coins ELSE 0)
    BY <2>2 DEF InboundInv, InboundBooked
  <2>4. CASE inVoter.updatedVault
    <3>1. FundsTakenBack[InVault] = SafeSub(funds[InVault], inVoter.tx.coins)
      BY <1>1, <2>4, VaultNames DEF FundsTakenBack, SubFunds
    <3>2. QED
      BY <1>1, <2>2, <2>3, <2>4, <3>1 DEF SafeSub
  <2>5. CASE ~inVoter.updatedVault
    BY <1>1, <2>2, <2>3, <2>5 DEF FundsTakenBack
  <2>6. QED
    BY <2>4, <2>5
<1>9. QED
  BY <1>3, <1>4, <1>5, <1>6, <1>7, <1>8 DEF InboundInv, CrossInv

LEMMA AttestErrataInv ==
  ASSUME TypeOK, InboundInv, AttestErrata
  PROVE  InboundInv'
<1>1. PICK n \in msg.todo :
        /\ msg.kind = "errata"
        /\ \/ ErrataDuplicate(n) \/ ErrataPending(n) \/ ErrataLate(n)
           \/ ErrataFails(n) \/ ErrataOutboundOnly(n) \/ ErrataTooEarly(n)
           \/ ErrataUnfinal(n) \/ ErrataInternal(n) \/ ErrataFinal(n)
        /\ UNCHANGED <<memo, height, active>>
  BY DEF AttestErrata
<1>2. /\ n \in Nodes /\ funds \in [Vaults -> Nat] /\ outVoter.tx.coins \in Nat
      /\ height # 0 /\ inVoter.tx.coins \in Nat
  BY DEF TypeOK, Msgs, Voters, ObservedTxs
<1>3. FundsTakenBack \in [Vaults -> Nat]
  BY <1>2, FundsType, VaultNames DEF FundsTakenBack
<1>4. ASSUME ErrataCrosses(n), ErrataAgreed(n)
      PROVE  /\ ~inVoter.reverted /\ errataVoter'.blockHeight # 0
             /\ msg'.kind = "errata"
  <2>1. ~inVoter.reverted
    BY <1>4 DEF ErrataCrosses, InboundInv, VoterInv
  <2>2. errataVoter'.blockHeight # 0
    BY <1>2, <1>4, ErrataVoterType DEF ErrataAgreed
  <2>3. msg'.kind = "errata"
    BY <1>1, <1>4, AttestedType DEF ErrataAgreed
  <2>4. QED
    BY <2>1, <2>2, <2>3
<1>5. CASE ErrataDuplicate(n) \/ ErrataPending(n) \/ ErrataLate(n)
  <2>1. UNCHANGED <<inVoter, funds, outcome, dispatches>>
    BY <1>5 DEF ErrataDuplicate, ErrataPending, ErrataLate, ledger
  <2>2. errataVoter'.blockHeight = errataVoter.blockHeight
    BY <1>2, <1>5, ErrataVoterType DEF ErrataDuplicate, ErrataPending, ErrataLate
  <2>3. msg'.kind = "errata"
    BY <1>1, <1>5, AttestedType DEF ErrataDuplicate, ErrataPending, ErrataLate
  <2>4. QED
    BY <1>1, <2>1, <2>2, <2>3, InboundUntouched DEF CrossedIn
<1>6. CASE ErrataFails(n)
  <2>1. UNCHANGED <<inVoter, funds, outcome, dispatches>> /\ msg' = Idle
    BY <1>6 DEF ErrataFails, ledger
  <2>2. errataVoter.blockHeight = 0
    BY <1>6 DEF ErrataFails, ErrataCrosses
  <2>3. QED
    BY <1>1, <2>1, <2>2, IdleIsIdle, InboundUntouched DEF CrossedIn
<1>7. CASE ErrataOutboundOnly(n) \/ ErrataTooEarly(n)
  <2>1. UNCHANGED <<inVoter, outcome, dispatches>> /\ ErrataCrosses(n) /\ ErrataAgreed(n)
    BY <1>7 DEF ErrataOutboundOnly, ErrataTooEarly, ledger
  <2>2. ~SelfTransfer => funds'[InVault] = funds[InVault]
    BY <1>2, <1>7, OtherVault
       DEF ErrataOutboundOnly, ErrataTooEarly, OutboundErrata, ledger
  <2>3. QED
    BY <1>1, <1>4, <2>1, <2>2, InboundUntouched DEF CrossedIn
<1>8. CASE ErrataUnfinal(n) \/ ErrataInternal(n) \/ ErrataFinal(n)
  <2>1. /\ UNCHANGED <<outcome, dispatches>>
        /\ ErrataCrosses(n) /\ ErrataAgreed(n) /\ InReverted
    BY <1>8 DEF ErrataUnfinal, ErrataInternal, ErrataFinal
  <2>2. ~SelfTransfer => funds'[InVault] = FundsTakenBack[InVault]
    BY <1>2, <1>3, <1>8, OtherVault
       DEF ErrataUnfinal, ErrataInternal, ErrataFinal, OutboundErrata
  <2>3. QED
    BY <1>1, <1>4, <2>1, <2>2, RevertInv
<1>9. QED
  BY <1>1, <1>5, <1>6, <1>7, <1>8

LEMMA OtherInv ==
  ASSUME TypeOK, InboundInv, ErrataDone \/ NextBlock \/ Churn
  PROVE  InboundInv'
<1>1. UNCHANGED <<memo, inVoter, errataVoter, funds, outcome, dispatches>> /\ msg' = Idle
  BY DEF ErrataDone, NextBlock, Churn, ledger
<1>2. Stable => active' = active
  BY DEF Stable, ErrataDone, NextBlock, Churn, TypeOK
<1>3. QED
  BY <1>1, <1>2, IdleIsIdle, InboundUntouched DEF CrossedIn

LEMMA InitInv ==
  ASSUME Init
  PROVE  InboundInv
<1>1. /\ inVoter.txs = <<>> /\ inVoter.tx = NoTx
      /\ ~inVoter.updatedVault /\ ~inVoter.reverted
      /\ inVoter.finalisedHeight = 0
  BY DEF Init, NewVoter
<1>2. msg.kind # "in" /\ dispatches = 0 /\ outcome = "none"
  BY IdleIsIdle DEF Init
<1>3. IsEmpty(inVoter.tx)
  BY <1>1 DEF NoTx, IsEmpty
<1>4. Winners(inVoter, TRUE, active) = {}
  BY <1>1 DEF Winners
<1>5. funds[InVault] = InitFunds /\ InitFunds \in Nat
  BY VaultNames, ConstantsAssumption DEF Init
<1>6. SeenInv
  BY <1>1, <1>2, <1>3 DEF SeenInv
<1>7. VoterInv /\ CrossInv /\ StableInv
  BY <1>1, <1>2, <1>3, <1>4 DEF VoterInv, CrossInv, StableInv, CrossedIn
<1>8. DispatchedOnce /\ InboundBooked
  BY <1>1, <1>2, <1>5 DEF DispatchedOnce, InboundBooked
<1>9. QED
  BY <1>6, <1>7, <1>8 DEF InboundInv

LEMMA NextInv ==
  ASSUME TypeOK, InboundInv, [Next]_vars
  PROVE  InboundInv'
<1>1. CASE Next
  BY <1>1, DeliverInv, AttestInInv, HandleInInv, OutInv, AttestErrataInv,
     OtherInv DEF Next
<1>2. CASE UNCHANGED vars
  <2>1. UNCHANGED <<memo, active, inVoter, errataVoter, funds, outcome, dispatches, msg>>
    BY <1>2 DEF vars, ledger
  <2>2. QED
    BY <2>1 DEF InboundInv, SeenInv, Seen, VoterInv, CrossInv, StableInv, CrossedIn,
                Stable, DispatchedOnce, InboundBooked, SameCoins, SelfTransfer, InVault
<1>3. QED
  BY <1>1, <1>2

LEMMA InboundInvariant == Spec => [](TypeOK /\ InboundInv)
<1>1. Init => TypeOK /\ InboundInv
  BY InitType, InitInv
<1>2. (TypeOK /\ InboundInv) /\ [Next]_vars => (TypeOK /\ InboundInv)'
  BY NextType, NextInv
<1>3. QED
  BY <1>1, <1>2, PTL DEF Spec

\* The receiving vault is credited once, with what is agreed on, and an errata
\* takes exactly that back once: for every number of nodes, in every order of
\* single and quorum messages, errata, blocks and churns.
THEOREM InboundIsBooked == Spec => []InboundBooked
<1>1. TypeOK /\ InboundInv => InboundBooked
  BY DEF InboundInv
<1>2. QED
  BY <1>1, InboundInvariant, PTL

\* An inbound is dispatched at most once, after its final consensus and with
\* its vault credited.
THEOREM InboundDispatchedOnce == Spec => []DispatchedOnce
<1>1. TypeOK /\ InboundInv => DispatchedOnce
  BY DEF InboundInv
<1>2. QED
  BY <1>1, InboundInvariant, PTL

-----------------------------------------------------------------------------
(***************************************************************************)
(* Action properties                                                       *)
(***************************************************************************)

\* Only an inbound attestation changes what is agreed on.
LEMMA OnlyAttestInAgrees ==
  ASSUME TypeOK, [Next]_vars, ~AttestIn
  PROVE  /\ inVoter'.tx = inVoter.tx
         /\ inVoter'.finalisedHeight = inVoter.finalisedHeight
         /\ inVoter'.height = inVoter.height
<1>1. inVoter \in Voters
  BY DEF TypeOK
<1>2. \/ inVoter' = inVoter
      \/ CreditVault
      \/ InReverted
  <2>1. CASE DeliverSingle \/ DeliverQuorum
    BY <2>1 DEF DeliverSingle, DeliverQuorum, DeliverMsg, Deliver
  <2>2. CASE HandleIn \/ RunSwapQueue
    BY <2>2 DEF HandleIn, HandleInIgnored, HandleInCredited, HandleInRefund,
                HandleInSwap, HandleInAdd, Dispatch, RunSwapQueue
  <2>3. CASE AttestOut \/ HandleOut
    BY <2>3 DEF AttestOut, HandleOut, HandleOutIgnored, HandleOutCancel,
                HandleOutUnexpected, HandleOutDone
  <2>4. CASE AttestErrata
    BY <2>4 DEF AttestErrata, ErrataDuplicate, ErrataPending, ErrataLate, ErrataFails,
                ErrataOutboundOnly, ErrataTooEarly, ErrataUnfinal, ErrataInternal,
                ErrataFinal
  <2>5. CASE ErrataDone \/ NextBlock \/ Churn \/ UNCHANGED vars
    BY <2>5 DEF ErrataDone, NextBlock, Churn, vars
  <2>6. QED
    BY <2>1, <2>2, <2>3, <2>4, <2>5 DEF Next
<1>3. CASE CreditVault
  BY <1>1, <1>3 DEF CreditVault, Voters
<1>4. CASE InReverted
  BY <1>1, <1>4 DEF InReverted, Voters
<1>5. QED
  BY <1>2, <1>3, <1>4

\* Final consensus is irrevocable, whatever is observed later and whoever is
\* active by then.
THEOREM FinalityIsIrrevocable == Spec => FinalIsFinal
<1> DEFINE P == inVoter.finalisedHeight # 0 =>
                  /\ EqualsEx(inVoter'.tx, inVoter.tx) /\ IsFinal(inVoter'.tx)
                  /\ inVoter'.finalisedHeight = inVoter.finalisedHeight
                  /\ inVoter'.height = inVoter.height
<1>1. TypeOK /\ InboundInv /\ [Next]_vars => P
  <2>1. SUFFICES ASSUME TypeOK, InboundInv, [Next]_vars, inVoter.finalisedHeight # 0
                 PROVE  /\ EqualsEx(inVoter'.tx, inVoter.tx) /\ IsFinal(inVoter'.tx)
                        /\ inVoter'.finalisedHeight = inVoter.finalisedHeight
                        /\ inVoter'.height = inVoter.height
    OBVIOUS
  <2>2. IsFinal(inVoter.tx)
    BY <2>1 DEF InboundInv, VoterInv
  <2>3. CASE ~AttestIn
    BY <2>1, <2>2, <2>3, OnlyAttestInAgrees DEF EqualsEx, EqualsExIgnoreGas
  <2>4. CASE AttestIn
    <3>1. PICK n \in msg.todo : \/ InDuplicate(n) \/ InFinal(n) \/ InUnfinal(n)
                                \/ InLate(n) \/ InRecorded(n)
      BY <2>4 DEF AttestIn
    <3>2. n \in Nodes /\ msg.obs \in Observation /\ inVoter \in Voters
      BY <2>1 DEF TypeOK, Msgs
    <3> DEFINE v == Add(inVoter, msg.obs, n)
    <3>3. /\ v \in Voters /\ v.tx \in ObservedTxs
          /\ v.tx = inVoter.tx /\ v.height = inVoter.height
          /\ v.finalisedHeight = inVoter.finalisedHeight
      BY <3>2, AddType DEF Voters
    <3> HIDE DEF v
    <3>4. ~InFinal(n) /\ ~InUnfinal(n)
      BY <2>1, <3>3 DEF InFinal, InUnfinal, ReachesFinal, ReachesUnfinal, v
    <3>5. CASE InDuplicate(n) \/ InRecorded(n)
      <4>1. inVoter' = inVoter \/ inVoter' = v
        BY <3>5 DEF InDuplicate, InRecorded, v
      <4>2. QED
        BY <2>2, <3>3, <4>1 DEF EqualsEx, EqualsExIgnoreGas
    <3>6. CASE InLate(n)
      <4>1. inVoter' = LateSigned(v, n)
        BY <3>6 DEF InLate, v
      <4>2. /\ inVoter'.tx = [v.tx EXCEPT !.signers = @ \cup {n}]
            /\ inVoter'.finalisedHeight = v.finalisedHeight
            /\ inVoter'.height = v.height
        BY <2>1, <3>2, <3>3, <4>1, VoterStepType
      <4>3. QED
        BY <2>2, <3>3, <4>2 DEF EqualsEx, EqualsExIgnoreGas, IsFinal, ObservedTxs
    <3>7. QED
      BY <3>1, <3>4, <3>5, <3>6
  <2>5. QED
    BY <2>3, <2>4
<1>2. [](TypeOK /\ InboundInv) /\ [][Next]_vars => [][P]_vars
  BY <1>1, PTL
<1>3. QED
  BY <1>2, InboundInvariant, PTL DEF Spec, FinalIsFinal

\* An inbound attestation neither credits nor reverts.
LEMMA AttestInKeeps ==
  ASSUME TypeOK, AttestIn
  PROVE  /\ inVoter'.reverted = inVoter.reverted
         /\ inVoter'.updatedVault = inVoter.updatedVault
<1>1. PICK n \in msg.todo : \/ InDuplicate(n) \/ InFinal(n) \/ InUnfinal(n)
                            \/ InLate(n) \/ InRecorded(n)
  BY DEF AttestIn
<1>2. n \in Nodes /\ msg.obs \in Observation /\ inVoter \in Voters
  BY DEF TypeOK, Msgs
<1> DEFINE v == Add(inVoter, msg.obs, n)
<1>3. /\ v \in Voters /\ v.reverted = inVoter.reverted
      /\ v.updatedVault = inVoter.updatedVault
  BY <1>2, AddType
<1> HIDE DEF v
<1>4. inVoter' \in {inVoter, v, Finalised(v), Unfinalised(v), LateSigned(v, n)}
  BY <1>1 DEF InDuplicate, InFinal, InUnfinal, InLate, InRecorded, v
<1>5. /\ Finalised(v).reverted = v.reverted
      /\ Finalised(v).updatedVault = v.updatedVault
  BY <1>2, <1>3, VoterStepType
<1>6. /\ Unfinalised(v).reverted = v.reverted
      /\ Unfinalised(v).updatedVault = v.updatedVault
  BY <1>2, <1>3, VoterStepType
<1>7. /\ LateSigned(v, n).reverted = v.reverted
      /\ LateSigned(v, n).updatedVault = v.updatedVault
  BY <1>2, <1>3, VoterStepType
<1>8. QED
  BY <1>3, <1>4, <1>5, <1>6, <1>7

\* A reverted transaction is dead: it is not credited, dispatched or taken
\* back again.
THEOREM RevertedIsDead == Spec => RevertedIsFinal
<1> DEFINE P == inVoter.reverted =>
                  /\ inVoter'.reverted
                  /\ inVoter'.updatedVault = inVoter.updatedVault
                  /\ dispatches' = dispatches
                  /\ InVault # OutVault => funds'[InVault] = funds[InVault]
<1>1. TypeOK /\ InboundInv /\ [Next]_vars => P
  <2>1. SUFFICES ASSUME TypeOK, InboundInv, [Next]_vars, inVoter.reverted
                 PROVE  P
    OBVIOUS
  <2>2. InVault # OutVault => ~SelfTransfer
    BY DEF InVault, OutVault
  <2>3. CASE UNCHANGED <<inVoter, dispatches, funds>>
    BY <2>1, <2>3
  <2>4. CASE DeliverSingle \/ DeliverQuorum
    BY <2>3, <2>4 DEF DeliverSingle, DeliverQuorum, DeliverMsg, Deliver, ledger
  <2>5. CASE AttestIn
    BY <2>1, <2>5, AttestInKeeps DEF AttestIn, ledger
  <2>6. CASE HandleIn \/ RunSwapQueue
    BY <2>1, <2>3, <2>6
       DEF HandleIn, HandleInIgnored, HandleInCredited, HandleInRefund, HandleInSwap,
           HandleInAdd, Dispatch, RunSwapQueue, ledger
  <2>7. CASE AttestOut \/ HandleOut
    <3>1. UNCHANGED <<inVoter, dispatches>>
      BY <2>7 DEF AttestOut, HandleOut, HandleOutIgnored, HandleOutCancel,
                  HandleOutUnexpected, HandleOutDone, ledger
    <3>2. QED
      BY <2>1, <2>2, <2>7, <3>1, AttestOutFunds, HandleOutFunds
  <2>8. CASE AttestErrata
    <3>1. errataVoter.blockHeight # 0
      BY <2>1 DEF InboundInv, VoterInv
    <3>2. PICK n : ErrataDuplicate(n) \/ ErrataPending(n) \/ ErrataLate(n)
      BY <2>8, <3>1
         DEF AttestErrata, ErrataFails, ErrataOutboundOnly, ErrataTooEarly,
             ErrataUnfinal, ErrataInternal, ErrataFinal, ErrataCrosses
    <3>3. QED
      BY <2>3, <3>2 DEF ErrataDuplicate, ErrataPending, ErrataLate, ledger
  <2>9. CASE ErrataDone \/ NextBlock \/ Churn \/ UNCHANGED vars
    BY <2>3, <2>9 DEF ErrataDone, NextBlock, Churn, vars, ledger
  <2>10. QED
    BY <2>1, <2>4, <2>5, <2>6, <2>7, <2>8, <2>9 DEF Next
<1>2. [](TypeOK /\ InboundInv) /\ [][Next]_vars => [][P]_vars
  BY <1>1, PTL
<1>3. QED
  BY <1>2, InboundInvariant, PTL DEF Spec, RevertedIsFinal

-----------------------------------------------------------------------------
(***************************************************************************)
(* Refinement                                                              *)
(***************************************************************************)

\* All nodes report the same coins, and no vault pays itself.
SameForAll ==
  /\ "consolidate" \notin Memos
  /\ \A m \in Memos : \A o, p \in InObs[m] \cup OutObs[m] : o.coins = p.coins

\* Every step credits, takes back, or leaves alone what the ledger shows.
LEMMA LedgerStep ==
  ASSUME TypeOK, InboundInv, InboundInv', [Next]_vars, SameForAll
  PROVE  [Ledger!Next]_Ledger!ledgerVars
<1>1. /\ memo \in Memos /\ memo' = memo /\ inVoter \in Voters
      /\ funds \in [Vaults -> Nat] /\ InitFunds \in Nat
      /\ inVoter.tx.coins \in Nat /\ dispatches \in Nat
      /\ inVoter.updatedVault \in BOOLEAN /\ inVoter.reverted \in BOOLEAN
  <2>1. memo' = memo
    BY DEF Next, DeliverSingle, DeliverQuorum, DeliverMsg, Deliver, AttestIn,
           HandleIn, HandleInIgnored, HandleInCredited, HandleInRefund, HandleInSwap,
           HandleInAdd, Dispatch, RunSwapQueue, AttestOut, HandleOut,
           HandleOutIgnored, HandleOutCancel, HandleOutUnexpected, HandleOutDone,
           AttestErrata, ErrataDone, NextBlock, Churn, vars
  <2>2. QED
    BY <2>1, ConstantsAssumption DEF TypeOK, Voters, ObservedTxs
<1>2. ~SelfTransfer /\ SameCoins /\ ~SelfTransfer' /\ SameCoins' /\ InVault' = InVault
  BY <1>1 DEF SameForAll, SelfTransfer, SameCoins, InVault
<1>3. /\ funds[InVault] = InitFunds + (IF inVoter.updatedVault /\ ~inVoter.reverted
                                       THEN inVoter.tx.coins ELSE 0)
      /\ funds'[InVault] = InitFunds + (IF inVoter'.updatedVault /\ ~inVoter'.reverted
                                        THEN inVoter'.tx.coins ELSE 0)
  BY <1>2 DEF InboundInv, InboundBooked
<1>4. ASSUME inVoter'.updatedVault = inVoter.updatedVault,
             inVoter'.reverted = inVoter.reverted,
             dispatches' = dispatches
      PROVE  UNCHANGED Ledger!ledgerVars
  <2>1. inVoter.updatedVault => inVoter'.tx.coins = inVoter.tx.coins
    <3>1. SUFFICES ASSUME inVoter.updatedVault
                   PROVE  inVoter'.tx.coins = inVoter.tx.coins
      OBVIOUS
    <3>2. Seen(inVoter.tx)
      BY <3>1 DEF InboundInv, SeenInv, VoterInv
    <3>3. Seen(inVoter.tx)'
      BY <1>4, <3>1 DEF InboundInv, SeenInv, VoterInv
    <3>4. QED
      BY <1>1, <1>2, <3>2, <3>3
         DEF Seen, SameCoins, Equals, EqualsEx, EqualsExIgnoreGas
  <2>2. UNCHANGED <<LedgerPhase, funds[InVault]>>
    BY <1>2, <1>3, <1>4, <2>1 DEF LedgerPhase
  <2>3. QED
    BY <1>4, <2>1, <2>2 DEF Ledger!ledgerVars
<1>5. ASSUME CrossedIn, ~inVoter.reverted, CreditVault, CreditDue,
             dispatches' \in {0, 1}
      PROVE  [Ledger!Next]_Ledger!ledgerVars
  <2>1. /\ inVoter'.reverted = inVoter.reverted /\ inVoter'.tx = inVoter.tx
        /\ inVoter'.updatedVault /\ ~inVoter.updatedVault
    BY <1>1, <1>5 DEF CreditVault, CreditDue, Voters
  <2>2. LedgerPhase = "open" /\ LedgerPhase' = "credited"
    BY <1>5, <2>1 DEF LedgerPhase
  <2>3. inVoter.tx.coins \in {o.coins : o \in UNION {InObs[m] : m \in Memos}}
    <3>1. PICK o \in InObs[memo] : Equals(inVoter.tx, o)
      BY <1>5 DEF InboundInv, SeenInv, CrossInv, Seen
    <3>2. o \in UNION {InObs[m] : m \in Memos} /\ inVoter.tx.coins = o.coins
      BY <1>1, <3>1 DEF Equals, EqualsEx, EqualsExIgnoreGas
    <3>3. QED
      BY <3>2
  <2>4. funds'[InVault] = funds[InVault] + inVoter.tx.coins
    BY <1>1, <1>3, <1>5, <2>1
  <2>5. Ledger!Credit
    BY <1>2, <1>5, <2>1, <2>2, <2>3, <2>4 DEF Ledger!Credit
  <2>6. QED
    BY <2>5 DEF Ledger!Next
<1>6. ASSUME CreditVault, ~CreditDue, dispatches' = dispatches
      PROVE  [Ledger!Next]_Ledger!ledgerVars
  BY <1>1, <1>4, <1>6 DEF CreditVault, Voters
<1>7. ASSUME ~inVoter.reverted, InReverted, dispatches' = dispatches
      PROVE  [Ledger!Next]_Ledger!ledgerVars
  <2>1. /\ inVoter'.reverted /\ inVoter'.tx = inVoter.tx
        /\ inVoter'.updatedVault = inVoter.updatedVault
    BY <1>1, <1>7 DEF InReverted, Voters
  <2>2. funds'[InVault] = InitFunds
    BY <1>1, <1>3, <2>1
  <2>3. CASE inVoter.updatedVault
    <3>1. LedgerPhase = "credited" /\ LedgerPhase' = "takenBack"
      BY <1>7, <2>1, <2>3 DEF LedgerPhase
    <3>2. Ledger!TakeBack
      BY <1>2, <1>7, <2>1, <2>2, <2>3, <3>1 DEF Ledger!TakeBack
    <3>3. QED
      BY <3>2 DEF Ledger!Next
  <2>4. CASE ~inVoter.updatedVault
    <3>1. LedgerPhase = "open" /\ LedgerPhase' = "void"
      BY <1>7, <2>1, <2>4 DEF LedgerPhase
    <3>2. funds[InVault] = InitFunds
      BY <1>1, <1>3, <2>4
    <3>3. Ledger!Void
      BY <1>2, <1>7, <2>1, <2>2, <2>4, <3>1, <3>2 DEF Ledger!Void
    <3>4. QED
      BY <3>3 DEF Ledger!Next
  <2>5. QED
    BY <2>3, <2>4
<1>8. CASE UNCHANGED <<inVoter, dispatches>>
  BY <1>4, <1>8
<1>9. CASE AttestIn
  BY <1>4, <1>9, AttestInKeeps DEF AttestIn, ledger
<1>10. CASE HandleIn
  <2>1. CASE HandleInIgnored
    BY <1>8, <2>1 DEF HandleInIgnored, ledger
  <2>2. CASE HandleInCredited
    <3>1. CASE CreditDue
      <4>1. CrossedIn /\ dispatches = 0
        BY <2>2 DEF HandleInCredited, HandlingIn, CrossedIn, InboundInv, CrossInv
      <4>2. QED
        BY <1>5, <2>2, <3>1, <4>1 DEF HandleInCredited
    <3>2. QED
      BY <1>6, <2>2, <3>1 DEF HandleInCredited
  <2>3. ASSUME NEW r, Dispatch(r) PROVE [Ledger!Next]_Ledger!ledgerVars
    <3>1. CrossedIn /\ dispatches = 0 /\ ~inVoter.updatedVault
      BY <2>3 DEF Dispatch, HandlingIn, CrossedIn, InboundInv, CrossInv, IsInternal
    <3>2. CreditDue
      BY <2>3, <3>1 DEF Dispatch, CreditDue
    <3>3. QED
      BY <1>5, <2>3, <3>1, <3>2 DEF Dispatch
  <2>4. QED
    BY <1>10, <2>1, <2>2, <2>3 DEF HandleIn, HandleInRefund, HandleInSwap, HandleInAdd
<1>11. CASE DeliverSingle \/ DeliverQuorum \/ RunSwapQueue
  BY <1>8, <1>11 DEF DeliverSingle, DeliverQuorum, DeliverMsg, Deliver, RunSwapQueue,
                     ledger
<1>12. CASE AttestOut \/ HandleOut
  BY <1>8, <1>12 DEF AttestOut, HandleOut, HandleOutIgnored, HandleOutCancel,
                     HandleOutUnexpected, HandleOutDone, ledger
<1>13. CASE AttestErrata
  <2>1. PICK n : \/ ErrataDuplicate(n) \/ ErrataPending(n) \/ ErrataLate(n)
                 \/ ErrataFails(n) \/ ErrataOutboundOnly(n) \/ ErrataTooEarly(n)
                 \/ ErrataUnfinal(n) \/ ErrataInternal(n) \/ ErrataFinal(n)
    BY <1>13 DEF AttestErrata
  <2>2. CASE \/ ErrataDuplicate(n) \/ ErrataPending(n) \/ ErrataLate(n)
             \/ ErrataFails(n) \/ ErrataOutboundOnly(n) \/ ErrataTooEarly(n)
    BY <1>8, <2>2 DEF ErrataDuplicate, ErrataPending, ErrataLate, ErrataFails,
                      ErrataOutboundOnly, ErrataTooEarly, ledger
  <2>3. CASE ErrataUnfinal(n) \/ ErrataInternal(n) \/ ErrataFinal(n)
    <3>1. ErrataCrosses(n) /\ InReverted /\ dispatches' = dispatches
      BY <2>3 DEF ErrataUnfinal, ErrataInternal, ErrataFinal
    <3>2. ~inVoter.reverted
      BY <3>1 DEF ErrataCrosses, InboundInv, VoterInv
    <3>3. QED
      BY <1>7, <3>1, <3>2
  <2>4. QED
    BY <2>1, <2>2, <2>3
<1>14. CASE ErrataDone \/ NextBlock \/ Churn \/ UNCHANGED vars
  BY <1>8, <1>14 DEF ErrataDone, NextBlock, Churn, vars, ledger
<1>15. QED
  BY <1>9, <1>10, <1>11, <1>12, <1>13, <1>14 DEF Next

\* What the nodes' votes do to an inbound, for any number of nodes and any
\* churn, is what InboundLedger promises, as long as the nodes agree on the
\* coins.
THEOREM ObservedTxImplementsLedger ==
  ASSUME SameForAll
  PROVE  Spec => ImplementsLedger
<1>1. Init => Ledger!Init
  <2>1. ASSUME Init PROVE Ledger!Init
    <3>1. ~inVoter.updatedVault /\ ~inVoter.reverted
      BY <2>1 DEF Init, NewVoter
    <3>2. funds[InVault] = InitFunds
      BY <2>1, VaultNames DEF Init
    <3>3. LedgerPhase = "open"
      BY <3>1 DEF LedgerPhase
    <3>4. QED
      BY <2>1, <3>1, <3>2, <3>3 DEF Ledger!Init, Init
  <2>2. QED
    BY <2>1
<1>2. (TypeOK /\ InboundInv) /\ (TypeOK /\ InboundInv)' /\ [Next]_vars
        => [Ledger!Next]_Ledger!ledgerVars
  BY LedgerStep
<1>3. QED
  BY <1>1, <1>2, InboundInvariant, PTL DEF Spec, ImplementsLedger, Ledger!Spec

=============================================================================
