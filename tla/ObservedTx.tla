----------------------------- MODULE ObservedTx -----------------------------
(***************************************************************************)
(* How the state machine turns the nodes' observations of ONE external     *)
(* transaction into effects: the attestations of MsgObservedTxIn/Out and   *)
(* of the quorum messages, the consensus on the transaction, the slash     *)
(* points around it, the vault accounting, the dispatch of an inbound, the *)
(* gas correction of an outbound, and the errata that takes it back        *)
(* (x/thorchain/handler_observed_tx*.go, handler_errata_tx*.go).           *)
(*                                                                         *)
(* One transaction ID can be observed as an inbound (a deposit), as an     *)
(* outbound (a payment) or as both (a migration between vaults, a          *)
(* consolidation of one vault), which is why both voters are here.         *)
(*                                                                         *)
(* A message is executed atomically by the chain.  The model executes it   *)
(* attestation by attestation, with every other action disabled while msg  *)
(* holds a message: the loop of the quorum handlers becomes steps.         *)
(***************************************************************************)
EXTENDS ObservedTxVoter

CONSTANTS
  Memos,              \* the types of memo the transaction may have
  InObs, OutObs,      \* per memo, the observations nodes may submit
  ActiveSets,         \* the active validator sets a churn may install
  Statuses,           \* the initial statuses of the vaults
  InitFunds,          \* the initial balance of a vault
  InitPool,           \* the initial asset balance of the pool
  InitSlash,          \* the initial slash points of a node
  ObserveSlashPoints, LackOfObservationPenalty, ObserveFlex,
  QuorumSizes,        \* bound: numbers of attestations in a quorum message
  MaxHeight,          \* bound: block heights
  MaxSlash            \* bound: no more single messages of a node past these points

MemoTypes == {"swap", "add", "outbound", "migrate", "consolidate", "fakegas", "cancel"}

Vaults == {"from", "to"}
VaultStatus == {"Active", "Retiring", "Inactive"}

ASSUME ConstantsAssumption ==
  /\ Memos # {} /\ Memos \subseteq MemoTypes
  /\ InObs \in [Memos -> SUBSET Observation]
  /\ OutObs \in [Memos -> SUBSET Observation]
  /\ \A m \in Memos : \A o \in InObs[m] \cup OutObs[m] :
       o.coins > 0 /\ o.blockHeight > 0
  /\ ActiveSets # {} /\ ActiveSets \subseteq (SUBSET Nodes) \ {{}}
  /\ Statuses # {} /\ Statuses \subseteq [Vaults -> VaultStatus]
  /\ InitFunds \in Nat /\ InitPool \in Nat /\ InitSlash \in Nat
  /\ ObserveSlashPoints \in Nat /\ LackOfObservationPenalty \in Nat
  /\ QuorumSizes \subseteq Nat \ {0}
  /\ ObserveFlex \in Nat /\ MaxHeight \in Nat /\ MaxSlash \in Nat

Outcomes == {"none", "refunded", "refundFailed", "queued", "swapped", "handled"}

ErrataVoters == [signers : SUBSET Nodes, blockHeight : Nat]

VARIABLES
  memo,          \* the memo of the transaction, fixed
  height,        \* THORChain block height
  active,        \* the active validators
  inVoter, outVoter, errataVoter,
  funds,         \* vault balances of the transaction's asset
  status,        \* vault statuses
  slash,         \* slash points of the nodes
  gasMgr,        \* gas the gas manager was told to have reimbursed
  bondSlash,     \* value the signing vault's members were slashed for
  pool,          \* asset balance of the pool
  outcome,       \* what became of the inbound after consensus
  dispatches,    \* how many times the inbound was dispatched (history)
  msg            \* the message being executed

ledger == <<funds, status, gasMgr, bondSlash, pool, outcome, dispatches>>
vars == <<memo, height, active, inVoter, outVoter, errataVoter, slash, ledger, msg>>

\* classes of memos
IsInbound  == memo \in {"swap", "add"}
IsOutbound == memo \in {"outbound", "fakegas"}
IsInternal == memo \in {"migrate", "consolidate"}

\* sender and recipient are the same address
SelfTransfer == memo = "consolidate"

\* the vaults the two voters' observations name
InVault == "to"
OutVault == IF SelfTransfer THEN "to" ELSE "from"

NoObs == [coins |-> 0, gas |-> 0, blockHeight |-> 0, finaliseHeight |-> 0]

NewErrataVoter == [signers |-> {}, blockHeight |-> 0]

\* what an errata message that fails restores
Undos == [errataVoter : ErrataVoters, slash : [Nodes -> Nat]]
NoUndo == [errataVoter |-> NewErrataVoter, slash |-> [n \in Nodes |-> 0]]

Msgs == [kind : {"none", "in", "out", "errata"}, obs : Observation,
         todo : SUBSET Nodes, slashDup : BOOLEAN, crossed : BOOLEAN, undo : Undos]

Idle == [kind |-> "none", obs |-> NoObs, todo |-> {}, slashDup |-> FALSE,
         crossed |-> FALSE, undo |-> NoUndo]

Init ==
  /\ memo \in Memos
  /\ height = 1
  /\ active \in ActiveSets
  /\ inVoter = NewVoter
  /\ outVoter = NewVoter
  /\ errataVoter = NewErrataVoter
  /\ funds = [v \in Vaults |-> InitFunds]
  /\ status \in Statuses
  /\ slash = [n \in Nodes |-> InitSlash]
  /\ gasMgr = 0
  /\ bondSlash = 0
  /\ pool = InitPool
  /\ outcome = "none"
  /\ dispatches = 0
  /\ msg = Idle

-----------------------------------------------------------------------------
(***************************************************************************)
(* Helpers                                                                 *)
(***************************************************************************)

\* mutant: no clamp
PlainSub(a, b) == a - b

SafeSub(a, b) == IF a < b THEN 0 ELSE a - b

AddFunds(f, v, amount) == [f EXCEPT ![v] = @ + amount]
SubFunds(f, v, amount) == [f EXCEPT ![v] = SafeSub(@, amount)]

Charged(n) == IncSlashPoints(slash, ObserveSlashPoints, {n})

\* the signers of the consensus tx get their points back, the other active
\* nodes pay for not observing
Settled(s, signers) ==
  IncSlashPoints(DecSlashPoints(s, ObserveSlashPoints, signers),
                 LackOfObservationPenalty, active \ signers)

\* a signer that is only a bit late gets everything back
LateRefund(s, n) ==
  DecSlashPoints(s, ObserveSlashPoints + LackOfObservationPenalty, {n})

\* mutant: consensus that was acted on counts again
ReachesFinalAgain(v) == HasFinalised(v, active)

\* v is the voter with the attestation of obs by n already added
ReachesFinal(v) == HasFinalised(v, active) /\ v.finalisedHeight = 0

ReachesUnfinal(v) == /\ ~HasFinalised(v, active)
                     /\ HasConsensus(v, active)
                     /\ ~IsFinal(msg.obs)
                     /\ v.finalisedHeight = 0
                     /\ v.height = 0

InTime(v) ==
  \/ /\ HasFinalised(v, active)
     /\ v.finalisedHeight # 0
     /\ height <= v.finalisedHeight + ObserveFlex
  \/ /\ ~HasFinalised(v, active)
     /\ HasConsensus(v, active)
     /\ ~IsFinal(msg.obs)
     /\ v.finalisedHeight = 0
     /\ v.height # 0
     /\ height <= v.height + ObserveFlex

IsLate(v, n) == /\ InTime(v)
                /\ IsFinal(v.tx) = IsFinal(msg.obs)
                /\ EqualsEx(v.tx, msg.obs)
                /\ n \notin v.tx.signers

Unfinalised(v) ==
  [v EXCEPT !.height = height,
            !.unfinalizedHeight = IF @ = 0 THEN height ELSE @,
            !.tx = GetTx(v, active)]

Finalised(v) == [Unfinalised(v) EXCEPT !.finalisedHeight = height]

\* An outbound keeps the height at which its actions were taken.
FinalisedOut(v) ==
  [Finalised(v) EXCEPT !.height = IF v.height = 0 THEN height ELSE v.height]

LateSigned(v, n) == [v EXCEPT !.tx.signers = @ \cup {n}]

Attested(n, crosses) ==
  msg' = [msg EXCEPT !.todo = @ \ {n}, !.crossed = @ \/ crosses]

-----------------------------------------------------------------------------
(***************************************************************************)
(* Delivery of a message.  A MsgObservedTxIn/Out or MsgErrataTx has one    *)
(* attester, who is slashed for a duplicate; a quorum message has a set of *)
(* attestations, from which those of inactive nodes are dropped.           *)
(***************************************************************************)

Deliver(kind, o, S, single, undo) ==
  /\ msg = Idle
  /\ single => \A n \in S : slash[n] <= MaxSlash
  /\ msg' = [kind |-> kind, obs |-> o, todo |-> S, slashDup |-> single,
             crossed |-> FALSE, undo |-> undo]
  /\ UNCHANGED <<memo, height, active, inVoter, outVoter, errataVoter, slash, ledger>>

DeliverMsg(S, single) ==
  \/ \E o \in InObs[memo] : Deliver("in", o, S, single, NoUndo)
  \/ \E o \in OutObs[memo] : Deliver("out", o, S, single, NoUndo)
  \/ Deliver("errata", NoObs, S, single,
             [errataVoter |-> errataVoter, slash |-> slash])

DeliverSingle == \E n \in active : DeliverMsg({n}, TRUE)

DeliverQuorum == \E S \in SUBSET active :
  Cardinality(S) \in QuorumSizes /\ DeliverMsg(S, FALSE)

-----------------------------------------------------------------------------
(***************************************************************************)
(* processTxInAttestation                                                  *)
(***************************************************************************)

\* a duplicate costs points only in a message of its own
DuplicateSlash(n) ==
  slash' = IF msg.slashDup THEN Charged(n)
           ELSE DecSlashPoints(Charged(n), ObserveSlashPoints, {n})

InDuplicate(n) ==
  /\ HasVoted(inVoter, msg.obs, n)
  /\ DuplicateSlash(n)
  /\ Attested(n, FALSE)
  /\ UNCHANGED inVoter

InFinal(n) ==
  LET v == Add(inVoter, msg.obs, n) IN
  /\ ~HasVoted(inVoter, msg.obs, n)
  /\ ReachesFinal(v)
  /\ inVoter' = Finalised(v)
  /\ slash' = Settled(Charged(n), GetConsensusSigners(inVoter'))
  /\ Attested(n, TRUE)

InUnfinal(n) ==
  LET v == Add(inVoter, msg.obs, n) IN
  /\ ~HasVoted(inVoter, msg.obs, n)
  /\ ReachesUnfinal(v)
  /\ inVoter' = Unfinalised(v)
  /\ slash' = Settled(Charged(n), GetConsensusSigners(inVoter'))
  /\ Attested(n, TRUE)

InLate(n) ==
  LET v == Add(inVoter, msg.obs, n) IN
  /\ ~HasVoted(inVoter, msg.obs, n)
  /\ IsLate(v, n)
  /\ inVoter' = LateSigned(v, n)
  /\ slash' = LateRefund(Charged(n), n)
  /\ Attested(n, FALSE)

InRecorded(n) ==
  LET v == Add(inVoter, msg.obs, n) IN
  /\ ~HasVoted(inVoter, msg.obs, n)
  /\ ~ReachesFinal(v) /\ ~ReachesUnfinal(v) /\ ~IsLate(v, n)
  /\ inVoter' = v
  /\ slash' = Charged(n)
  /\ Attested(n, FALSE)

AttestIn == \E n \in msg.todo :
  /\ msg.kind = "in"
  /\ \/ InDuplicate(n) \/ InFinal(n) \/ InUnfinal(n)
     \/ InLate(n) \/ InRecorded(n)
  /\ UNCHANGED <<memo, height, active, outVoter, errataVoter, ledger>>

-----------------------------------------------------------------------------
(***************************************************************************)
(* handleObservedTxInQuorum                                                *)
(***************************************************************************)

HandlingIn == msg.kind = "in" /\ msg.todo = {}

InFinalised == HasFinalised(inVoter, active)

CreditDue == (InFinalised \/ memo = "migrate") /\ ~inVoter.updatedVault

\* A migration is credited as soon as it is agreed on, everything else when
\* it is final; the voter's updatedVault flag makes it happen once.
CreditVault ==
  /\ inVoter' = [inVoter EXCEPT !.updatedVault = @ \/ CreditDue]
  /\ funds' = IF CreditDue /\ ~SelfTransfer
              THEN AddFunds(funds, InVault, msg.obs.coins)
              ELSE funds

HandleInIgnored ==
  /\ HandlingIn
  /\ ~msg.crossed \/ inVoter.reverted
  /\ msg' = Idle
  /\ UNCHANGED <<memo, height, active, inVoter, outVoter, errataVoter, slash, ledger>>

HandleInCredited ==
  /\ HandlingIn /\ msg.crossed /\ ~inVoter.reverted
  /\ IsInternal \/ IsOutbound \/ ~InFinalised
  /\ CreditVault
  /\ msg' = Idle
  /\ UNCHANGED <<memo, height, active, outVoter, errataVoter, slash, status, gasMgr,
                 bondSlash, pool, outcome, dispatches>>

\* mutants of Dispatch: of a reverted transaction, or without new consensus
DispatchReverted(result) ==
  /\ HandlingIn /\ msg.crossed
  /\ ~(IsInternal \/ IsOutbound) /\ InFinalised
  /\ CreditVault
  /\ outcome' = result
  /\ dispatches' = dispatches + 1
  /\ msg' = Idle
  /\ UNCHANGED <<memo, height, active, outVoter, errataVoter, slash, status, gasMgr,
                 bondSlash>>

DispatchAlways(result) ==
  /\ HandlingIn /\ ~inVoter.reverted
  /\ ~(IsInternal \/ IsOutbound) /\ InFinalised
  /\ CreditVault
  /\ outcome' = result
  /\ dispatches' = dispatches + 1
  /\ msg' = Idle
  /\ UNCHANGED <<memo, height, active, outVoter, errataVoter, slash, status, gasMgr,
                 bondSlash>>

\* refund because of an inactive vault, a bad memo, halted trading or an
\* error of the swap queue or of the handler; the refund itself can fail
Dispatch(result) ==
  /\ HandlingIn /\ msg.crossed /\ ~inVoter.reverted
  /\ ~(IsInternal \/ IsOutbound) /\ InFinalised
  /\ CreditVault
  /\ outcome' = result
  /\ dispatches' = dispatches + 1
  /\ msg' = Idle
  /\ UNCHANGED <<memo, height, active, outVoter, errataVoter, slash, status, gasMgr,
                 bondSlash>>

HandleInRefund ==
  /\ \E r \in {"refunded", "refundFailed"} : Dispatch(r)
  /\ UNCHANGED pool

HandleInSwap ==
  /\ memo = "swap" /\ status[InVault] # "Inactive"
  /\ Dispatch("queued")
  /\ UNCHANGED pool

\* a handler that takes the funds at once (add liquidity)
HandleInAdd ==
  /\ memo = "add" /\ status[InVault] # "Inactive"
  /\ Dispatch("handled")
  /\ pool' = pool + inVoter.tx.coins

HandleIn == HandleInIgnored \/ HandleInCredited \/ HandleInRefund
            \/ HandleInSwap \/ HandleInAdd

\* The end of a block runs the queued swap, which moves its coins into the
\* pool or fails and is refunded.
RunSwapQueue ==
  /\ msg = Idle
  /\ outcome = "queued"
  /\ \/ outcome' = "swapped" /\ pool' = pool + inVoter.tx.coins
     \/ outcome' \in {"refunded", "refundFailed"} /\ UNCHANGED pool
  /\ UNCHANGED <<memo, height, active, inVoter, outVoter, errataVoter, slash, funds,
                 status, gasMgr, bondSlash, dispatches, msg>>

-----------------------------------------------------------------------------
(***************************************************************************)
(* processTxOutAttestation.  An outbound acts at the first consensus, final*)
(* or not; a later super majority on other gas corrects the vault.         *)
(***************************************************************************)

CorrectsGas(v) ==
  /\ \/ HasFinalised(v, active) /\ v.finalisedHeight > 0
        /\ IsFinal(v.tx) = IsFinal(msg.obs)
     \/ ~HasFinalised(v, active) /\ HasConsensus(v, active)
        /\ ~IsFinal(msg.obs) /\ v.finalisedHeight = 0 /\ v.height > 0
  /\ v.tx.gas # msg.obs.gas
  /\ EqualsExIgnoreGas(v.tx, msg.obs)
  /\ Agreed(v, msg.obs, IsFinal(msg.obs), active)

\* mutant: gas that turns out lower is not given back
CorrectGasUp(v) ==
  LET old == v.tx.gas
      new == msg.obs.gas
  IN  /\ outVoter' = IF CorrectsGas(v) THEN [v EXCEPT !.tx.gas = new] ELSE v
      /\ funds' = IF CorrectsGas(v) /\ new > old THEN SubFunds(funds, OutVault, new - old)
                  ELSE funds
      /\ gasMgr' = IF /\ CorrectsGas(v) /\ new > old
                      /\ status[OutVault] # "Inactive"
                   THEN gasMgr + (new - old) ELSE gasMgr

\* v is the voter after the attestation; what follows is the gas correction
CorrectGas(v) ==
  LET old == v.tx.gas
      new == msg.obs.gas
  IN  /\ outVoter' = IF CorrectsGas(v) THEN [v EXCEPT !.tx.gas = new] ELSE v
      /\ funds' = IF ~CorrectsGas(v) THEN funds
                  ELSE IF new > old THEN SubFunds(funds, OutVault, new - old)
                  ELSE AddFunds(funds, OutVault, old - new)
      /\ gasMgr' = IF /\ CorrectsGas(v) /\ new > old
                      /\ status[OutVault] # "Inactive"
                   THEN gasMgr + (new - old) ELSE gasMgr

OutDuplicate(n) ==
  /\ HasVoted(outVoter, msg.obs, n)
  /\ DuplicateSlash(n)
  /\ Attested(n, FALSE)
  /\ UNCHANGED <<outVoter, funds, gasMgr>>

OutFinal(n) ==
  LET v == Add(outVoter, msg.obs, n) IN
  /\ ~HasVoted(outVoter, msg.obs, n)
  /\ ReachesFinal(v)
  /\ CorrectGas(FinalisedOut(v))
  /\ slash' = Settled(Charged(n), GetConsensusSigners(FinalisedOut(v)))
  /\ Attested(n, outVoter.height = 0)

OutUnfinal(n) ==
  LET v == Add(outVoter, msg.obs, n) IN
  /\ ~HasVoted(outVoter, msg.obs, n)
  /\ ReachesUnfinal(v)
  /\ CorrectGas(Unfinalised(v))
  /\ slash' = Settled(Charged(n), GetConsensusSigners(Unfinalised(v)))
  /\ Attested(n, TRUE)

OutLate(n) ==
  LET v == Add(outVoter, msg.obs, n) IN
  /\ ~HasVoted(outVoter, msg.obs, n)
  /\ IsLate(v, n)
  /\ CorrectGas(LateSigned(v, n))
  /\ slash' = LateRefund(Charged(n), n)
  /\ Attested(n, FALSE)

OutRecorded(n) ==
  LET v == Add(outVoter, msg.obs, n) IN
  /\ ~HasVoted(outVoter, msg.obs, n)
  /\ ~ReachesFinal(v) /\ ~ReachesUnfinal(v) /\ ~IsLate(v, n)
  /\ CorrectGas(v)
  /\ slash' = Charged(n)
  /\ Attested(n, FALSE)

AttestOut == \E n \in msg.todo :
  /\ msg.kind = "out"
  /\ \/ OutDuplicate(n) \/ OutFinal(n) \/ OutUnfinal(n)
     \/ OutLate(n) \/ OutRecorded(n)
  /\ UNCHANGED <<memo, height, active, inVoter, errataVoter, status, bondSlash, pool,
                 outcome, dispatches>>

-----------------------------------------------------------------------------
(***************************************************************************)
(* handleObservedTxOutQuorum                                               *)
(***************************************************************************)

HandlingOut == msg.kind = "out" /\ msg.todo = {}

HandleOutIgnored ==
  /\ HandlingOut /\ ~msg.crossed
  /\ msg' = Idle
  /\ UNCHANGED <<memo, height, active, inVoter, outVoter, errataVoter, slash, ledger>>

\* addGasFees: the vault pays; the reserve reimburses unless it is inactive
GasReimbursed == IF status[OutVault] = "Inactive" THEN gasMgr
                 ELSE gasMgr + msg.obs.gas

\* cancel and approval transactions only cost gas
HandleOutCancel ==
  /\ HandlingOut /\ msg.crossed /\ memo = "cancel"
  /\ funds' = SubFunds(funds, OutVault, msg.obs.gas)
  /\ gasMgr' = GasReimbursed
  /\ msg' = Idle
  /\ UNCHANGED <<memo, height, active, inVoter, outVoter, errataVoter, slash, status,
                 bondSlash, pool, outcome, dispatches>>

\* an inbound memo on an outbound: the vault sent funds nobody asked for
HandleOutUnexpected ==
  /\ HandlingOut /\ msg.crossed /\ IsInbound
  /\ funds' = SubFunds(funds, OutVault, msg.obs.coins + msg.obs.gas)
  /\ bondSlash' = bondSlash + msg.obs.coins + msg.obs.gas
  /\ msg' = Idle
  /\ UNCHANGED <<memo, height, active, inVoter, outVoter, errataVoter, slash, status,
                 gasMgr, pool, outcome, dispatches>>

CoinsOut == IF SelfTransfer \/ memo = "fakegas" THEN 0 ELSE msg.obs.coins

FundsAfterOut ==
  SubFunds(SubFunds(funds, OutVault, msg.obs.gas), OutVault, CoinsOut)

\* The accounting happens whatever the handler of the outbound does: the
\* transaction is irrevocable.  The handler may slash the vault (slashed).
HandleOutDone ==
  /\ HandlingOut /\ msg.crossed /\ (IsOutbound \/ IsInternal)
  /\ \E slashed \in BOOLEAN :
       /\ gasMgr' = IF slashed THEN gasMgr ELSE GasReimbursed
       /\ bondSlash' = IF slashed THEN bondSlash + msg.obs.coins + msg.obs.gas
                       ELSE bondSlash
  /\ funds' = FundsAfterOut
  /\ status' = [status EXCEPT ![OutVault] =
                  IF FundsAfterOut[OutVault] = 0 /\ @ = "Retiring"
                  THEN "Inactive" ELSE @]
  /\ msg' = Idle
  /\ UNCHANGED <<memo, height, active, inVoter, outVoter, errataVoter, slash, pool,
                 outcome, dispatches>>

HandleOut == HandleOutIgnored \/ HandleOutCancel \/ HandleOutUnexpected
             \/ HandleOutDone

-----------------------------------------------------------------------------
(***************************************************************************)
(* processErrataTxAttestation                                              *)
(***************************************************************************)

ErrataSigned(n) == [errataVoter EXCEPT !.signers = @ \cup {n}]

ErrataConsensus(signers) ==
  HasSuperMajority(Cardinality(signers \cap active), Cardinality(active))

ErrataDuplicate(n) ==
  /\ n \in errataVoter.signers
  /\ slash' = IF msg.slashDup THEN Charged(n) ELSE slash
  /\ Attested(n, FALSE)
  /\ UNCHANGED <<errataVoter, inVoter, outVoter, ledger>>

ErrataPending(n) ==
  /\ n \notin errataVoter.signers
  /\ ~ErrataConsensus(errataVoter.signers \cup {n})
  /\ errataVoter' = ErrataSigned(n)
  /\ slash' = Charged(n)
  /\ Attested(n, FALSE)
  /\ UNCHANGED <<inVoter, outVoter, ledger>>

ErrataLate(n) ==
  /\ n \notin errataVoter.signers
  /\ ErrataConsensus(errataVoter.signers \cup {n})
  /\ errataVoter.blockHeight > 0
  /\ errataVoter' = ErrataSigned(n)
  /\ slash' = IF errataVoter.blockHeight + ObserveFlex >= height
              THEN DecSlashPoints(slash, LackOfObservationPenalty, {n})
              ELSE slash
  /\ Attested(n, FALSE)
  /\ UNCHANGED <<inVoter, outVoter, ledger>>

\* the attestation that brings the errata to consensus
ErrataCrosses(n) ==
  /\ n \notin errataVoter.signers
  /\ ErrataConsensus(errataVoter.signers \cup {n})
  /\ errataVoter.blockHeight = 0

ErrataAgreed(n) ==
  /\ errataVoter' = [ErrataSigned(n) EXCEPT !.blockHeight = height]
  /\ slash' = Settled(Charged(n), errataVoter.signers \cup {n})
  /\ Attested(n, TRUE)

\* processErrataOutboundTx returns an error ...
OutboundErrataFails ==
  \/ outVoter.txs = <<>>
  \/ IsEmpty(outVoter.tx)
  \/ ~(IsOutbound \/ IsInternal)

\* ... or credits the funds back and marks the outbound reverted.
OutboundErrata(f) ==
  /\ funds' = AddFunds(f, OutVault, outVoter.tx.coins)
  /\ outVoter' = [outVoter EXCEPT !.reverted = TRUE]

\* what errata of the inbound goes through to the outbound: a transaction
\* observed only as outbound, or the outbound half of an internal one
ToOutbound == \/ inVoter.txs = <<>>
              \/ /\ ~IsEmpty(inVoter.tx) /\ IsFinal(inVoter.tx)
                 /\ IsInternal

\* an error undoes the whole message
ErrataFails(n) ==
  /\ ErrataCrosses(n)
  /\ ToOutbound /\ OutboundErrataFails
  /\ errataVoter' = msg.undo.errataVoter
  /\ slash' = msg.undo.slash
  /\ msg' = Idle
  /\ UNCHANGED <<inVoter, outVoter, ledger>>

ErrataOutboundOnly(n) ==
  /\ ErrataCrosses(n)
  /\ inVoter.txs = <<>> /\ ~OutboundErrataFails
  /\ ErrataAgreed(n)
  /\ OutboundErrata(funds)
  /\ UNCHANGED <<inVoter, status, gasMgr, bondSlash, pool, outcome, dispatches>>

\* The inbound is observed but not agreed on: nothing is done.
ErrataTooEarly(n) ==
  /\ ErrataCrosses(n)
  /\ inVoter.txs # <<>> /\ IsEmpty(inVoter.tx)
  /\ ErrataAgreed(n)
  /\ UNCHANGED <<inVoter, outVoter, ledger>>

\* mutant: whether the vault was credited or not
FundsTakenBackAlways == SubFunds(funds, InVault, inVoter.tx.coins)

FundsTakenBack == IF inVoter.updatedVault
                  THEN SubFunds(funds, InVault, inVoter.tx.coins)
                  ELSE funds

\* mutant: SetReverted is not called
NotReverted == UNCHANGED inVoter

InReverted == inVoter' = [inVoter EXCEPT !.reverted = TRUE]

ErrataUnfinal(n) ==
  /\ ErrataCrosses(n)
  /\ ~IsEmpty(inVoter.tx) /\ ~IsFinal(inVoter.tx)
  /\ ErrataAgreed(n)
  /\ InReverted
  /\ funds' = FundsTakenBack
  /\ UNCHANGED <<outVoter, status, gasMgr, bondSlash, pool, outcome, dispatches>>

\* mutant: only the inbound half
ErrataInternalInOnly(n) ==
  /\ ErrataCrosses(n)
  /\ ~IsEmpty(inVoter.tx) /\ IsFinal(inVoter.tx) /\ IsInternal
  /\ ~OutboundErrataFails
  /\ ErrataAgreed(n)
  /\ InReverted
  /\ funds' = FundsTakenBack
  /\ UNCHANGED <<outVoter, status, gasMgr, bondSlash, pool, outcome, dispatches>>

ErrataInternal(n) ==
  /\ ErrataCrosses(n)
  /\ ~IsEmpty(inVoter.tx) /\ IsFinal(inVoter.tx) /\ IsInternal
  /\ ~OutboundErrataFails
  /\ ErrataAgreed(n)
  /\ InReverted
  /\ OutboundErrata(FundsTakenBack)
  /\ UNCHANGED <<status, gasMgr, bondSlash, pool, outcome, dispatches>>

ErrataFinal(n) ==
  /\ ErrataCrosses(n)
  /\ ~IsEmpty(inVoter.tx) /\ IsFinal(inVoter.tx) /\ ~IsInternal
  /\ ErrataAgreed(n)
  /\ InReverted
  /\ funds' = FundsTakenBack
  /\ pool' = IF IsInbound THEN SafeSub(pool, inVoter.tx.coins) ELSE pool
  /\ UNCHANGED <<outVoter, status, gasMgr, bondSlash, outcome, dispatches>>

AttestErrata == \E n \in msg.todo :
  /\ msg.kind = "errata"
  /\ \/ ErrataDuplicate(n) \/ ErrataPending(n) \/ ErrataLate(n)
     \/ ErrataFails(n) \/ ErrataOutboundOnly(n) \/ ErrataTooEarly(n)
     \/ ErrataUnfinal(n) \/ ErrataInternal(n) \/ ErrataFinal(n)
  /\ UNCHANGED <<memo, height, active>>

ErrataDone ==
  /\ msg.kind = "errata" /\ msg.todo = {}
  /\ msg' = Idle
  /\ UNCHANGED <<memo, height, active, inVoter, outVoter, errataVoter, slash, ledger>>

-----------------------------------------------------------------------------
(***************************************************************************)
(* Time and churn, between messages                                        *)
(***************************************************************************)

NextBlock ==
  /\ msg = Idle
  /\ height < MaxHeight
  /\ height' = height + 1
  /\ UNCHANGED <<memo, active, inVoter, outVoter, errataVoter, slash, ledger, msg>>

\* nodes that join start without slash points
Churn ==
  /\ msg = Idle
  /\ active' \in ActiveSets \ {active}
  /\ slash' = [n \in Nodes |-> IF n \in active' \ active THEN 0 ELSE slash[n]]
  /\ UNCHANGED <<memo, height, inVoter, outVoter, errataVoter, ledger, msg>>

Next == \/ DeliverSingle \/ DeliverQuorum
        \/ AttestIn \/ HandleIn \/ RunSwapQueue
        \/ AttestOut \/ HandleOut
        \/ AttestErrata \/ ErrataDone
        \/ NextBlock \/ Churn

Spec == Init /\ [][Next]_vars

-----------------------------------------------------------------------------
(***************************************************************************)
(* Properties                                                              *)
(***************************************************************************)

\* Every variable has its type, the voters' entry lists included.
TypeOK ==
  /\ memo \in Memos
  /\ height \in Nat \ {0}
  /\ active \in ActiveSets
  /\ inVoter \in Voters
  /\ outVoter \in Voters
  /\ errataVoter \in ErrataVoters
  /\ funds \in [Vaults -> Nat]
  /\ status \in [Vaults -> VaultStatus]
  /\ slash \in [Nodes -> Nat]
  /\ gasMgr \in Nat /\ bondSlash \in Nat /\ pool \in Nat
  /\ outcome \in Outcomes /\ dispatches \in Nat
  /\ msg \in Msgs

\* Premises the properties are stated under: all observations carry the same
\* coins, all outbound observations the same gas, all are final, no churn.
SameCoins == \A o, p \in InObs[memo] \cup OutObs[memo] : o.coins = p.coins
SameGas   == \A o, p \in OutObs[memo] : o.gas = p.gas
AllFinal  == \A o \in OutObs[memo] : IsFinal(o)
Stable    == \A S, T \in ActiveSets : S = T

\* Contents and finality of an observation determine the external height.
OneHeight == \A o, p \in InObs[memo] \cup OutObs[memo] :
  EqualsEx(o, p) /\ IsFinal(o) = IsFinal(p) => o = p

\* The vault's balance is exactly what the inbound voter says: credited once,
\* with the coins of the consensus tx, and taken back once if an errata
\* reverted it; a reverted tx that was not credited never is
\* (handleObservedTxInQuorum, processErrataTxAttestation).
InboundBooked ==
  ~SelfTransfer /\ (SameCoins \/ (Stable /\ memo # "migrate")) =>
    funds[InVault] = InitFunds +
      (IF inVoter.updatedVault /\ ~inVoter.reverted THEN inVoter.tx.coins ELSE 0)

\* the outbound's crossing message has been handled
OutHandled == outVoter.height # 0 /\ ~(msg.kind = "out" /\ msg.crossed)

OutboundCoins ==
  IF OutHandled /\ ~outVoter.reverted /\ memo # "cancel"
  THEN outVoter.tx.coins ELSE 0

OutboundGas == IF OutHandled THEN outVoter.tx.gas ELSE 0

\* The sending vault paid, once, the coins and the gas of the consensus tx,
\* and an errata gave the coins back once (handleObservedTxOutQuorum,
\* correctOutboundGas, processErrataOutboundTx).
OutboundBooked ==
  /\ memo \notin {"consolidate", "fakegas"}
  /\ SameCoins
  /\ SameGas \/ (AllFinal /\ Stable)
  /\ \A o \in OutObs[memo] : InitFunds >= o.coins + o.gas
  => funds[OutVault] = InitFunds - OutboundCoins - OutboundGas

\* An inbound is dispatched (queued, handled or refunded) at most once, only
\* after its final consensus and together with the credit of its vault.
DispatchedOnce ==
  /\ dispatches <= 1
  /\ (dispatches = 1) <=> (outcome # "none")
  /\ outcome # "none" => inVoter.finalisedHeight # 0 /\ inVoter.updatedVault

\* A reverted transaction is dead: no credit, no dispatch, no more changes of
\* the receiving vault, whatever observations or churns follow.
RevertedIsFinal ==
  [][inVoter.reverted =>
       /\ inVoter'.reverted
       /\ inVoter'.updatedVault = inVoter.updatedVault
       /\ dispatches' = dispatches
       /\ InVault # OutVault => funds'[InVault] = funds[InVault]]_vars

\* Final consensus is irrevocable: later votes, also of another set of
\* validators, change neither the contents agreed on nor the height.
FinalIsFinal ==
  [][inVoter.finalisedHeight # 0 =>
       /\ EqualsEx(inVoter'.tx, inVoter.tx) /\ IsFinal(inVoter'.tx)
       /\ inVoter'.finalisedHeight = inVoter.finalisedHeight
       /\ inVoter'.height = inVoter.height]_vars

\* Behind a consensus tx, corrected gas included, stands a super majority of
\* the (unchanged) active validators.
ConsensusHasMajority ==
  Stable => \A v \in {inVoter, outVoter} :
    ~IsEmpty(v.tx) => Agreed(v, v.tx, IsFinal(v.tx), active)

\* Both halves of a migration are taken back together: when errata reverts
\* the inbound half, the outbound half that was booked in an earlier block is
\* reverted too ("vault balances are reverted").
MigrationTakenBack ==
  memo = "migrate" /\ inVoter.reverted /\ outVoter.height # 0
  /\ outVoter.height < errataVoter.blockHeight => outVoter.reverted

\* No node ends with fewer slash points than it started with: what is taken
\* off was put on before (processTxInAttestation, processTxOutAttestation).
NoNetReward ==
  Stable /\ OneHeight => \A n \in Nodes : slash[n] >= InitSlash

-----------------------------------------------------------------------------
(***************************************************************************)
(* The inbound side implements InboundLedger when all nodes see the same   *)
(* coins.                                                                  *)
(***************************************************************************)

LedgerPhase ==
  IF inVoter.updatedVault
  THEN IF inVoter.reverted THEN "takenBack" ELSE "credited"
  ELSE IF inVoter.reverted THEN "void" ELSE "open"

Ledger == INSTANCE InboundLedger WITH
  Amounts <- {o.coins : o \in UNION {InObs[m] : m \in Memos}},
  InitBalance <- InitFunds,
  phase <- LedgerPhase,
  amount <- IF inVoter.updatedVault THEN inVoter.tx.coins ELSE 0,
  balance <- funds[InVault],
  dispatched <- dispatches

\* The votes, quorum messages, late attestations, errata and churns around an
\* inbound amount to one step of credit and one of taking it back
\* (handleObservedTxInQuorum, processErrataTxAttestation).
ImplementsLedger == Ledger!Spec

=============================================================================
