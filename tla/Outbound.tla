------------------------------ MODULE Outbound ------------------------------
(***************************************************************************)
(* What the chain promises to pay and how it follows it up: the TxOut      *)
(* items of one finalised inbound transaction, the slasher's LackSigning,  *)
(* which replaces the items nobody was seen to pay, and the outbound       *)
(* handler, which matches an observed payment with an item or charges the  *)
(* vault for it.  The vaults' signers and the external chain are           *)
(* asynchronous: a payment can be signed while its item is open, broadcast *)
(* long after the item was replaced, and observed node by node.            *)
(*                                                                         *)
(* An action is one entry of the inbound voter's Actions: a coin, an       *)
(* address and a memo of its own.  The signers' cache lets a vault pay an  *)
(* action once, whatever the height of the item, so the payment of action  *)
(* a by vault v is the pair <<a, v>>.  Amounts, gas, clout and the choice  *)
(* among the vaults with enough funds are left out.                        *)
(***************************************************************************)
EXTENDS ObservedTxVoter

CONSTANTS
  Vaults,
  Members,                  \* the node accounts that hold a vault's key shares
  Actions,
  Asset,                    \* the asset of an action's coin
  FirstVault,               \* the vault TryAddTxOutItem chose for an action
  SigningTransactionPeriod, \* the configured value, which LackSigning reads
  ConstantPeriod,           \* the compiled-in value, which the handler reads
  RescheduleCoalesceBlocks,
  MaxOutboundAttempts,
  MaxRetiredVaultRecoveryAttempts,
  MaxHeight,                \* bound on the block height
  MaxEvents                 \* bound on vault and pool changes

ASSUME OutboundAssumption ==
  /\ IsFiniteSet(Vaults) /\ Vaults # {}
  /\ IsFiniteSet(Actions) /\ Actions # {}
  /\ Members \in [Vaults -> SUBSET Nodes]
  /\ FirstVault \in [Actions -> Vaults]
  /\ DOMAIN Asset = Actions
  /\ SigningTransactionPeriod \in Nat \ {0}
  /\ ConstantPeriod \in Nat \ {0}
  /\ RescheduleCoalesceBlocks \in Nat
  /\ MaxOutboundAttempts \in Nat
  /\ MaxRetiredVaultRecoveryAttempts \in Nat
  /\ MaxHeight \in Nat \ {0} /\ MaxEvents \in Nat

Payments == Actions \X Vaults

Empty == <<>>               \* no OutHash yet
Blank == <<"blank">>        \* common.BlankTxID

TxOutItems == [action : Actions, vault : Vaults, height : Nat,
               outHash : {Empty, Blank} \cup Payments]

VARIABLES
  height,       \* the block being processed
  txOut,        \* the TxOut records of all heights, as one set of items
  outTxs,       \* voter.OutTxs of the inbound transaction, in order
  links,        \* GetObservedLink: the observed outbounds, in order
  observers,    \* the signers of the outbound voter of each payment
  finalised,    \* the payments whose voter has a FinalisedHeight
  signed,       \* payments a vault has signed
  broadcast,    \* payments the external chain has
  slashed,      \* payments a vault was charged for
  recovered,    \* actions turned into a reverse swap or sent to the treasury
  status,       \* the vaults' status
  frozen,       \* vaults frozen on the chain of the outbounds
  pools,        \* assets with a pool
  events        \* vault and pool changes so far

vars == <<height, txOut, outTxs, links, observers, finalised, signed,
          broadcast, slashed, recovered, status, frozen, pools, events>>

Init ==
  /\ height = 1
  /\ txOut = {[action |-> a, vault |-> FirstVault[a], height |-> 1, outHash |-> Empty] :
                a \in Actions}
  /\ outTxs = <<>>
  /\ links = <<>>
  /\ observers = [p \in Payments |-> {}]
  /\ finalised = {}
  /\ signed = {}
  /\ broadcast = {}
  /\ slashed = {}
  /\ recovered = {}
  /\ status = [v \in Vaults |-> "active"]
  /\ frozen = {}
  /\ pools = {Asset[a] : a \in Actions}
  /\ events = 0

Open == {t \in txOut : t.outHash = Empty}

\* The voter of the inbound transaction was finalised at this height.
FinalisedHeight == 0

RoundUp(h) ==
  IF RescheduleCoalesceBlocks > 1 /\ h % RescheduleCoalesceBlocks # 0
  THEN h + RescheduleCoalesceBlocks - (h % RescheduleCoalesceBlocks)
  ELSE h

-----------------------------------------------------------------------------
(* The vaults and the external chain                                       *)

\* A signer signs an item of a committed block while it is fresh and thornode
\* still shows it without an OutHash.
Sign(t) ==
  /\ t.height < height
  /\ height - t.height <= SigningTransactionPeriod
  /\ <<t.action, t.vault>> \notin signed
  /\ signed' = signed \cup {<<t.action, t.vault>>}
  /\ UNCHANGED <<height, txOut, outTxs, links, observers, finalised,
                 broadcast, slashed, recovered, status, frozen, pools, events>>

\* What is signed is broadcast, at any later time.
Broadcast(p) ==
  /\ p \in signed \ broadcast
  /\ broadcast' = broadcast \cup {p}
  /\ UNCHANGED <<height, txOut, outTxs, links, observers, finalised,
                 signed, slashed, recovered, status, frozen, pools, events>>

-----------------------------------------------------------------------------
(* The observation of a payment                                            *)

\* mutant: the search starts one block late
EarliestHeightLate ==
  (IF height - ConstantPeriod > FinalisedHeight THEN height - ConstantPeriod ELSE FinalisedHeight) + 1

\* The first block of the search for the item of a payment; the voter's own
\* height comes before it only in the first period.
EarliestHeight ==
  IF height - ConstantPeriod > FinalisedHeight THEN height - ConstantPeriod ELSE FinalisedHeight

\* The open items a payment can settle.
Matching(p) ==
  {t \in Open : /\ t.action = p[1]
                /\ t.vault = p[2]
                /\ EarliestHeight <= t.height
                /\ t.height <= RoundUp(height)}

\* mutant: the vault is not charged if its late payment is the first one seen
CommonOutboundFirstFree(p) ==
  /\ outTxs' = Append(outTxs, p)
  /\ IF Matching(p) = {}
     THEN /\ slashed' = IF outTxs = <<>> THEN slashed ELSE slashed \cup {p}
          /\ txOut' = txOut
     ELSE \E t \in Matching(p) :
            /\ \A u \in Matching(p) : u.height <= t.height
            /\ txOut' = (txOut \ {t}) \cup {[t EXCEPT !.outHash = p]}
            /\ slashed' = slashed

\* The outbound handler: the latest item that matches gets the hash of the
\* payment; without one the vault is charged.
CommonOutbound(p) ==
  /\ outTxs' = Append(outTxs, p)
  /\ IF Matching(p) = {}
     THEN slashed' = slashed \cup {p} /\ txOut' = txOut
     ELSE \E t \in Matching(p) :
            /\ \A u \in Matching(p) : u.height <= t.height
            /\ txOut' = (txOut \ {t}) \cup {[t EXCEPT !.outHash = p]}
            /\ slashed' = slashed

\* Node n observes payment p; with a supermajority the payment is final and
\* the handler runs, once.
Observe(n, p) ==
  /\ p \in broadcast
  /\ n \notin observers[p]
  /\ observers' = [observers EXCEPT ![p] = @ \cup {n}]
  /\ links' = IF observers[p] = {} THEN Append(links, p) ELSE links
  /\ IF /\ p \notin finalised
        /\ HasSuperMajority(Cardinality(observers[p] \cup {n}), Cardinality(Nodes))
     THEN finalised' = finalised \cup {p} /\ CommonOutbound(p)
     ELSE UNCHANGED <<finalised, outTxs, txOut, slashed>>
  /\ UNCHANGED <<height, signed, broadcast, recovered, status, frozen, pools, events>>

-----------------------------------------------------------------------------
(* LackSigning, at the end of a block                                      *)

\* half of the total, rounded up
HasSimpleMajority(signers, total) ==
  LET min == (total \div 2) + (total % 2)
  IN  signers <= total /\ signers > 0 /\ signers >= min

\* The links that speak of item t: not final, from its vault and with its asset.
Related(t) == {i \in DOMAIN links : /\ links[i] \notin finalised
                                    /\ links[i][2] = t.vault
                                    /\ Asset[links[i][1]] = Asset[t.action]}

\* mutant: any observation of the vault's payment is enough to wait a period
NeedsNewVaultByAge(t) ==
  \A i \in Related(t) : FinalisedHeight + 2 * SigningTransactionPeriod < height

\* needsNewVault decides on the first related link.
NeedsNewVault(t) ==
  Related(t) # {} =>
    LET i == CHOOSE j \in Related(t) : \A k \in Related(t) : j <= k
        signers == observers[links[i]]
    IN  /\ ~ HasSimpleMajority(Cardinality(signers \cap Members[t.vault]),
                               Cardinality(Members[t.vault]))
        /\ FinalisedHeight + (Cardinality(signers) + 1) * SigningTransactionPeriod < height

Attempts == (height - FinalisedHeight) \div SigningTransactionPeriod

Due == {t \in Open : t.height = height - SigningTransactionPeriod}

Retired(t) == status[t.vault] = "inactive"

Exhausted(t) == /\ ~ Retired(t)
                /\ MaxOutboundAttempts > 0
                /\ Attempts >= MaxOutboundAttempts

\* An outbound someone has seen is in progress and is not recovered.
InProgress == outTxs # <<>> \/ links # <<>>

\* Whether the item keeps its vault: a frozen vault does, and one that
\* seems to have paid.
Stays(t) == Retired(t) \/ t.vault \in frozen \/ ~ NeedsNewVault(t)

\* The voter of the inbound counts as many outbounds as it has actions.
IsDone == Len(outTxs) >= Cardinality(Actions)

\* What LackSigning does with item t, in the order of its tests.
Recovers(t) == Exhausted(t) /\ ~ InProgress

ClosesAsDone(t) == ~ Retired(t) /\ ~ Exhausted(t) /\ ~ Stays(t) /\ IsDone

\* mutant: the item of a frozen vault is left alone
ReschedulesUnfrozen(t) ==
  IF Retired(t)
  THEN Attempts < MaxRetiredVaultRecoveryAttempts
  ELSE /\ ~ Exhausted(t) /\ ~ ClosesAsDone(t) /\ Asset[t.action] \in pools
       /\ t.vault \notin frozen

Reschedules(t) ==
  IF Retired(t)
  THEN Attempts < MaxRetiredVaultRecoveryAttempts
  ELSE ~ Exhausted(t) /\ ~ ClosesAsDone(t) /\ Asset[t.action] \in pools

ActiveVaults == {v \in Vaults : status[v] = "active"}

\* An active vault with enough funds, or the one with the most; the same
\* vault again if it is the only choice.
NewVaults(t) ==
  IF Stays(t) \/ ActiveVaults = {} THEN {t.vault} ELSE ActiveVaults

\* mutant: the items that were replaced or recovered stay open
MarkOnlyDone(t) ==
  IF ClosesAsDone(t) THEN [t EXCEPT !.outHash = outTxs[1]] ELSE t

Mark(t) ==
  IF Reschedules(t) \/ Recovers(t) THEN [t EXCEPT !.outHash = Blank]
  ELSE IF ClosesAsDone(t) THEN [t EXCEPT !.outHash = outTxs[1]]
  ELSE t

RescheduleHeight == RoundUp(height)

LackSigning ==
  \E pick \in [Due -> Vaults] :
    /\ \A t \in Due : pick[t] \in NewVaults(t)
    /\ txOut' = (txOut \ Due)
                  \cup {Mark(t) : t \in Due}
                  \cup {[action |-> t.action, vault |-> pick[t],
                         height |-> RescheduleHeight, outHash |-> Empty] :
                          t \in {u \in Due : Reschedules(u)}}
    /\ recovered' = recovered \cup {t.action : t \in {u \in Due : Recovers(u)}}

EndBlock ==
  /\ height < MaxHeight
  /\ IF height >= SigningTransactionPeriod
     THEN LackSigning
     ELSE UNCHANGED <<txOut, recovered>>
  /\ height' = height + 1
  /\ UNCHANGED <<outTxs, links, observers, finalised, signed, broadcast, slashed,
                 status, frozen, pools, events>>

-----------------------------------------------------------------------------
(* Vaults and pools change by other parts of the chain                     *)

\* A churn retires a vault as long as another one is active; a retiring vault
\* becomes inactive when it is empty.
Churn(v) ==
  /\ events < MaxEvents
  /\ \/ /\ status[v] = "active"
        /\ ActiveVaults # {v}
        /\ status' = [status EXCEPT ![v] = "retiring"]
     \/ /\ status[v] = "retiring"
        /\ status' = [status EXCEPT ![v] = "inactive"]
  /\ events' = events + 1
  /\ UNCHANGED <<height, txOut, outTxs, links, observers, finalised, signed,
                 broadcast, slashed, recovered, frozen, pools>>

Freeze(v) ==
  /\ events < MaxEvents
  /\ frozen' = IF v \in frozen THEN frozen \ {v} ELSE frozen \cup {v}
  /\ events' = events + 1
  /\ UNCHANGED <<height, txOut, outTxs, links, observers, finalised, signed,
                 broadcast, slashed, recovered, status, pools>>

PoolGone(x) ==
  /\ events < MaxEvents
  /\ pools' = pools \ {x}
  /\ events' = events + 1
  /\ UNCHANGED <<height, txOut, outTxs, links, observers, finalised, signed,
                 broadcast, slashed, recovered, status, frozen>>

Next ==
  \/ \E t \in Open : Sign(t)
  \/ \E p \in Payments : Broadcast(p)
  \/ \E n \in Nodes, p \in Payments : Observe(n, p)
  \/ EndBlock
  \/ \E v \in Vaults : Churn(v) \/ Freeze(v)
  \/ \E x \in pools : PoolGone(x)

Spec == Init /\ [][Next]_vars

-----------------------------------------------------------------------------
(* Properties                                                              *)

\* The types of the variables.
TypeOK ==
  /\ height \in 1 .. MaxHeight
  /\ txOut \subseteq TxOutItems
  /\ outTxs \in Seq(Payments)
  /\ links \in Seq(Payments)
  /\ observers \in [Payments -> SUBSET Nodes]
  /\ finalised \subseteq Payments
  /\ signed \subseteq Payments
  /\ broadcast \subseteq signed
  /\ slashed \subseteq finalised
  /\ recovered \subseteq Actions
  /\ status \in [Vaults -> {"active", "retiring", "inactive"}]
  /\ frozen \subseteq Vaults
  /\ events \in 0 .. MaxEvents

\* An outbound is in the queue at most once: however often it is replaced,
\* at most one of its items has no OutHash (LackSigning marks the item it
\* replaces, and the handler settles the one that is left).
OneOpenItem ==
  \A t, u \in Open : t.action = u.action => t = u

\* Only one payout of an outbound is at the network's expense: of the
\* payments of an action and its recovery by the treasury, all but one were
\* charged to the vault that paid late (LackSigning, CommonOutbound).
ExtraPaymentIsCharged ==
  \A p, q \in finalised \ slashed :
    /\ p[1] = q[1] => p = q
    /\ p[1] \notin recovered

Settled(a) == \E t \in txOut : t.action = a /\ t.outHash \in {p \in Payments : p[1] = a}

\* An item left without an OutHash although LackSigning has passed it: it
\* was in progress when its attempts were used up, its retired vault used up
\* its own, or its pool is gone.
GivenUp(a) ==
  \E t \in Open : /\ t.action = a
                  /\ t.height < height - SigningTransactionPeriod
                  /\ LET tried == (t.height + SigningTransactionPeriod - FinalisedHeight)
                                    \div SigningTransactionPeriod
                     IN  \/ /\ MaxOutboundAttempts > 0 /\ tried >= MaxOutboundAttempts
                            /\ InProgress
                         \/ Retired(t) /\ tried >= MaxRetiredVaultRecoveryAttempts
                         \/ Asset[a] \notin pools

\* No outbound is forgotten: until it is settled, recovered or given up, it
\* has an open item that LackSigning has still to look at.
NotForgotten ==
  \A a \in Actions :
    \/ Settled(a)
    \/ a \in recovered
    \/ GivenUp(a)
    \/ \E t \in Open : t.action = a /\ t.height >= height - SigningTransactionPeriod

\* A vault is charged for a late payment only if its outbound had been given
\* to another vault, recovered or given up: a vault that keeps an outbound
\* can pay it at any time (the range of heights that CommonOutbound searches).
ChargedWasReplaced ==
  \A p \in slashed :
    \/ \E t \in txOut : t.action = p[1] /\ t.vault # p[2]
    \/ p[1] \in recovered
    \/ GivenUp(p[1])

\* A vault most of whose members saw the payment is not replaced by another
\* one, as long as the payment is not final (needsNewVault).
SentIsNotReassigned ==
  [][\A t \in Open :
       LET p == <<t.action, t.vault>>
       IN  /\ p \notin finalised
           /\ HasSimpleMajority(Cardinality(observers[p] \cap Members[t.vault]),
                                Cardinality(Members[t.vault]))
           => \A u \in txOut' \ txOut :
                u.action = t.action /\ u.outHash = Empty => u.vault = t.vault]_vars

=============================================================================
