--------------------------- MODULE OutboundProofs ---------------------------
(***************************************************************************)
(* Proofs about Outbound, for any vaults, members, nodes and periods: an   *)
(* outbound has one open item, and all but one of its payouts are charged  *)
(* to a vault; a vault that seems to have paid keeps its outbound; an      *)
(* outbound is not forgotten; and only a vault that was replaced is        *)
(* charged.                                                                *)
(***************************************************************************)
EXTENDS Outbound, FiniteSetTheorems, SequenceTheorems, WellFoundedInduction, TLAPS

LEMMA Hashes ==
  /\ Empty # Blank
  /\ Empty \notin Payments
  /\ Blank \notin Payments
  BY DEF Empty, Blank, Payments

(* A payment is its action and its vault. *)
LEMMA PaymentIs ==
  ASSUME NEW p \in Payments
  PROVE  p = <<p[1], p[2]>> /\ p[1] \in Actions /\ p[2] \in Vaults
  BY DEF Payments

Hash == {Empty, Blank} \cup Payments

\* A payment the network paid for leaves its action without an open item.
PaidIsClosed == \A p \in finalised \ slashed : \A t \in Open : t.action # p[1]

\* And so does a recovery.
RecoveredIsClosed == \A a \in recovered : \A t \in Open : t.action # a

\* A payment somebody has observed is linked to the inbound.
ObservedIsLinked ==
  \A p \in Payments : observers[p] # {} => \E i \in DOMAIN links : links[i] = p

IInv == TypeOK /\ OneOpenItem /\ PaidIsClosed /\ RecoveredIsClosed
          /\ ExtraPaymentIsCharged /\ ObservedIsLinked

-----------------------------------------------------------------------------
(* Items                                                                   *)

LEMMA ItemFields ==
  ASSUME NEW t \in TxOutItems
  PROVE  /\ t.action \in Actions /\ t.vault \in Vaults /\ t.height \in Nat
         /\ t.outHash \in Hash
  BY DEF TxOutItems, Hash

(* An item that gets a hash. *)
LEMMA ItemHashed ==
  ASSUME NEW t \in TxOutItems, NEW h \in Hash
  PROVE  LET u == [t EXCEPT !.outHash = h]
         IN  /\ u \in TxOutItems /\ u.outHash = h
             /\ u.action = t.action /\ u.vault = t.vault /\ u.height = t.height
<1>1. t = [action |-> t.action, vault |-> t.vault, height |-> t.height, outHash |-> t.outHash]
  BY DEF TxOutItems
<1>2. [t EXCEPT !.outHash = h] =
        [action |-> t.action, vault |-> t.vault, height |-> t.height, outHash |-> h]
  BY <1>1
<1> QED
  BY <1>2 DEF TxOutItems, Hash

New(t, v) == [action |-> t.action, vault |-> v, height |-> RescheduleHeight,
              outHash |-> Empty]

LEMMA RoundUpType ==
  ASSUME NEW h \in Nat
  PROVE  RoundUp(h) \in Nat /\ h <= RoundUp(h)
<1>1. CASE RescheduleCoalesceBlocks > 1
  <2>1. RescheduleCoalesceBlocks \in Nat \ {0}
    BY <1>1, OutboundAssumption
  <2>2. h % RescheduleCoalesceBlocks \in 0 .. RescheduleCoalesceBlocks - 1
    BY <2>1
  <2> QED
    BY <2>1, <2>2 DEF RoundUp
<1>2. CASE ~ (RescheduleCoalesceBlocks > 1)
  BY <1>2 DEF RoundUp
<1> QED
  BY <1>1, <1>2

LEMMA NewIs ==
  ASSUME height \in Nat, NEW t \in TxOutItems, NEW v \in Vaults
  PROVE  /\ New(t, v) \in TxOutItems
         /\ New(t, v).action = t.action /\ New(t, v).vault = v
         /\ New(t, v).outHash = Empty /\ New(t, v).height = RoundUp(height)
  BY RoundUpType DEF New, TxOutItems, RescheduleHeight

LEMMA OpenIs ==
  ASSUME txOut \subseteq TxOutItems
  PROVE  Open \subseteq TxOutItems /\ \A t \in Open : t \in txOut /\ t.outHash = Empty
  BY DEF Open

-----------------------------------------------------------------------------
(* LackSigning                                                             *)

(* An item is replaced, recovered or closed; what is marked is not open. *)
LEMMA MarkIs ==
  ASSUME TypeOK, NEW t \in TxOutItems, t.outHash = Empty
  PROVE  /\ Mark(t) \in TxOutItems
         /\ Mark(t).action = t.action /\ Mark(t).vault = t.vault
         /\ Mark(t).height = t.height
         /\ Reschedules(t) \/ Recovers(t) => Mark(t).outHash = Blank
         /\ ~ Reschedules(t) /\ ~ Recovers(t) /\ ClosesAsDone(t) =>
              /\ outTxs # <<>> /\ outTxs[1] \in Payments /\ Mark(t).outHash = outTxs[1]
         /\ ~ Reschedules(t) /\ ~ Recovers(t) /\ ~ ClosesAsDone(t) => Mark(t) = t
         /\ ~ (Reschedules(t) /\ Recovers(t))
<1>1. Blank \in Hash /\ Payments \subseteq Hash
  BY DEF Hash
<1>2. ClosesAsDone(t) => outTxs # <<>> /\ outTxs[1] \in Payments
  <2>1. outTxs \in Seq(Payments) /\ Len(outTxs) \in Nat
    BY LenProperties DEF TypeOK
  <2>2. Cardinality(Actions) \in Nat /\ Cardinality(Actions) # 0
    BY OutboundAssumption, FS_CardinalityType, FS_EmptySet
  <2>3. ClosesAsDone(t) => Len(outTxs) >= Cardinality(Actions)
    BY DEF ClosesAsDone, IsDone
  <2>4. ClosesAsDone(t) => 1 \in 1 .. Len(outTxs)
    BY <2>1, <2>2, <2>3
  <2> QED
    BY <2>1, <2>4, ElementOfSeq, EmptySeq
<1>3. ~ (Reschedules(t) /\ Recovers(t))
  BY DEF Reschedules, Recovers, Exhausted
<1>4. CASE Reschedules(t) \/ Recovers(t)
  <2>1. Mark(t) = [t EXCEPT !.outHash = Blank]
    BY <1>4 DEF Mark
  <2> QED
    BY <1>1, <1>3, <1>4, <2>1, ItemHashed
<1>5. CASE ~ Reschedules(t) /\ ~ Recovers(t) /\ ClosesAsDone(t)
  <2>1. Mark(t) = [t EXCEPT !.outHash = outTxs[1]]
    BY <1>5 DEF Mark
  <2> QED
    BY <1>1, <1>2, <1>5, <2>1, ItemHashed
<1>6. CASE ~ Reschedules(t) /\ ~ Recovers(t) /\ ~ ClosesAsDone(t)
  <2>1. Mark(t) = t
    BY <1>6 DEF Mark
  <2> QED
    BY <1>6, <2>1
<1> QED
  BY <1>4, <1>5, <1>6

\* LackSigning with the vaults it picks.
LackWith(pick) ==
  /\ \A t \in Due : pick[t] \in NewVaults(t)
  /\ txOut' = (txOut \ Due) \cup {Mark(t) : t \in Due}
                \cup {New(t, pick[t]) : t \in {u \in Due : Reschedules(u)}}
  /\ recovered' = recovered \cup {t.action : t \in {u \in Due : Recovers(u)}}

LEMMA LackPicks ==
  ASSUME LackSigning
  PROVE  \E pick \in [Due -> Vaults] : LackWith(pick)
  BY DEF LackSigning, LackWith, New

LEMMA DueIs ==
  ASSUME TypeOK
  PROVE  /\ Due \subseteq Open /\ Open \subseteq txOut /\ txOut \subseteq TxOutItems
         /\ \A t \in Open : t \in TxOutItems /\ t.outHash = Empty
         /\ \A t \in Due : t.height = height - SigningTransactionPeriod
         /\ height \in Nat \ {0}
<1>1. height \in Nat \ {0} /\ txOut \subseteq TxOutItems
  BY OutboundAssumption DEF TypeOK
<1> QED
  BY <1>1 DEF Due, Open

\* Open item t comes after open item u: it is u, or u was replaced by it.
Follows(u, t, pick) ==
  /\ t.action = u.action
  /\ u \in Due => ~ Recovers(u)
  /\ \/ t = u /\ ~ (u \in Due /\ Reschedules(u))
     \/ u \in Due /\ Reschedules(u) /\ t = New(u, pick[u])

LEMMA LackKeepsTypes ==
  ASSUME TypeOK, NEW pick \in [Due -> Vaults], LackWith(pick)
  PROVE  txOut' \subseteq TxOutItems /\ recovered' \subseteq Actions
<1>1. /\ Due \subseteq TxOutItems /\ height \in Nat
      /\ \A t \in Due : t.outHash = Empty /\ t.action \in Actions
  BY DueIs, ItemFields
<1>2. \A t \in Due : Mark(t) \in TxOutItems /\ New(t, pick[t]) \in TxOutItems
  BY <1>1, MarkIs, NewIs
<1>3. txOut' \subseteq TxOutItems
  BY <1>2, DueIs DEF LackWith
<1>4. recovered' \subseteq Actions
  BY <1>1 DEF LackWith, TypeOK
<1> QED
  BY <1>3, <1>4

LEMMA LackFollows ==
  ASSUME TypeOK, NEW pick \in [Due -> Vaults], LackWith(pick), NEW t \in Open'
  PROVE  \E u \in Open : Follows(u, t, pick)
<1>1. t \in txOut' /\ t.outHash = Empty
  BY DEF Open
<1>2. CASE t \in txOut \ Due
  <2>1. t \in Open
    BY <1>1, <1>2 DEF Open
  <2> QED
    BY <1>2, <2>1 DEF Follows
<1>3. CASE \E u \in Due : t = Mark(u)
  <2>1. PICK u \in Due : t = Mark(u)
    BY <1>3
  <2>2. u \in Open /\ u \in TxOutItems /\ u.outHash = Empty
    BY DueIs
  <2>3. ~ Reschedules(u) /\ ~ Recovers(u) /\ t = u
    BY <1>1, <2>1, <2>2, MarkIs, Hashes
  <2> QED
    BY <2>2, <2>3 DEF Follows
<1>4. CASE \E u \in Due : Reschedules(u) /\ t = New(u, pick[u])
  <2>1. PICK u \in Due : Reschedules(u) /\ t = New(u, pick[u])
    BY <1>4
  <2>2. u \in Open /\ u \in TxOutItems /\ u.outHash = Empty
    BY DueIs
  <2>3. t.action = u.action
    BY <2>1 DEF New
  <2>4. ~ Recovers(u)
    BY <2>1, <2>2, MarkIs
  <2> QED
    BY <2>1, <2>2, <2>3, <2>4 DEF Follows
<1> QED
  BY <1>1, <1>2, <1>3, <1>4 DEF LackWith

LEMMA LackKeepsClosed ==
  ASSUME IInv, NEW pick \in [Due -> Vaults], LackWith(pick), UNCHANGED <<finalised, slashed>>
  PROVE  OneOpenItem' /\ PaidIsClosed' /\ RecoveredIsClosed' /\ ExtraPaymentIsCharged'
<1>1. TypeOK
  BY DEF IInv
<1>2. \A t \in Open' : \E u \in Open : Follows(u, t, pick)
  BY <1>1, LackFollows
<1>3. OneOpenItem'
  <2>1. ASSUME NEW t \in Open', NEW u \in Open', t.action = u.action
        PROVE  t = u
    <3>1. PICK w \in Open : Follows(w, t, pick)
      BY <1>2
    <3>2. PICK x \in Open : Follows(x, u, pick)
      BY <1>2
    <3>3. w = x
      BY <2>1, <3>1, <3>2 DEF Follows, IInv, OneOpenItem
    <3> QED
      BY <3>1, <3>2, <3>3 DEF Follows
  <2> QED
    BY <2>1 DEF OneOpenItem
<1>4. PaidIsClosed'
  BY <1>2 DEF PaidIsClosed, IInv, Follows
<1>5. RecoveredIsClosed'
  <2>1. ASSUME NEW a \in recovered', NEW t \in Open', t.action = a
        PROVE  FALSE
    <3>1. PICK u \in Open : Follows(u, t, pick)
      BY <1>2
    <3>2. u.action = a
      BY <2>1, <3>1 DEF Follows
    <3>3. CASE a \in recovered
      BY <3>2, <3>3 DEF IInv, RecoveredIsClosed
    <3>4. CASE \E w \in Due : Recovers(w) /\ w.action = a
      <4>1. PICK w \in Due : Recovers(w) /\ w.action = a
        BY <3>4
      <4>2. w = u
        BY <1>1, <3>2, <4>1, DueIs DEF IInv, OneOpenItem
      <4> QED
        BY <3>1, <4>1, <4>2 DEF Follows
    <3> QED
      BY <3>3, <3>4 DEF LackWith
  <2> QED
    BY <2>1 DEF RecoveredIsClosed
<1>6. ExtraPaymentIsCharged'
  <2>1. \A p \in finalised \ slashed : p[1] \notin recovered'
    <3>1. ASSUME NEW p \in finalised \ slashed, NEW w \in Due, w.action = p[1]
          PROVE  FALSE
      BY <1>1, <3>1, DueIs DEF IInv, PaidIsClosed
    <3> QED
      BY <3>1 DEF LackWith, IInv, ExtraPaymentIsCharged
  <2> QED
    BY <2>1 DEF IInv, ExtraPaymentIsCharged
<1> QED
  BY <1>3, <1>4, <1>5, <1>6

-----------------------------------------------------------------------------
(* Observations                                                            *)

LEMMA MatchingIs ==
  ASSUME NEW p, NEW t \in Matching(p)
  PROVE  t \in Open /\ t.action = p[1] /\ t.vault = p[2]
  BY DEF Matching

LEMMA HandlerTypes ==
  ASSUME TypeOK, NEW p \in Payments, CommonOutbound(p)
  PROVE  /\ txOut' \subseteq TxOutItems /\ outTxs' \in Seq(Payments)
         /\ slashed' \subseteq slashed \cup {p}
<1>1. outTxs' \in Seq(Payments)
  BY AppendProperties DEF CommonOutbound, TypeOK
<1>2. CASE Matching(p) = {}
  BY <1>1, <1>2 DEF CommonOutbound, TypeOK
<1>3. CASE Matching(p) # {}
  <2>1. PICK t \in Matching(p) : /\ txOut' = (txOut \ {t}) \cup {[t EXCEPT !.outHash = p]}
                                 /\ slashed' = slashed
    BY <1>3 DEF CommonOutbound
  <2>2. t \in TxOutItems /\ p \in Hash
    BY MatchingIs, DueIs DEF Hash
  <2>3. [t EXCEPT !.outHash = p] \in TxOutItems
    BY <2>2, ItemHashed
  <2> QED
    BY <1>1, <2>1, <2>3 DEF TypeOK
<1> QED
  BY <1>2, <1>3

LEMMA HandlerKeepsClosed ==
  ASSUME IInv, NEW p \in Payments, p \notin finalised, CommonOutbound(p),
         finalised' = finalised \cup {p}, UNCHANGED recovered
  PROVE  OneOpenItem' /\ PaidIsClosed' /\ RecoveredIsClosed' /\ ExtraPaymentIsCharged'
<1>1. TypeOK /\ p \notin slashed
  BY DEF IInv, TypeOK
<1>2. CASE Matching(p) = {}
  <2>1. txOut' = txOut /\ slashed' = slashed \cup {p}
    BY <1>2 DEF CommonOutbound
  <2>2. Open' = Open /\ finalised' \ slashed' = finalised \ slashed
    BY <1>1, <2>1 DEF Open
  <2> QED
    BY <2>2 DEF IInv, OneOpenItem, PaidIsClosed, RecoveredIsClosed, ExtraPaymentIsCharged
<1>3. CASE Matching(p) # {}
  <2>1. PICK t \in Matching(p) : /\ txOut' = (txOut \ {t}) \cup {[t EXCEPT !.outHash = p]}
                                 /\ slashed' = slashed
    BY <1>3 DEF CommonOutbound
  <2>2. t \in Open /\ t \in TxOutItems /\ t.action = p[1]
    BY <1>1, MatchingIs, DueIs
  <2>3. [t EXCEPT !.outHash = p].outHash # Empty
    BY <2>2, ItemHashed, Hashes DEF Hash
  <2>4. Open' = Open \ {t}
    BY <2>1, <2>3 DEF Open
  <2>5. \A u \in Open' : u \in Open /\ u.action # p[1]
    BY <2>2, <2>4 DEF IInv, OneOpenItem
  <2>6. finalised' \ slashed' = (finalised \ slashed) \cup {p}
    BY <1>1, <2>1
  <2>7. \A q \in finalised \ slashed : q[1] # p[1]
    BY <2>2 DEF IInv, PaidIsClosed
  <2>8. p[1] \notin recovered
    BY <2>2 DEF IInv, RecoveredIsClosed
  <2>9. OneOpenItem' /\ PaidIsClosed' /\ RecoveredIsClosed'
    BY <2>5, <2>6 DEF IInv, OneOpenItem, PaidIsClosed, RecoveredIsClosed
  <2>10. ExtraPaymentIsCharged'
    BY <2>6, <2>7, <2>8 DEF IInv, ExtraPaymentIsCharged
  <2> QED
    BY <2>9, <2>10
<1> QED
  BY <1>2, <1>3

-----------------------------------------------------------------------------
(* The steps                                                               *)

\* What the first three parts of the invariant speak of.
bookVars == <<txOut, finalised, slashed, recovered>>

LEMMA ClosedUnchanged ==
  ASSUME IInv, UNCHANGED bookVars
  PROVE  OneOpenItem' /\ PaidIsClosed' /\ RecoveredIsClosed' /\ ExtraPaymentIsCharged'
  BY DEF IInv, bookVars, Open, OneOpenItem, PaidIsClosed, RecoveredIsClosed,
         ExtraPaymentIsCharged

LEMMA SignStep ==
  ASSUME IInv, NEW t \in Open, Sign(t)
  PROVE  IInv'
<1>1. <<t.action, t.vault>> \in Payments
  BY DueIs, ItemFields DEF IInv, Payments
<1>2. TypeOK'
  BY <1>1 DEF IInv, TypeOK, Sign
<1>3. ObservedIsLinked'
  BY DEF IInv, ObservedIsLinked, Sign
<1> QED
  BY <1>2, <1>3, ClosedUnchanged DEF IInv, Sign, bookVars

LEMMA BroadcastStep ==
  ASSUME IInv, NEW p \in Payments, Broadcast(p)
  PROVE  IInv'
<1>1. TypeOK'
  BY DEF IInv, TypeOK, Broadcast
<1>2. ObservedIsLinked'
  BY DEF IInv, ObservedIsLinked, Broadcast
<1> QED
  BY <1>1, <1>2, ClosedUnchanged DEF IInv, Broadcast, bookVars

LEMMA ObserveStep ==
  ASSUME IInv, NEW n \in Nodes, NEW p \in Payments, Observe(n, p)
  PROVE  IInv'
<1>1. links \in Seq(Payments) /\ observers \in [Payments -> SUBSET Nodes]
  BY DEF IInv, TypeOK
<1>2. observers' = [observers EXCEPT ![p] = observers[p] \cup {n}]
  BY DEF Observe
<1>3. observers' \in [Payments -> SUBSET Nodes]
  BY <1>1, <1>2
<1>4. /\ links' \in Seq(Payments)
      /\ \A i \in DOMAIN links : i \in DOMAIN links' /\ links'[i] = links[i]
      /\ \E i \in DOMAIN links' : links'[i] = p
  <2>1. CASE observers[p] = {}
    <3>1. links' = Append(links, p)
      BY <2>1 DEF Observe
    <3>2. /\ links' \in Seq(Payments) /\ Len(links') = Len(links) + 1
          /\ \A i \in 1 .. Len(links) : links'[i] = links[i]
          /\ links'[Len(links) + 1] = p
      BY <1>1, <3>1, AppendProperties
    <3>3. Len(links) \in Nat /\ DOMAIN links = 1 .. Len(links) /\ DOMAIN links' = 1 .. Len(links')
      BY <1>1, <3>2, LenProperties
    <3>4. Len(links) + 1 \in DOMAIN links'
      BY <3>2, <3>3
    <3> QED
      BY <3>2, <3>3, <3>4
  <2>2. CASE observers[p] # {}
    BY <1>1, <2>2 DEF Observe, IInv, ObservedIsLinked
  <2> QED
    BY <2>1, <2>2
<1>5. ObservedIsLinked'
  <2>1. ASSUME NEW q \in Payments, observers'[q] # {}
        PROVE  \E i \in DOMAIN links' : links'[i] = q
    <3>1. CASE q = p
      BY <1>4, <3>1
    <3>2. CASE q # p
      <4>1. observers[q] # {}
        BY <1>1, <1>2, <2>1, <3>2
      <4> QED
        BY <1>4, <4>1 DEF IInv, ObservedIsLinked
    <3> QED
      BY <3>1, <3>2
  <2> QED
    BY <2>1 DEF ObservedIsLinked
<1>6. CASE /\ p \notin finalised
           /\ HasSuperMajority(Cardinality(observers[p] \cup {n}), Cardinality(Nodes))
  <2>1. finalised' = finalised \cup {p} /\ CommonOutbound(p) /\ p \notin finalised
    BY <1>6 DEF Observe
  <2>2. /\ txOut' \subseteq TxOutItems /\ outTxs' \in Seq(Payments)
        /\ slashed' \subseteq slashed \cup {p}
    BY <2>1, HandlerTypes DEF IInv
  <2>3. TypeOK'
    BY <1>3, <1>4, <2>1, <2>2 DEF IInv, TypeOK, Observe
  <2>4. OneOpenItem' /\ PaidIsClosed' /\ RecoveredIsClosed' /\ ExtraPaymentIsCharged'
    BY <2>1, HandlerKeepsClosed DEF Observe
  <2> QED
    BY <1>5, <2>3, <2>4 DEF IInv
<1>7. CASE ~ (/\ p \notin finalised
              /\ HasSuperMajority(Cardinality(observers[p] \cup {n}), Cardinality(Nodes)))
  <2>1. UNCHANGED <<finalised, outTxs, txOut, slashed>>
    BY <1>7 DEF Observe
  <2>2. TypeOK'
    BY <1>3, <1>4, <2>1 DEF IInv, TypeOK, Observe
  <2> QED
    BY <1>5, <2>1, <2>2, ClosedUnchanged DEF IInv, Observe, bookVars
<1> QED
  BY <1>6, <1>7

LEMMA EndBlockStep ==
  ASSUME IInv, EndBlock
  PROVE  IInv'
<1>1. /\ UNCHANGED <<outTxs, links, observers, finalised, signed, broadcast, slashed,
                     status, frozen, pools, events>>
      /\ height' \in 1 .. MaxHeight
  BY OutboundAssumption DEF EndBlock, IInv, TypeOK
<1>2. ObservedIsLinked'
  BY <1>1 DEF IInv, ObservedIsLinked
<1>3. CASE height >= SigningTransactionPeriod
  <2>1. PICK pick \in [Due -> Vaults] : LackWith(pick)
    BY <1>3, LackPicks DEF EndBlock
  <2>2. txOut' \subseteq TxOutItems /\ recovered' \subseteq Actions
    BY <2>1, LackKeepsTypes DEF IInv
  <2>3. TypeOK'
    BY <1>1, <2>2 DEF IInv, TypeOK
  <2>4. OneOpenItem' /\ PaidIsClosed' /\ RecoveredIsClosed' /\ ExtraPaymentIsCharged'
    BY <1>1, <2>1, LackKeepsClosed
  <2> QED
    BY <1>2, <2>3, <2>4 DEF IInv
<1>4. CASE ~ (height >= SigningTransactionPeriod)
  <2>1. UNCHANGED <<txOut, recovered>>
    BY <1>4 DEF EndBlock
  <2>2. TypeOK'
    BY <1>1, <2>1 DEF IInv, TypeOK
  <2> QED
    BY <1>1, <1>2, <2>1, <2>2, ClosedUnchanged DEF IInv, bookVars
<1> QED
  BY <1>3, <1>4

LEMMA ChangeStep ==
  ASSUME IInv, \/ \E v \in Vaults : Churn(v) \/ Freeze(v)
               \/ \E x \in pools : PoolGone(x)
  PROVE  IInv'
<1>1. UNCHANGED <<height, txOut, outTxs, links, observers, finalised, signed, broadcast,
                  slashed, recovered>>
  BY DEF Churn, Freeze, PoolGone
<1>2. status' \in [Vaults -> {"active", "retiring", "inactive"}]
  BY DEF IInv, TypeOK, Churn, Freeze, PoolGone
<1>3. frozen' \subseteq Vaults
  BY DEF IInv, TypeOK, Churn, Freeze, PoolGone
<1>4. events' \in 0 .. MaxEvents
  <2>1. events \in 0 .. MaxEvents /\ MaxEvents \in Nat
    BY OutboundAssumption DEF IInv, TypeOK
  <2>2. events < MaxEvents /\ events' = events + 1
    BY DEF Churn, Freeze, PoolGone
  <2> QED
    BY <2>1, <2>2
<1>5. TypeOK'
  BY <1>1, <1>2, <1>3, <1>4 DEF IInv, TypeOK
<1>6. ObservedIsLinked'
  BY <1>1 DEF IInv, ObservedIsLinked
<1> QED
  BY <1>1, <1>5, <1>6, ClosedUnchanged DEF IInv, bookVars

LEMMA InitInv == Init => IInv
<1> SUFFICES ASSUME Init
             PROVE  IInv
  OBVIOUS
<1>1. txOut \subseteq TxOutItems
  BY OutboundAssumption DEF Init, TxOutItems
<1>2. /\ outTxs \in Seq(Payments) /\ links \in Seq(Payments)
      /\ height \in 1 .. MaxHeight /\ events \in 0 .. MaxEvents
  BY EmptySeq, OutboundAssumption DEF Init
<1>3. TypeOK
  BY <1>1, <1>2 DEF Init, TypeOK
<1>4. OneOpenItem
  <2>1. ASSUME NEW t \in Open, NEW u \in Open, t.action = u.action
        PROVE  t = u
    BY <2>1 DEF Open, Init
  <2> QED
    BY <2>1 DEF OneOpenItem
<1> QED
  BY <1>3, <1>4 DEF IInv, Init, PaidIsClosed, RecoveredIsClosed, ExtraPaymentIsCharged,
                    ObservedIsLinked

LEMMA NextInv == IInv /\ [Next]_vars => IInv'
<1> SUFFICES ASSUME IInv, [Next]_vars
             PROVE  IInv'
  OBVIOUS
<1>1. CASE UNCHANGED vars
  <2>1. TypeOK' /\ ObservedIsLinked'
    BY <1>1 DEF vars, IInv, TypeOK, ObservedIsLinked
  <2> QED
    BY <1>1, <2>1, ClosedUnchanged DEF IInv, vars, bookVars
<1>2. CASE Next
  BY <1>2, SignStep, BroadcastStep, ObserveStep, EndBlockStep, ChangeStep DEF Next
<1> QED
  BY <1>1, <1>2

LEMMA Invariance == Spec => []IInv
  BY InitInv, NextInv, PTL DEF Spec

(* For any vaults, members, nodes and periods every reachable state is well *)
(* typed.                                                                   *)
THEOREM OutboundTypes == Spec => []TypeOK
<1>1. IInv => TypeOK
  BY DEF IInv
<1> QED
  BY Invariance, <1>1, PTL

(* However often LackSigning replaces the items of an inbound's outbounds,  *)
(* each outbound has at most one item without an OutHash.                   *)
THEOREM OutboundIsQueuedOnce == Spec => []OneOpenItem
<1>1. IInv => OneOpenItem
  BY DEF IInv
<1> QED
  BY Invariance, <1>1, PTL

(* Of the payments of an outbound and its recovery by the treasury, all but *)
(* one were charged to the vault that paid late (CommonOutbound), for any   *)
(* number of vaults and any delay of payments and observations.             *)
THEOREM ExtraPaymentsAreCharged == Spec => []ExtraPaymentIsCharged
<1>1. IInv => ExtraPaymentIsCharged
  BY DEF IInv
<1> QED
  BY Invariance, <1>1, PTL

-----------------------------------------------------------------------------
(* A vault that seems to have paid keeps its outbound                      *)

\* The outbounds of the inbound are of different assets, as needsNewVault
\* takes them to be: it tells the vault's payments apart by their asset.
OneAssetEach == \A a, b \in Actions : Asset[a] = Asset[b] => a = b

LEMMA LeastExists ==
  ASSUME NEW S \in SUBSET Nat, S # {}
  PROVE  \E i \in S : \A j \in S : i <= j
<1>1. \E x \in S : \A y \in S : ~ (<<y, x>> \in OpToRel(<, Nat))
  BY WFMin, NatLessThanWellFounded
<1>2. ASSUME NEW x \in S, \A y \in S : ~ (<<y, x>> \in OpToRel(<, Nat)), NEW j \in S
      PROVE  x <= j
  <2>1. ~ (j < x)
    BY <1>2 DEF OpToRel
  <2> QED
    BY <2>1, SMT
<1> QED
  BY <1>1, <1>2

\* Most members of its vault have seen the payment of item t.
SeenByMost(t) ==
  LET p == <<t.action, t.vault>>
  IN  /\ p \notin finalised
      /\ HasSimpleMajority(Cardinality(observers[p] \cap Members[t.vault]),
                           Cardinality(Members[t.vault]))

(* The first related link is the payment itself, so its observers decide. *)
LEMMA SeenStays ==
  ASSUME IInv, OneAssetEach, NEW t \in Open, SeenByMost(t)
  PROVE  ~ NeedsNewVault(t)
<1> DEFINE p == <<t.action, t.vault>>
           j == CHOOSE i \in Related(t) : \A k \in Related(t) : i <= k
<1>1. t.action \in Actions /\ t.vault \in Vaults /\ p \in Payments
  BY DueIs, ItemFields DEF IInv, Payments
<1>2. observers[p] # {}
  <2>1. SUFFICES ASSUME observers[p] = {}
                 PROVE  FALSE
    OBVIOUS
  <2>2. observers[p] \cap Members[t.vault] = {}
    BY <2>1
  <2>3. Cardinality(observers[p] \cap Members[t.vault]) = 0
    BY <2>2, FS_EmptySet
  <2> QED
    BY <2>3 DEF SeenByMost, HasSimpleMajority
<1>3. links \in Seq(Payments)
  BY DEF IInv, TypeOK
<1>4. PICK i \in DOMAIN links : links[i] = p
  BY <1>1, <1>2 DEF IInv, ObservedIsLinked
<1>5. i \in Related(t)
  BY <1>4 DEF Related, SeenByMost
<1>6. Related(t) \in SUBSET Nat
  BY <1>3 DEF Related
<1>7. j \in Related(t)
  BY <1>5, <1>6, LeastExists
<1>8. links[j] = p
  <2>0. \A k \in Related(t) : /\ k \in DOMAIN links /\ links[k][2] = t.vault
                              /\ Asset[links[k][1]] = Asset[t.action]
    BY DEF Related
  <2>d. \A k \in DOMAIN links : links[k] \in Payments
    BY <1>3
  <2> HIDE DEF j
  <2>1. /\ links[j] \in Payments /\ links[j][2] = t.vault
        /\ Asset[links[j][1]] = Asset[t.action]
    BY <1>7, <2>0, <2>d, Zenon
  <2>2. links[j][1] = t.action
    BY <1>1, <2>1 DEF OneAssetEach, Payments
  <2> QED
    BY <2>1, <2>2, PaymentIs
<1>9. HasSimpleMajority(Cardinality(observers[links[j]] \cap Members[t.vault]),
                        Cardinality(Members[t.vault]))
  BY <1>8 DEF SeenByMost
<1> QED
  BY <1>7, <1>9 DEF NeedsNewVault

LEMMA OnlyLackAdds ==
  ASSUME IInv, [Next]_vars, NEW u \in txOut' \ txOut, u.outHash = Empty
  PROVE  EndBlock /\ height >= SigningTransactionPeriod
<1>1. ASSUME NEW n \in Nodes, NEW p \in Payments, Observe(n, p)
      PROVE  FALSE
  <2>1. CommonOutbound(p)
    BY <1>1 DEF Observe
  <2>2. PICK t \in Matching(p) : txOut' = (txOut \ {t}) \cup {[t EXCEPT !.outHash = p]}
    BY <2>1 DEF CommonOutbound
  <2>3. t \in TxOutItems /\ p \in Hash
    BY MatchingIs, DueIs DEF Hash, IInv
  <2>4. [t EXCEPT !.outHash = p].outHash = p
    BY <2>3, ItemHashed
  <2> QED
    BY <2>2, <2>4, Hashes
<1>2. ~ UNCHANGED txOut
  OBVIOUS
<1> QED
  BY <1>1, <1>2 DEF Next, vars, Sign, Broadcast, Churn, Freeze, PoolGone, EndBlock

LEMMA KeptStep ==
  ASSUME IInv, OneAssetEach, [Next]_vars, NEW t \in Open, SeenByMost(t),
         NEW u \in txOut' \ txOut, u.action = t.action, u.outHash = Empty
  PROVE  u.vault = t.vault
<1>1. TypeOK /\ EndBlock /\ height >= SigningTransactionPeriod
  BY OnlyLackAdds DEF IInv
<1>2. PICK pick \in [Due -> Vaults] : LackWith(pick)
  BY <1>1, LackPicks DEF EndBlock
<1>3. u \in Open'
  BY DEF Open
<1>4. PICK w \in Open : Follows(w, u, pick)
  BY <1>1, <1>2, <1>3, LackFollows
<1>5. w = t
  BY <1>4 DEF Follows, IInv, OneOpenItem
<1>6. t \in txOut
  BY DEF Open
<1>7. t \in Due /\ u = New(t, pick[t])
  BY <1>4, <1>5, <1>6 DEF Follows
<1>8. pick[t] \in NewVaults(t)
  BY <1>2, <1>7 DEF LackWith
<1>9. pick[t] = t.vault
  BY <1>8, SeenStays DEF NewVaults, Stays
<1> QED
  BY <1>7, <1>9 DEF New

(* A vault most of whose members saw the payment of an outbound keeps that  *)
(* outbound as long as the payment is not final, whatever else is observed  *)
(* and however old the outbound is (needsNewVault), if the outbounds of the *)
(* inbound have different assets.                                           *)
THEOREM PayingVaultKeepsItsOutbound ==
  ASSUME OneAssetEach
  PROVE  Spec => SentIsNotReassigned
<1>1. IInv /\ [Next]_vars =>
        [\A t \in Open :
           LET p == <<t.action, t.vault>>
           IN  /\ p \notin finalised
               /\ HasSimpleMajority(Cardinality(observers[p] \cap Members[t.vault]),
                                    Cardinality(Members[t.vault]))
               => \A u \in txOut' \ txOut :
                    u.action = t.action /\ u.outHash = Empty => u.vault = t.vault]_vars
  BY KeptStep DEF SeenByMost
<1> QED
  BY <1>1, Invariance, PTL DEF Spec, SentIsNotReassigned

-----------------------------------------------------------------------------
(* No outbound is forgotten                                                *)

\* The inbound has one outbound, as a swap has.  With more the property does
\* not hold: IsDone counts the payments and not the outbounds they pay.
OneOutbound == \A a, b \in Actions : a = b

\* Item t was left open when LackSigning passed it, for one of its reasons.
PassedOver(t) ==
  /\ t.height < height - SigningTransactionPeriod
  /\ LET tried == (t.height + SigningTransactionPeriod - FinalisedHeight)
                    \div SigningTransactionPeriod
     IN  \/ MaxOutboundAttempts > 0 /\ tried >= MaxOutboundAttempts /\ InProgress
         \/ Retired(t) /\ tried >= MaxRetiredVaultRecoveryAttempts
         \/ Asset[t.action] \notin pools

LEMMA GivenUpIs ==
  ASSUME NEW a
  PROVE  GivenUp(a) <=> \E t \in Open : t.action = a /\ PassedOver(t)
  BY DEF GivenUp, PassedOver

LEMMA GivenUpNext ==
  ASSUME NEW a
  PROVE  GivenUp(a)' <=> \E t \in Open' : t.action = a /\ PassedOver(t)'
  BY DEF GivenUp, PassedOver

\* LackSigning has still to look at item t.
Ahead(t) == t.height >= height - SigningTransactionPeriod

Remembered(a) ==
  \/ Settled(a)
  \/ a \in recovered
  \/ \E t \in Open : t.action = a /\ (PassedOver(t) \/ Ahead(t))

LEMMA NotForgottenIs ==
  NotForgotten <=> \A a \in Actions : Remembered(a)
  BY GivenUpIs DEF NotForgotten, Remembered, Ahead

LEMMA NotForgottenNext ==
  NotForgotten' <=> \A a \in Actions : Remembered(a)'
  BY GivenUpNext DEF NotForgotten, Remembered, Ahead

\* How a step may change what LackSigning decides on: the reason for which an
\* item was passed over is not taken back.
Onward ==
  /\ height' \in {height, height + 1}
  /\ InProgress => InProgress'
  /\ \A t \in Open : Retired(t) => Retired(t)'
  /\ pools' \subseteq pools

LEMMA PassedOverStays ==
  ASSUME TypeOK, Onward, NEW t \in Open, PassedOver(t)
  PROVE  PassedOver(t)'
<1>1. t.height \in Nat /\ height \in Nat /\ SigningTransactionPeriod \in Nat
  BY DueIs, ItemFields, OutboundAssumption
<1>2. t.height < height' - SigningTransactionPeriod
  BY <1>1 DEF PassedOver, Onward
<1>3. FinalisedHeight' = FinalisedHeight
  BY DEF FinalisedHeight
<1> QED
  BY <1>2, <1>3 DEF PassedOver, Onward

LEMMA NextOnward ==
  ASSUME IInv, [Next]_vars
  PROVE  Onward
<1>1. TypeOK /\ outTxs \in Seq(Payments) /\ links \in Seq(Payments)
  BY DEF IInv, TypeOK
<1>2. height' \in {height, height + 1}
  BY DEF Next, vars, Sign, Broadcast, Observe, EndBlock, Churn, Freeze, PoolGone
<1>3. pools' \subseteq pools
  BY DEF Next, vars, Sign, Broadcast, Observe, EndBlock, Churn, Freeze, PoolGone
<1>4. ASSUME NEW t \in Open, Retired(t)
      PROVE  Retired(t)'
  <2>1. t.vault \in Vaults /\ status \in [Vaults -> {"active", "retiring", "inactive"}]
    BY <1>1, DueIs, ItemFields DEF TypeOK
  <2>2. status[t.vault] = "inactive"
    BY <1>4 DEF Retired
  <2>3. ASSUME NEW v \in Vaults, Churn(v)
        PROVE  status'[t.vault] = "inactive"
    BY <2>1, <2>2, <2>3 DEF Churn
  <2>4. status'[t.vault] = "inactive"
    BY <2>2, <2>3 DEF Next, vars, Sign, Broadcast, Observe, EndBlock, Freeze, PoolGone
  <2> QED
    BY <2>4 DEF Retired
<1>5. InProgress => InProgress'
  <2>1. ASSUME NEW n \in Nodes, NEW p \in Payments, Observe(n, p)
        PROVE  /\ outTxs' \in {outTxs, Append(outTxs, p)}
               /\ links' \in {links, Append(links, p)}
    BY <2>1 DEF Observe, CommonOutbound
  <2>2. \A p \in Payments : Append(outTxs, p) # <<>> /\ Append(links, p) # <<>>
    BY <1>1, AppendProperties
  <2>3. ASSUME NEW n \in Nodes, NEW p \in Payments, Observe(n, p), InProgress
        PROVE  InProgress'
    <3>1. outTxs # <<>> => outTxs' # <<>>
      BY <2>1, <2>2, <2>3
    <3>2. links # <<>> => links' # <<>>
      BY <2>1, <2>2, <2>3
    <3> QED
      BY <2>3, <3>1, <3>2 DEF InProgress
  <2> QED
    BY <2>3 DEF Next, vars, Sign, Broadcast, EndBlock, Churn, Freeze, PoolGone, InProgress
<1> QED
  BY <1>2, <1>3, <1>4, <1>5 DEF Onward

(* What LackSigning does with an item it has to look at. *)
LEMMA LookedAt ==
  ASSUME TypeOK, OneOutbound, Onward, EndBlock, height >= SigningTransactionPeriod,
         UNCHANGED <<status, outTxs, links, pools>>,
         NEW pick \in [Due -> Vaults], LackWith(pick), NEW t \in Due
  PROVE  Remembered(t.action)'
<1>1. /\ t \in Open /\ t \in TxOutItems /\ t.outHash = Empty
      /\ t.height = height - SigningTransactionPeriod
      /\ height \in Nat \ {0}
  BY DueIs
<1>2. /\ t.action \in Actions /\ t.vault \in Vaults /\ t.height \in Nat
      /\ SigningTransactionPeriod \in Nat \ {0}
  BY <1>1, ItemFields, OutboundAssumption
<1>3. height' = height + 1
  BY DEF EndBlock
<1>4. Mark(t) \in txOut'
  BY DEF LackWith
<1>5. CASE Reschedules(t)
  <2> DEFINE u == New(t, pick[t])
  <2>1. u \in txOut'
    BY <1>5 DEF LackWith
  <2>2. u.action = t.action /\ u.outHash = Empty /\ u.height = RoundUp(height)
    BY <1>1, NewIs
  <2>3. u \in Open'
    BY <2>1, <2>2 DEF Open
  <2>4. u.height \in Nat /\ u.height >= height' - SigningTransactionPeriod
    BY <1>1, <1>2, <1>3, <2>2, RoundUpType
  <2> HIDE DEF u
  <2> QED
    BY <2>2, <2>3, <2>4 DEF Remembered, Ahead
<1>6. CASE Recovers(t)
  <2>1. t.action \in recovered'
    BY <1>6 DEF LackWith
  <2> QED
    BY <2>1 DEF Remembered
<1>7. CASE ~ Reschedules(t) /\ ~ Recovers(t) /\ ClosesAsDone(t)
  <2>1. outTxs[1] \in Payments /\ Mark(t).outHash = outTxs[1] /\ Mark(t).action = t.action
    BY <1>1, <1>7, MarkIs
  <2>2. outTxs[1][1] = t.action
    BY <1>2, <2>1, PaymentIs DEF OneOutbound
  <2>3. Settled(t.action)'
    BY <1>4, <2>1, <2>2 DEF Settled
  <2> QED
    BY <2>3 DEF Remembered
<1>8. CASE ~ Reschedules(t) /\ ~ Recovers(t) /\ ~ ClosesAsDone(t)
  <2>1. Mark(t) = t
    BY <1>1, <1>8, MarkIs
  <2>2. t \in Open'
    BY <1>1, <1>4, <2>1 DEF Open
  <2>3. t.height < height' - SigningTransactionPeriod
    BY <1>1, <1>2, <1>3
  <2>4. (t.height + SigningTransactionPeriod - FinalisedHeight) \div SigningTransactionPeriod
          = Attempts
    <3>1. t.height + SigningTransactionPeriod - FinalisedHeight = height - FinalisedHeight
      BY <1>1, <1>2 DEF FinalisedHeight
    <3> QED
      BY <3>1 DEF Attempts
  <2>5. /\ Attempts \in Int /\ MaxOutboundAttempts \in Nat
        /\ MaxRetiredVaultRecoveryAttempts \in Nat
    <3>1. height - FinalisedHeight \in Nat
      BY <1>1 DEF FinalisedHeight
    <3> QED
      BY <1>2, <3>1, OutboundAssumption DEF Attempts
  <2>6. \/ MaxOutboundAttempts > 0 /\ Attempts >= MaxOutboundAttempts /\ InProgress
        \/ Retired(t) /\ Attempts >= MaxRetiredVaultRecoveryAttempts
        \/ Asset[t.action] \notin pools
    <3>1. CASE Retired(t)
      BY <1>8, <2>5, <3>1 DEF Reschedules
    <3>2. CASE ~ Retired(t)
      BY <1>8, <3>2 DEF Reschedules, Recovers, Exhausted
    <3> QED
      BY <3>1, <3>2
  <2>7. (Retired(t) => Retired(t)') /\ (InProgress => InProgress') /\ pools' = pools
    BY <1>1 DEF Onward
  <2>8. FinalisedHeight' = FinalisedHeight
    BY DEF FinalisedHeight
  <2>9. PassedOver(t)'
    BY <2>3, <2>4, <2>6, <2>7, <2>8 DEF PassedOver
  <2> QED
    BY <2>2, <2>9 DEF Remembered
<1> QED
  BY <1>5, <1>6, <1>7, <1>8

(* A step that keeps the hashes of the items keeps what is settled. *)
LEMMA SettledStays ==
  ASSUME NEW a, Settled(a), \A t \in txOut : t.outHash \in Payments => t \in txOut'
  PROVE  Settled(a)'
  BY DEF Settled

LEMMA HashedStays ==
  ASSUME TypeOK, [Next]_vars, NEW t \in txOut, t.outHash \in Payments
  PROVE  t \in txOut'
<1>1. t \notin Open
  BY Hashes DEF Open
<1>2. ASSUME NEW n \in Nodes, NEW p \in Payments, Observe(n, p)
      PROVE  t \in txOut'
  BY <1>1, <1>2, MatchingIs DEF Observe, CommonOutbound
<1>3. ASSUME EndBlock
      PROVE  t \in txOut'
  <2>1. LackSigning => t \in txOut'
    BY <1>1, DueIs DEF LackSigning
  <2> QED
    BY <1>3, <2>1 DEF EndBlock
<1> QED
  BY <1>2, <1>3 DEF Next, vars, Sign, Broadcast, Churn, Freeze, PoolGone

LEMMA RememberedStep ==
  ASSUME IInv, OneOutbound, [Next]_vars, NEW a \in Actions, Remembered(a)
  PROVE  Remembered(a)'
<1>1. TypeOK /\ Onward
  BY NextOnward DEF IInv
<1>2. CASE Settled(a)
  <2>1. Settled(a)'
    BY <1>1, <1>2, HashedStays, SettledStays
  <2> QED
    BY <2>1 DEF Remembered
<1>3. CASE a \in recovered
  <2>1. LackSigning => recovered \subseteq recovered'
    BY DEF LackSigning
  <2>2. a \in recovered'
    BY <1>3, <2>1 DEF Next, vars, Sign, Broadcast, Observe, EndBlock, Churn, Freeze, PoolGone
  <2> QED
    BY <2>2 DEF Remembered
<1>4. ASSUME NEW t \in Open, t.action = a, PassedOver(t) \/ Ahead(t)
      PROVE  Remembered(a)'
  <2>1. t \in txOut /\ t \in TxOutItems /\ t.outHash = Empty
    BY <1>1, DueIs
  <2>2. /\ t.height \in Nat /\ height \in Nat /\ SigningTransactionPeriod \in Nat \ {0}
    BY <1>1, <2>1, ItemFields, DueIs, OutboundAssumption
  <2>3. ASSUME t \in txOut', height' = height
        PROVE  Remembered(a)'
    <3>1. t \in Open'
      BY <2>1, <2>3 DEF Open
    <3>2. PassedOver(t)' \/ Ahead(t)'
      BY <1>1, <1>4, <2>3, PassedOverStays DEF Ahead
    <3> QED
      BY <1>4, <3>1, <3>2 DEF Remembered
  <2>4. ASSUME NEW n \in Nodes, NEW p \in Payments, Observe(n, p)
        PROVE  Remembered(a)'
    <3>1. CASE t \in txOut'
      BY <2>3, <2>4, <3>1 DEF Observe
    <3>2. CASE t \notin txOut'
      <4>1. CommonOutbound(p)
        BY <2>1, <2>4, <3>2 DEF Observe
      <4>2. PICK u \in Matching(p) : txOut' = (txOut \ {u}) \cup {[u EXCEPT !.outHash = p]}
        BY <2>1, <3>2, <4>1 DEF CommonOutbound
      <4>3. u = t
        BY <2>1, <3>2, <4>2
      <4>4. p \in Hash /\ t.action = p[1]
        BY <4>3, MatchingIs DEF Hash
      <4>5. [t EXCEPT !.outHash = p].outHash = p /\ [t EXCEPT !.outHash = p].action = a
        BY <1>4, <2>1, <4>4, ItemHashed
      <4>6. Settled(a)'
        BY <1>4, <4>2, <4>3, <4>4, <4>5 DEF Settled
      <4> QED
        BY <4>6 DEF Remembered
    <3> QED
      BY <3>1, <3>2
  <2>5. ASSUME EndBlock
        PROVE  Remembered(a)'
    <3>1. height' = height + 1 /\ UNCHANGED <<status, outTxs, links, pools>>
      BY <2>5 DEF EndBlock
    <3>2. ASSUME t \in txOut', t \notin Due \/ height < SigningTransactionPeriod
          PROVE  Remembered(a)'
      <4>1. t \in Open'
        BY <2>1, <3>2 DEF Open
      <4>2. CASE PassedOver(t)
        BY <1>1, <1>4, <4>1, <4>2, PassedOverStays DEF Remembered
      <4>3. CASE Ahead(t)
        <5>1. t.height >= height' - SigningTransactionPeriod
          <6>1. CASE height < SigningTransactionPeriod
            BY <2>2, <3>1, <6>1
          <6>2. CASE t \notin Due
            <7>1. t.height # height - SigningTransactionPeriod
              BY <6>2 DEF Due
            <7> QED
              BY <2>2, <3>1, <4>3, <7>1 DEF Ahead
          <6> QED
            BY <3>2, <6>1, <6>2
        <5> QED
          BY <1>4, <4>1, <5>1 DEF Remembered, Ahead
      <4> QED
        BY <1>4, <4>2, <4>3
    <3>3. CASE height >= SigningTransactionPeriod
      <4>1. PICK pick \in [Due -> Vaults] : LackWith(pick)
        BY <2>5, <3>3, LackPicks DEF EndBlock
      <4>2. CASE t \in Due
        BY <1>1, <1>4, <2>5, <3>1, <3>3, <4>1, <4>2, LookedAt
      <4>3. CASE t \notin Due
        <5>1. t \in txOut'
          BY <2>1, <4>1, <4>3 DEF LackWith
        <5> QED
          BY <3>2, <4>3, <5>1
      <4> QED
        BY <4>2, <4>3
    <3>4. CASE ~ (height >= SigningTransactionPeriod)
      <4>1. t \in txOut'
        BY <2>1, <2>5, <3>4 DEF EndBlock
      <4>2. height < SigningTransactionPeriod
        BY <2>2, <3>4
      <4> QED
        BY <3>2, <4>1, <4>2
    <3> QED
      BY <3>3, <3>4
  <2> QED
    BY <2>1, <2>3, <2>4, <2>5 DEF Next, vars, Sign, Broadcast, Churn, Freeze, PoolGone
<1> QED
  BY <1>2, <1>3, <1>4 DEF Remembered

LEMMA InitRemembers == Init => NotForgotten
<1> SUFFICES ASSUME Init, NEW a \in Actions
             PROVE  Remembered(a)
  BY NotForgottenIs
<1> DEFINE t == [action |-> a, vault |-> FirstVault[a], height |-> 1, outHash |-> Empty]
<1>1. t \in Open /\ t.action = a /\ t.height = 1
  BY DEF Open, Init
<1>2. 1 >= height - SigningTransactionPeriod
  BY OutboundAssumption DEF Init
<1> HIDE DEF t
<1> QED
  BY <1>1, <1>2 DEF Remembered, Ahead

(* The outbound of an inbound is never forgotten: LackSigning replaces its  *)
(* item until it is paid, recovered or given up for one of the reasons the  *)
(* code has, whatever payments are late and whichever vaults are retired,   *)
(* frozen or without a pool.                                                *)
THEOREM NoOutboundIsForgotten ==
  ASSUME OneOutbound
  PROVE  Spec => []NotForgotten
<1>1. IInv /\ NotForgotten /\ [Next]_vars => NotForgotten'
  BY RememberedStep, NotForgottenIs, NotForgottenNext
<1> QED
  BY <1>1, InitRemembers, Invariance, PTL DEF Spec

-----------------------------------------------------------------------------
(* Who is charged                                                          *)

\* A payment was signed for an item of its vault.
SignedHasItem == \A p \in signed : \E t \in txOut : t.action = p[1] /\ t.vault = p[2]

FinalIsSigned == finalised \subseteq signed

OutTxsAreFinal == \A i \in DOMAIN outTxs : outTxs[i] \in finalised

\* The hash of an item is that of a final payment.
HashIsFinal == \A t \in txOut : t.outHash \in Payments => t.outHash \in finalised

\* LackSigning puts no item beyond the heights that CommonOutbound searches.
HeightBound == \A t \in Open : t.height <= RoundUp(height)

ChargeInv == /\ NotForgotten /\ ChargedWasReplaced
             /\ SignedHasItem /\ FinalIsSigned /\ OutTxsAreFinal
             /\ HashIsFinal /\ HeightBound

(* The coalesced height does not go back from a block to the next. *)
LEMMA RoundUpGrows ==
  ASSUME NEW h \in Nat
  PROVE  RoundUp(h) <= RoundUp(h + 1)
<1>1. CASE RescheduleCoalesceBlocks > 1
  <2> DEFINE r == RescheduleCoalesceBlocks
             m == h % r
             q == h \div r
             n == (h + 1) % r
             w == (h + 1) \div r
  <2>1. r \in Nat /\ r > 1
    BY <1>1, OutboundAssumption
  <2>2. /\ m \in 0 .. r - 1 /\ n \in 0 .. r - 1 /\ q \in Int /\ w \in Int
        /\ h = r * q + m /\ h + 1 = r * w + n
    BY <2>1
  <2> HIDE DEF m, q, n, w
  <2>3. CASE m = 0 \/ m = r - 1
    <3>1. RoundUp(h) <= h + 1
      BY <1>1, <2>1, <2>3 DEF RoundUp, m
    <3> QED
      BY <3>1, RoundUpType
  <2>4. CASE m # 0 /\ m # r - 1
    <3>1. r * (w - q) = m + 1 - n
      BY <2>1, <2>2
    <3>2. w - q >= 1 => r * (w - q) >= r
      BY <2>1, <2>2
    <3>3. w - q <= -1 => r * (w - q) <= -r
      BY <2>1, <2>2
    <3>4. m + 1 - n < r /\ m + 1 - n > -r
      BY <2>1, <2>2, <2>4
    <3>5. w - q = 0
      BY <2>1, <2>2, <3>1, <3>2, <3>3, <3>4
    <3>6. n = m + 1
      BY <2>1, <2>2, <3>1, <3>5
    <3> QED
      BY <1>1, <2>1, <2>2, <2>4, <3>6 DEF RoundUp, m, n
  <2> QED
    BY <2>3, <2>4
<1>2. CASE ~ (RescheduleCoalesceBlocks > 1)
  BY <1>2 DEF RoundUp
<1> QED
  BY <1>1, <1>2

LEMMA HeightStep ==
  ASSUME IInv, HeightBound, [Next]_vars
  PROVE  HeightBound'
<1>1. TypeOK /\ height \in Nat
  BY DueIs DEF IInv
<1>2. ASSUME height' = height, Open' \subseteq Open
      PROVE  HeightBound'
  BY <1>2 DEF HeightBound, RoundUp
<1>3. ASSUME NEW n \in Nodes, NEW p \in Payments, Observe(n, p)
      PROVE  Open' \subseteq Open
  <2>1. CASE txOut' = txOut
    BY <2>1 DEF Open
  <2>2. CASE txOut' # txOut
    <3>1. PICK t \in Matching(p) : txOut' = (txOut \ {t}) \cup {[t EXCEPT !.outHash = p]}
      BY <1>3, <2>2 DEF Observe, CommonOutbound
    <3>2. t \in TxOutItems /\ p \in Hash
      BY <1>1, MatchingIs, DueIs DEF Hash
    <3>3. [t EXCEPT !.outHash = p].outHash # Empty
      BY <3>2, ItemHashed, Hashes
    <3> QED
      BY <3>1, <3>3 DEF Open
  <2> QED
    BY <2>1, <2>2
<1>4. ASSUME EndBlock
      PROVE  HeightBound'
  <2>1. height' = height + 1
    BY <1>4 DEF EndBlock
  <2>2. RoundUp(height) \in Nat /\ RoundUp(height') \in Nat /\ RoundUp(height) <= RoundUp(height')
    BY <1>1, <2>1, RoundUpType, RoundUpGrows
  <2>3. ASSUME NEW t \in Open'
        PROVE  t.height \in Nat /\ t.height <= RoundUp(height)
    <3>1. CASE t \in Open
      BY <1>1, <3>1, DueIs, ItemFields DEF HeightBound
    <3>2. CASE t \notin Open
      <4>1. LackSigning
        BY <1>4, <3>2 DEF EndBlock, Open
      <4>2. PICK pick \in [Due -> Vaults] : LackWith(pick)
        BY <4>1, LackPicks
      <4>3. PICK u \in Open : Follows(u, t, pick)
        BY <1>1, <4>2, LackFollows
      <4>4. u \in Due /\ t = New(u, pick[u]) /\ u \in TxOutItems /\ pick[u] \in Vaults
        BY <1>1, <3>2, <4>3, DueIs DEF Follows
      <4> QED
        BY <1>1, <2>2, <4>4, NewIs
    <3> QED
      BY <3>1, <3>2
  <2>4. \A t \in Open' : t.height <= RoundUp(height')
    BY <2>2, <2>3
  <2>5. RoundUp(height)' = RoundUp(height')
    BY DEF RoundUp
  <2> QED
    BY <2>4, <2>5 DEF HeightBound
<1>5. \/ EndBlock
      \/ height' = height /\ Open' \subseteq Open
  BY <1>3 DEF Next, vars, Sign, Broadcast, Observe, Churn, Freeze, PoolGone, Open
<1> QED
  BY <1>2, <1>4, <1>5

(* An item keeps its action and its vault for ever. *)
LEMMA ItemsStay ==
  ASSUME TypeOK, [Next]_vars, NEW t \in txOut
  PROVE  \E u \in txOut' : u.action = t.action /\ u.vault = t.vault
<1>1. ASSUME NEW n \in Nodes, NEW p \in Payments, Observe(n, p), t \notin txOut'
      PROVE  \E u \in txOut' : u.action = t.action /\ u.vault = t.vault
  <2>1. PICK w \in Matching(p) : txOut' = (txOut \ {w}) \cup {[w EXCEPT !.outHash = p]}
    BY <1>1 DEF Observe, CommonOutbound
  <2>2. w = t /\ t \in TxOutItems /\ p \in Hash
    BY <1>1, <2>1, DueIs DEF Hash
  <2>3. /\ [t EXCEPT !.outHash = p].action = t.action
        /\ [t EXCEPT !.outHash = p].vault = t.vault
    BY <2>2, ItemHashed
  <2> QED
    BY <2>1, <2>2, <2>3
<1>2. ASSUME EndBlock, t \notin txOut'
      PROVE  \E u \in txOut' : u.action = t.action /\ u.vault = t.vault
  <2>1. LackSigning
    BY <1>2 DEF EndBlock
  <2>2. t \in Due /\ Mark(t) \in txOut'
    BY <1>2, <2>1 DEF LackSigning
  <2>3. Mark(t).action = t.action /\ Mark(t).vault = t.vault
    BY <2>2, DueIs, MarkIs
  <2> QED
    BY <2>2, <2>3
<1> QED
  BY <1>1, <1>2 DEF Next, vars, Sign, Broadcast, Churn, Freeze, PoolGone

LEMMA SignedStep ==
  ASSUME IInv, SignedHasItem, FinalIsSigned, [Next]_vars
  PROVE  SignedHasItem' /\ FinalIsSigned'
<1>1. TypeOK /\ broadcast \subseteq signed
  BY DEF IInv, TypeOK
<1>2. ASSUME NEW p \in signed
      PROVE  \E t \in txOut' : t.action = p[1] /\ t.vault = p[2]
  <2>1. PICK t \in txOut : t.action = p[1] /\ t.vault = p[2]
    BY DEF SignedHasItem
  <2>2. \E u \in txOut' : u.action = t.action /\ u.vault = t.vault
    BY <1>1, ItemsStay
  <2> QED
    BY <2>1, <2>2
<1>3. ASSUME NEW p \in signed' \ signed
      PROVE  \E t \in txOut' : t.action = p[1] /\ t.vault = p[2]
  <2>1. PICK t \in Open : Sign(t)
    BY <1>3 DEF Next, vars, Broadcast, Observe, EndBlock, Churn, Freeze, PoolGone
  <2>2. t \in txOut' /\ p = <<t.action, t.vault>>
    BY <1>3, <2>1 DEF Sign, Open
  <2> QED
    BY <2>2
<1>4. SignedHasItem'
  BY <1>2, <1>3 DEF SignedHasItem
<1>5. finalised' \subseteq signed'
  BY <1>1 DEF FinalIsSigned, Next, vars, Sign, Broadcast, Observe, EndBlock, Churn, Freeze,
              PoolGone
<1> QED
  BY <1>4, <1>5 DEF FinalIsSigned

LEMMA FinalStep ==
  ASSUME IInv, OutTxsAreFinal, HashIsFinal, [Next]_vars
  PROVE  OutTxsAreFinal' /\ HashIsFinal'
<1>1. TypeOK /\ outTxs \in Seq(Payments)
  BY DEF IInv, TypeOK
<1>2. ASSUME UNCHANGED <<txOut, outTxs, finalised>>
      PROVE  OutTxsAreFinal' /\ HashIsFinal'
  BY <1>2 DEF OutTxsAreFinal, HashIsFinal
<1>3. ASSUME NEW n \in Nodes, NEW p \in Payments, Observe(n, p)
      PROVE  OutTxsAreFinal' /\ HashIsFinal'
  <2>1. CASE UNCHANGED <<txOut, outTxs, finalised>>
    BY <1>2, <2>1
  <2>2. CASE ~ UNCHANGED <<txOut, outTxs, finalised>>
    <3>1. finalised' = finalised \cup {p} /\ CommonOutbound(p)
      BY <1>3, <2>2 DEF Observe
    <3>2. outTxs' = Append(outTxs, p)
      BY <3>1 DEF CommonOutbound
    <3>3. OutTxsAreFinal'
      <4>1. /\ Len(outTxs') = Len(outTxs) + 1 /\ outTxs' \in Seq(Payments)
            /\ \A i \in 1 .. Len(outTxs) : outTxs'[i] = outTxs[i]
            /\ outTxs'[Len(outTxs) + 1] = p
        BY <1>1, <3>2, AppendProperties
      <4>2. /\ Len(outTxs) \in Nat /\ DOMAIN outTxs = 1 .. Len(outTxs)
            /\ DOMAIN outTxs' = 1 .. Len(outTxs')
        BY <1>1, <4>1, LenProperties
      <4>3. \A i \in DOMAIN outTxs' : i \in DOMAIN outTxs \/ i = Len(outTxs) + 1
        BY <4>1, <4>2
      <4>4. ASSUME NEW i \in DOMAIN outTxs'
            PROVE  outTxs'[i] \in finalised'
        BY <3>1, <4>1, <4>2, <4>3 DEF OutTxsAreFinal
      <4> QED
        BY <4>4 DEF OutTxsAreFinal
    <3>4. HashIsFinal'
      <4>1. CASE txOut' = txOut
        BY <3>1, <4>1 DEF HashIsFinal
      <4>2. CASE txOut' # txOut
        <5>1. PICK t \in Matching(p) :
                txOut' = (txOut \ {t}) \cup {[t EXCEPT !.outHash = p]}
          BY <3>1, <4>2 DEF CommonOutbound
        <5>2. t \in TxOutItems /\ p \in Hash
          BY <1>1, MatchingIs, DueIs DEF Hash
        <5>3. [t EXCEPT !.outHash = p].outHash = p
          BY <5>2, ItemHashed
        <5> QED
          BY <3>1, <5>1, <5>3 DEF HashIsFinal
      <4> QED
        BY <4>1, <4>2
    <3> QED
      BY <3>3, <3>4
  <2> QED
    BY <2>1, <2>2
<1>4. ASSUME EndBlock
      PROVE  OutTxsAreFinal' /\ HashIsFinal'
  <2>1. UNCHANGED <<outTxs, finalised>>
    BY <1>4 DEF EndBlock
  <2>2. ASSUME LackSigning
        PROVE  HashIsFinal'
    <3>1. PICK pick \in [Due -> Vaults] : LackWith(pick)
      BY <2>2, LackPicks
    <3>2. ASSUME NEW t \in Due
          PROVE  Mark(t).outHash \in Payments => Mark(t).outHash \in finalised
      <4>1. t \in TxOutItems /\ t.outHash = Empty
        BY <1>1, DueIs
      <4>2. CASE Reschedules(t) \/ Recovers(t)
        BY <1>1, <4>1, <4>2, MarkIs, Hashes
      <4>3. CASE ~ Reschedules(t) /\ ~ Recovers(t) /\ ClosesAsDone(t)
        <5>1. Mark(t).outHash = outTxs[1] /\ outTxs # <<>>
          BY <1>1, <4>1, <4>3, MarkIs
        <5>2. 1 \in DOMAIN outTxs
          BY <1>1, <5>1, LenProperties, EmptySeq
        <5> QED
          BY <5>1, <5>2 DEF OutTxsAreFinal
      <4>4. CASE ~ Reschedules(t) /\ ~ Recovers(t) /\ ~ ClosesAsDone(t)
        BY <1>1, <4>1, <4>4, MarkIs, Hashes
      <4> QED
        BY <4>2, <4>3, <4>4
    <3>3. \A t \in Due : New(t, pick[t]).outHash = Empty
      BY DEF New
    <3>4. ASSUME NEW u \in txOut', u.outHash \in Payments
          PROVE  u.outHash \in finalised
      BY <3>1, <3>2, <3>3, <3>4, Hashes DEF LackWith, HashIsFinal
    <3> QED
      BY <2>1, <3>4 DEF HashIsFinal
  <2>3. HashIsFinal'
    BY <1>4, <2>1, <2>2 DEF EndBlock, HashIsFinal
  <2> QED
    BY <2>1, <2>3 DEF OutTxsAreFinal
<1> QED
  BY <1>2, <1>3, <1>4 DEF Next, vars, Sign, Broadcast, Churn, Freeze, PoolGone

\* The outbound of payment p is with another vault, recovered or given up.
Replaced(p) ==
  \/ \E t \in txOut : t.action = p[1] /\ t.vault # p[2]
  \/ p[1] \in recovered
  \/ \E t \in Open : t.action = p[1] /\ PassedOver(t)

LEMMA ChargedIs ==
  /\ ChargedWasReplaced <=> \A p \in slashed : Replaced(p)
  /\ ChargedWasReplaced' <=> \A p \in slashed' : Replaced(p)'
  BY GivenUpIs, GivenUpNext DEF ChargedWasReplaced, Replaced

(* A payment that was charged cannot settle the item that was given up: the *)
(* handler runs once for a payment.                                         *)
LEMMA ReplacedStays ==
  ASSUME IInv, [Next]_vars, NEW p \in finalised, Replaced(p)
  PROVE  Replaced(p)'
<1>1. TypeOK /\ Onward /\ p \in Payments
  BY NextOnward DEF IInv, TypeOK
<1>2. ASSUME NEW t \in txOut, t.action = p[1], t.vault # p[2]
      PROVE  Replaced(p)'
  <2>1. PICK u \in txOut' : u.action = t.action /\ u.vault = t.vault
    BY <1>1, ItemsStay
  <2> QED
    BY <1>2, <2>1 DEF Replaced
<1>3. CASE p[1] \in recovered
  <2>1. LackSigning => recovered \subseteq recovered'
    BY DEF LackSigning
  <2>2. p[1] \in recovered'
    BY <1>3, <2>1 DEF Next, vars, Sign, Broadcast, Observe, EndBlock, Churn, Freeze, PoolGone
  <2> QED
    BY <2>2 DEF Replaced
<1>4. ASSUME NEW t \in Open, t.action = p[1], PassedOver(t)
      PROVE  Replaced(p)'
  <2>1. t \in txOut /\ t \in TxOutItems /\ t.outHash = Empty
    BY <1>1, DueIs
  <2>2. CASE t \in txOut'
    BY <1>1, <1>4, <2>1, <2>2, PassedOverStays DEF Replaced, Open
  <2>3. CASE t \notin txOut'
    <3>1. t \notin Due
      <4>1. t.height \in Nat /\ height \in Nat /\ SigningTransactionPeriod \in Nat
        BY <1>1, <2>1, ItemFields, DueIs, OutboundAssumption
      <4> QED
        BY <1>4, <4>1 DEF Due, PassedOver
    <3>2. ~ EndBlock
      BY <2>1, <2>3, <3>1 DEF EndBlock, LackSigning
    <3>3. PICK n \in Nodes, q \in Payments : Observe(n, q)
      BY <2>1, <2>3, <3>2 DEF Next, vars, Sign, Broadcast, Churn, Freeze, PoolGone
    <3>4. CommonOutbound(q) /\ q \notin finalised
      BY <2>1, <2>3, <3>3 DEF Observe
    <3>5. t \in Matching(q)
      BY <2>1, <2>3, <3>4 DEF CommonOutbound
    <3>6. t.action = q[1] /\ t.vault = q[2]
      BY <3>5, MatchingIs
    <3>7. t.vault # p[2]
      BY <1>1, <1>4, <3>4, <3>6, PaymentIs
    <3> QED
      BY <1>2, <1>4, <2>1, <3>7
  <2> QED
    BY <2>2, <2>3
<1> QED
  BY <1>2, <1>3, <1>4 DEF Replaced

(* A payment without an item to settle comes too late for its vault: had    *)
(* the vault kept the outbound, its item would be in the range of heights   *)
(* that the handler searches.                                               *)
LEMMA UnmatchedIsReplaced ==
  ASSUME IInv, ChargeInv, OneOutbound, SigningTransactionPeriod <= ConstantPeriod,
         NEW p \in signed \ finalised, Matching(p) = {}
  PROVE  Replaced(p)
<1>1. /\ TypeOK /\ p \in Payments /\ p[1] \in Actions /\ height \in Nat
      /\ SigningTransactionPeriod \in Nat /\ ConstantPeriod \in Nat
  BY PaymentIs, DueIs, OutboundAssumption DEF IInv, TypeOK
<1>2. Remembered(p[1])
  BY <1>1, NotForgottenIs DEF ChargeInv
<1>3. SUFFICES ASSUME \A t \in txOut : t.action = p[1] => t.vault = p[2]
               PROVE  Replaced(p)
  BY DEF Replaced
<1>4. ~ Settled(p[1])
  <2>1. SUFFICES ASSUME NEW t \in txOut, t.outHash \in Payments, t.outHash[1] = p[1]
                 PROVE  FALSE
    BY DEF Settled
  <2>2. t.outHash \in finalised /\ t.outHash \in signed
    BY <2>1 DEF ChargeInv, HashIsFinal, FinalIsSigned
  <2>3. PICK u \in txOut : u.action = t.outHash[1] /\ u.vault = t.outHash[2]
    BY <2>2 DEF ChargeInv, SignedHasItem
  <2>4. t.outHash[2] = p[2]
    BY <1>3, <2>1, <2>3
  <2>5. t.outHash = p
    BY <1>1, <2>1, <2>4, PaymentIs
  <2> QED
    BY <2>2, <2>5
<1>5. ASSUME NEW t \in Open, t.action = p[1], Ahead(t)
      PROVE  FALSE
  <2>1. t \in txOut /\ t \in TxOutItems /\ t.height \in Nat
    BY <1>1, DueIs, ItemFields
  <2>2. t.vault = p[2]
    BY <1>3, <1>5, <2>1
  <2>3. t.height <= RoundUp(height)
    BY DEF ChargeInv, HeightBound
  <2>4. EarliestHeight <= t.height
    BY <1>1, <1>5, <2>1 DEF EarliestHeight, FinalisedHeight, Ahead
  <2>5. t \in Matching(p)
    BY <1>5, <2>2, <2>3, <2>4 DEF Matching
  <2> QED
    BY <2>5
<1> QED
  BY <1>2, <1>4, <1>5 DEF Remembered, Replaced

LEMMA ChargedStep ==
  ASSUME IInv, ChargeInv, OneOutbound, SigningTransactionPeriod <= ConstantPeriod,
         [Next]_vars
  PROVE  ChargedWasReplaced'
<1>1. TypeOK /\ slashed \subseteq finalised /\ broadcast \subseteq signed /\ Onward
  BY NextOnward DEF IInv, TypeOK
<1>2. \A p \in slashed : Replaced(p)'
  BY <1>1, ReplacedStays, ChargedIs DEF ChargeInv
<1>3. ASSUME NEW p \in slashed' \ slashed
      PROVE  Replaced(p)'
  <2>1. PICK n \in Nodes, q \in Payments : Observe(n, q)
    BY <1>3 DEF Next, vars, Sign, Broadcast, EndBlock, Churn, Freeze, PoolGone
  <2>2. CommonOutbound(q) /\ q \in broadcast /\ q \notin finalised /\ UNCHANGED recovered
    BY <1>3, <2>1 DEF Observe
  <2>3. Matching(q) = {} /\ q = p /\ txOut' = txOut
    BY <1>3, <2>2 DEF CommonOutbound
  <2>4. Replaced(p)
    BY <1>1, <2>2, <2>3, UnmatchedIsReplaced
  <2>5. Open' = Open /\ \A t \in Open : PassedOver(t) => PassedOver(t)'
    BY <1>1, <2>3, PassedOverStays DEF Open
  <2> QED
    BY <2>2, <2>3, <2>4, <2>5 DEF Replaced
<1> QED
  BY <1>2, <1>3, ChargedIs

LEMMA InitCharge == Init => ChargeInv
<1> SUFFICES ASSUME Init
             PROVE  ChargeInv
  OBVIOUS
<1>1. HashIsFinal
  BY Hashes DEF HashIsFinal, Init
<1>2. HeightBound
  <2>1. 1 <= RoundUp(1)
    BY RoundUpType
  <2> QED
    BY <2>1 DEF HeightBound, Open, Init
<1>3. OutTxsAreFinal
  BY DEF OutTxsAreFinal, Init
<1> QED
  BY <1>1, <1>2, <1>3, InitRemembers
     DEF ChargeInv, Init, ChargedWasReplaced, SignedHasItem, FinalIsSigned

(* A vault is charged for a payment only if its outbound had been given to  *)
(* another vault, recovered or given up.  The handler searches back for the *)
(* compiled-in period, LackSigning waits for the configured one: the first  *)
(* must not be the shorter.                                                 *)
THEOREM OnlyReplacedVaultsAreCharged ==
  ASSUME OneOutbound, SigningTransactionPeriod <= ConstantPeriod
  PROVE  Spec => []ChargedWasReplaced
<1>1. IInv /\ ChargeInv /\ [Next]_vars => ChargeInv'
  <2>1. ASSUME IInv, ChargeInv, [Next]_vars
        PROVE  NotForgotten'
    BY <2>1, RememberedStep, NotForgottenIs, NotForgottenNext DEF ChargeInv
  <2> QED
    BY <2>1, ChargedStep, SignedStep, FinalStep, HeightStep DEF ChargeInv
<1>2. ChargeInv => ChargedWasReplaced
  BY DEF ChargeInv
<1> QED
  BY <1>1, <1>2, InitCharge, Invariance, PTL DEF Spec

=============================================================================
