------------------------ MODULE ObservedTxOutProofs ------------------------
(***************************************************************************)
(* More theorems about ObservedTx: the super majority behind a consensus   *)
(* tx, the booking of an outbound, the errata of a migration, and the      *)
(* slash points, for every set of nodes, of observations and of validator  *)
(* sets.                                                                   *)
(***************************************************************************)
EXTENDS ObservedTxProofs

-----------------------------------------------------------------------------
(***************************************************************************)
(* The inductive invariants                                                *)
(***************************************************************************)

\* A super majority of the validators A agrees with v's consensus tx.
Backed(v, A) == ~IsEmpty(v.tx) => Agreed(v, v.tx, IsFinal(v.tx), A)

\* The message being executed has brought the outbound to consensus.
CrossedOut == msg.kind = "out" /\ msg.crossed

\* t is, or has the contents and finality of, what some node may have observed.
SeenOut(t) == \E o \in OutObs[memo] : Equals(t, o)
ContentsSeen(t) == \E o \in OutObs[memo] : EqualsEx(t, o) /\ IsFinal(t) = IsFinal(o)

\* Nothing is agreed on that was not observed; corrected gas neither.
OutSeenInv ==
  /\ \A i \in DOMAIN outVoter.txs : SeenOut(outVoter.txs[i])
  /\ ~IsEmpty(outVoter.tx) => ContentsSeen(outVoter.tx)
  /\ msg.kind = "out" => msg.obs \in OutObs[memo]

\* How the voter's fields depend on each other.
OutVoterInv ==
  /\ (outVoter.height # 0) <=> ~IsEmpty(outVoter.tx)
  /\ (outVoter.finalisedHeight # 0) <=> (~IsEmpty(outVoter.tx) /\ IsFinal(outVoter.tx))
  /\ outVoter.reverted => /\ outVoter.height # 0
                          /\ errataVoter.blockHeight # 0
                          /\ IsOutbound \/ IsInternal

\* A message that crosses finds the outbound agreed on and not reverted.
OutCrossInv == CrossedOut => outVoter.height # 0 /\ ~outVoter.reverted

\* Without churn no super majority on a final entry goes unnoticed, and if all
\* observations are final the message that crosses carries what is agreed on.
OutStableInv ==
  Stable => /\ outVoter.finalisedHeight = 0 => Winners(outVoter, TRUE, active) = {}
            /\ AllFinal /\ CrossedOut => EqualsEx(outVoter.tx, msg.obs)

OutboundInv == OutSeenInv /\ OutVoterInv /\ OutCrossInv /\ OutStableInv
               /\ OutboundBooked

\* The inbound half of a migration is not reverted without the outbound half.
HalvesInv == memo = "migrate" /\ inVoter.reverted => outVoter.reverted

\* The nodes that signed a final entry, or one that is not.
SignedFinal(v) ==
  {n \in Nodes : \E i \in DOMAIN v.txs : IsFinal(v.txs[i]) /\ n \in v.txs[i].signers}
SignedUnfinal(v) ==
  {n \in Nodes : \E i \in DOMAIN v.txs : ~IsFinal(v.txs[i]) /\ n \in v.txs[i].signers}

\* What node n has paid for its votes in v and may still get back: the points
\* for a vote of a finality that has not been settled, and the penalty for
\* missing the consensus among the validators A.
Owed(v, n, A) ==
  (IF v.finalisedHeight = 0 /\ n \in SignedFinal(v) THEN ObserveSlashPoints ELSE 0)
  + (IF v.height = 0 /\ n \in SignedUnfinal(v) THEN ObserveSlashPoints ELSE 0)
  + (IF v.height # 0 /\ n \in A /\ n \notin v.tx.signers
     THEN LackOfObservationPenalty ELSE 0)

OwedErrata(e, n, A) ==
  (IF e.blockHeight = 0 /\ n \in e.signers THEN ObserveSlashPoints ELSE 0)
  + (IF e.blockHeight # 0 /\ n \in A /\ n \notin e.signers
     THEN LackOfObservationPenalty ELSE 0)

\* The points s are at least the initial ones and what the nodes are owed.
Covered(s, v, w, e, A) ==
  \A n \in Nodes : s[n] >= InitSlash + Owed(v, n, A) + Owed(w, n, A) + OwedErrata(e, n, A)

\* Entries are pairwise different.
Distinct(v) == \A i, j \in DOMAIN v.txs : Equals(v.txs[i], v.txs[j]) => i = j

\* What the accounting of the slash points rests on.
VoteInv ==
  /\ Distinct(inVoter) /\ Distinct(outVoter)
  /\ (inVoter.height # 0) <=> ~IsEmpty(inVoter.tx)
  /\ msg.todo \subseteq active

\* Nothing is taken off that was not put on, also by an errata that fails and
\* restores the points.
SlashInv ==
  Stable /\ OneHeight =>
    /\ Covered(slash, inVoter, outVoter, errataVoter, active)
    /\ msg.kind = "errata" /\ errataVoter.blockHeight = 0 =>
         Covered(msg.undo.slash, inVoter, outVoter, msg.undo.errataVoter, active)

-----------------------------------------------------------------------------
(***************************************************************************)
(* What a vote does to the entries                                         *)
(***************************************************************************)

\* t and u are equal but for their signers.
Alike(t, u) == /\ t.coins = u.coins /\ t.gas = u.gas
               /\ t.blockHeight = u.blockHeight
               /\ t.finaliseHeight = u.finaliseHeight

\* Add takes no signer away, and adds no other than n, who signs an entry that
\* equals the observation.
LEMMA AddSigners ==
  ASSUME NEW v \in Voters, NEW o \in Observation, NEW n \in Nodes,
         NEW w, w = Add(v, o, n)
  PROVE  /\ \A i \in DOMAIN v.txs : /\ i \in DOMAIN w.txs
                                    /\ Alike(w.txs[i], v.txs[i])
                                    /\ v.txs[i].signers \subseteq w.txs[i].signers
         /\ \A i \in DOMAIN w.txs : \A m \in w.txs[i].signers :
              \/ i \in DOMAIN v.txs /\ m \in v.txs[i].signers
              \/ m = n /\ Equals(w.txs[i], o)
         /\ Distinct(v) => Distinct(w)
<1>1. CASE EntryOf(v, o) # {}
  <2> DEFINE txs == [i \in DOMAIN v.txs |->
                       IF i \in EntryOf(v, o)
                       THEN [v.txs[i] EXCEPT !.signers = @ \cup {n}]
                       ELSE v.txs[i]]
  <2>1. w = [v EXCEPT !.txs = txs]
    BY <1>1 DEF Add
  <2>2. w.txs = txs /\ DOMAIN txs = DOMAIN v.txs
    BY <2>1 DEF Voters
  <2>3. ASSUME NEW i \in DOMAIN v.txs
        PROVE  /\ Alike(txs[i], v.txs[i])
               /\ v.txs[i].signers \subseteq txs[i].signers
               /\ \A m \in txs[i].signers :
                    m \in v.txs[i].signers \/ (m = n /\ Equals(txs[i], o))
    <3>1. v.txs[i] \in ObservedTxs
      BY EntryType
    <3>2. CASE i \in EntryOf(v, o)
      <4>1. txs[i] = [v.txs[i] EXCEPT !.signers = @ \cup {n}]
        BY <3>2
      <4>2. /\ Alike(txs[i], v.txs[i])
            /\ txs[i].signers = v.txs[i].signers \cup {n}
        BY <3>1, <4>1 DEF Alike, ObservedTxs
      <4>3. Equals(txs[i], o)
        BY <3>2, <4>2 DEF EntryOf, Alike, Equals, EqualsEx, EqualsExIgnoreGas
      <4>4. QED
        BY <4>2, <4>3
    <3>3. CASE i \notin EntryOf(v, o)
      BY <3>3 DEF Alike
    <3>4. QED
      BY <3>2, <3>3
  <2> HIDE DEF txs
  <2>4. Distinct(v) => Distinct(w)
    BY <2>2, <2>3 DEF Distinct, Alike, Equals, EqualsEx, EqualsExIgnoreGas
  <2>5. QED
    BY <2>2, <2>3, <2>4
<1>2. CASE EntryOf(v, o) = {}
  <2> DEFINE e == [coins |-> o.coins, gas |-> o.gas,
                   blockHeight |-> o.blockHeight,
                   finaliseHeight |-> o.finaliseHeight, signers |-> {n}]
  <2>1. w = [v EXCEPT !.txs = Append(v.txs, e)]
    BY <1>2 DEF Add
  <2>2. Equals(e, o) /\ e.signers = {n} /\ e \in ObservedTxs
    BY DEF Equals, EqualsEx, EqualsExIgnoreGas, ObservedTxs, Observation
  <2> HIDE DEF e
  <2>3. w.txs = Append(v.txs, e) /\ v.txs \in Seq(ObservedTxs)
    BY <2>1 DEF Voters
  <2>4. /\ \A i \in DOMAIN v.txs : i \in DOMAIN w.txs /\ w.txs[i] = v.txs[i]
        /\ \A i \in DOMAIN w.txs : i \in DOMAIN v.txs \/ w.txs[i] = e
        /\ \A i, j \in DOMAIN w.txs : i \notin DOMAIN v.txs /\ j \notin DOMAIN v.txs => i = j
    BY <2>2, <2>3
  <2>5. \A i \in DOMAIN v.txs : ~Equals(v.txs[i], o)
    BY <1>2 DEF EntryOf
  <2>6. ASSUME NEW i \in DOMAIN v.txs, Equals(v.txs[i], e) \/ Equals(e, v.txs[i])
        PROVE  FALSE
    BY <2>2, <2>5, <2>6 DEF Equals, EqualsEx, EqualsExIgnoreGas
  <2>7. Distinct(v) => Distinct(w)
    BY <2>4, <2>6 DEF Distinct
  <2>8. QED
    BY <2>2, <2>4, <2>7 DEF Alike
<1>3. QED
  BY <1>1, <1>2

\* More votes do not undo a super majority.
LEMMA MajorityGrows ==
  ASSUME NEW S, NEW T, NEW A, IsFiniteSet(A), S \subseteq T,
         HasSuperMajority(Cardinality(S \cap A), Cardinality(A))
  PROVE  HasSuperMajority(Cardinality(T \cap A), Cardinality(A))
<1>1. /\ IsFiniteSet(T \cap A) /\ IsFiniteSet(S \cap A)
      /\ Cardinality(S \cap A) <= Cardinality(T \cap A)
      /\ Cardinality(T \cap A) <= Cardinality(A)
  BY FS_Subset
<1>2. /\ Cardinality(S \cap A) \in Nat /\ Cardinality(T \cap A) \in Nat
      /\ Cardinality(A) \in Nat
  BY <1>1, FS_CardinalityType
<1>3. PICK s \in Nat, t \in Nat, a \in Nat : /\ s = Cardinality(S \cap A)
                                             /\ t = Cardinality(T \cap A)
                                             /\ a = Cardinality(A)
  BY <1>2
<1>4. /\ s <= t /\ t <= a /\ s > 0
      /\ s >= (a * 2) \div 3 + (IF (a * 2) % 3 > 0 THEN 1 ELSE 0)
  BY <1>1, <1>3 DEF HasSuperMajority
<1>5. (a * 2) \div 3 + (IF (a * 2) % 3 > 0 THEN 1 ELSE 0) \in Int
  BY <1>3
<1>6. HasSuperMajority(t, a)
  BY <1>3, <1>4, <1>5 DEF HasSuperMajority
<1>7. QED
  BY <1>3, <1>6

LEMMA ActiveFinite ==
  ASSUME TypeOK
  PROVE  IsFiniteSet(active)
BY NodesAssumption, ConstantsAssumption, FS_Subset DEF TypeOK

\* A vote keeps what is agreed on agreed on.
LEMMA AgreedGrows ==
  ASSUME NEW v \in Voters, NEW o \in Observation, NEW n \in Nodes,
         NEW w, w = Add(v, o, n), NEW t, NEW f, NEW A, IsFiniteSet(A),
         Agreed(v, t, f, A)
  PROVE  Agreed(w, t, f, A)
<1>1. MatchingSigners(v, t, f) \subseteq MatchingSigners(w, t, f)
  <2>1. ASSUME NEW m \in MatchingSigners(v, t, f) PROVE m \in MatchingSigners(w, t, f)
    <3>1. PICK i \in DOMAIN v.txs : /\ IsFinal(v.txs[i]) = f /\ EqualsEx(v.txs[i], t)
                                    /\ m \in v.txs[i].signers
      BY DEF MatchingSigners
    <3>2. /\ i \in DOMAIN w.txs /\ Alike(w.txs[i], v.txs[i]) /\ m \in w.txs[i].signers
      BY <3>1, AddSigners
    <3>3. IsFinal(w.txs[i]) = f /\ EqualsEx(w.txs[i], t)
      BY <3>1, <3>2 DEF Alike, IsFinal, EqualsEx, EqualsExIgnoreGas
    <3>4. QED
      BY <3>2, <3>3 DEF MatchingSigners
  <2>2. QED
    BY <2>1
<1>2. QED
  BY <1>1, MajorityGrows DEF Agreed

\* Whether a super majority agrees depends on the entries and the contents.
LEMMA AgreedAlike ==
  ASSUME NEW v, NEW w, w.txs = v.txs, NEW t, NEW u, EqualsEx(t, u), NEW f, NEW A,
         Agreed(v, t, f, A)
  PROVE  Agreed(w, u, f, A)
<1>1. \A j \in DOMAIN v.txs : EqualsEx(v.txs[j], t) <=> EqualsEx(v.txs[j], u)
  BY DEF EqualsEx, EqualsExIgnoreGas
<1>2. MatchingSigners(w, u, f) = MatchingSigners(v, t, f)
  BY <1>1 DEF MatchingSigners
<1>3. QED
  BY <1>2 DEF Agreed

-----------------------------------------------------------------------------
(***************************************************************************)
(* The super majority behind a consensus tx                                *)
(***************************************************************************)

\* What getConsensusTx returns has the super majority it was chosen for.
LEMMA BackedGetTx ==
  ASSUME NEW v \in Voters, NEW A, Backed(v, A), ~IsEmpty(GetTx(v, A))
  PROVE  Agreed(v, GetTx(v, A), IsFinal(GetTx(v, A)), A)
<1>1. \A f \in BOOLEAN : Winners(v, f, A) \in SUBSET Nat
  BY DEF Winners, Voters
<1>2. \A f \in BOOLEAN : Winners(v, f, A) # {} =>
        First(Winners(v, f, A)) \in Winners(v, f, A)
  BY <1>1, FirstIsMember
<1>3. \A f \in BOOLEAN : \A i \in Winners(v, f, A) :
        IsFinal(v.txs[i]) = f /\ Agreed(v, v.txs[i], f, A)
  BY DEF Winners
<1>4. ASSUME NEW f \in BOOLEAN, Winners(v, f, A) # {},
             GetTx(v, A) = v.txs[First(Winners(v, f, A))]
      PROVE  Agreed(v, GetTx(v, A), IsFinal(GetTx(v, A)), A)
  BY <1>2, <1>3, <1>4
<1>5. CASE GetTx(v, A) = v.tx
  BY <1>5 DEF Backed
<1>6. QED
  BY <1>4, <1>5 DEF GetTx

\* Adding a vote, recording what GetTx returns, and a late signature.
LEMMA BackedSteps ==
  ASSUME TypeOK, NEW u \in Voters, Backed(u, active), NEW n \in Nodes,
         NEW o \in Observation, NEW v, v = Add(u, o, n)
  PROVE  /\ v \in Voters
         /\ Backed(v, active)
         /\ Backed(Unfinalised(v), active)
         /\ Backed(Finalised(v), active)
         /\ Backed(FinalisedOut(v), active)
         /\ Backed(LateSigned(v, n), active)
<1>1. v \in Voters /\ v.tx = u.tx
  BY AddType
<1>2. Backed(v, active)
  <2>1. SUFFICES ASSUME ~IsEmpty(v.tx)
                 PROVE  Agreed(v, v.tx, IsFinal(v.tx), active)
    BY DEF Backed
  <2>2. Agreed(u, v.tx, IsFinal(v.tx), active)
    BY <1>1, <2>1 DEF Backed
  <2>3. QED
    BY <1>1, <2>2, ActiveFinite, AgreedGrows
<1>3. ASSUME NEW w, w.txs = v.txs, w.tx = GetTx(v, active)
      PROVE  Backed(w, active)
  <2>1. SUFFICES ASSUME ~IsEmpty(w.tx)
                 PROVE  Agreed(w, w.tx, IsFinal(w.tx), active)
    BY DEF Backed
  <2>2. Agreed(v, w.tx, IsFinal(w.tx), active)
    BY <1>1, <1>2, <1>3, <2>1, BackedGetTx
  <2>3. QED
    BY <1>3, <2>2, AgreedAlike DEF EqualsEx, EqualsExIgnoreGas
<1>4. Backed(LateSigned(v, n), active)
  <2>1. PICK w : w = LateSigned(v, n)
    OBVIOUS
  <2>2. w.txs = v.txs /\ w.tx = [v.tx EXCEPT !.signers = @ \cup {n}]
    BY <1>1, <2>1, VoterStepType
  <2>3. v.tx \in ObservedTxs
    BY <1>1 DEF Voters
  <2>4. EqualsEx(v.tx, w.tx) /\ IsFinal(w.tx) = IsFinal(v.tx) /\ IsEmpty(w.tx) = IsEmpty(v.tx)
    BY <2>2, <2>3 DEF EqualsEx, EqualsExIgnoreGas, IsFinal, IsEmpty, ObservedTxs
  <2>5. SUFFICES ASSUME ~IsEmpty(v.tx)
                 PROVE  Agreed(w, w.tx, IsFinal(v.tx), active)
    BY <2>1, <2>4 DEF Backed
  <2>6. Agreed(v, v.tx, IsFinal(v.tx), active)
    BY <1>2, <2>5 DEF Backed
  <2>7. QED
    BY <2>2, <2>4, <2>6, AgreedAlike
<1>5. QED
  BY <1>1, <1>2, <1>3, <1>4, VoterStepType

\* The gas correction replaces the gas by one that has a super majority, too.
LEMMA BackedCorrect ==
  ASSUME TypeOK, NEW v \in Voters, Backed(v, active), CorrectGas(v)
  PROVE  Backed(outVoter', active)
<1>1. CASE ~CorrectsGas(v)
  BY <1>1 DEF CorrectGas
<1>2. CASE CorrectsGas(v)
  <2>1. PICK w : w = outVoter'
    OBVIOUS
  <2>2. w = [v EXCEPT !.tx.gas = msg.obs.gas] /\ v.tx \in ObservedTxs
    BY <1>2, <2>1 DEF CorrectGas, Voters
  <2>3. w.txs = v.txs /\ w.tx = [v.tx EXCEPT !.gas = msg.obs.gas]
    BY <2>2 DEF Voters
  <2>4. /\ w.tx.coins = v.tx.coins /\ w.tx.gas = msg.obs.gas
        /\ w.tx.blockHeight = v.tx.blockHeight
        /\ w.tx.finaliseHeight = v.tx.finaliseHeight
    BY <2>2, <2>3 DEF ObservedTxs
  <2>5. EqualsEx(msg.obs, w.tx)
    BY <1>2, <2>4 DEF CorrectsGas, EqualsEx, EqualsExIgnoreGas
  <2>6. SUFFICES ASSUME ~IsEmpty(w.tx)
                 PROVE  Agreed(w, w.tx, IsFinal(w.tx), active)
    BY <2>1 DEF Backed
  <2>7. IsFinal(w.tx) = IsFinal(v.tx) /\ ~IsEmpty(v.tx)
    BY <2>4, <2>6 DEF IsFinal, IsEmpty
  <2>8. IsFinal(v.tx) = IsFinal(msg.obs)
    <3>1. IsFinal(v.tx) => HasFinalised(v, active)
      BY <2>7 DEF HasFinalised, GetTx
    <3>2. IsFinal(v.tx) \in BOOLEAN /\ IsFinal(msg.obs) \in BOOLEAN
      BY DEF IsFinal
    <3>3. QED
      BY <1>2, <3>1, <3>2 DEF CorrectsGas
  <2>9. Agreed(v, msg.obs, IsFinal(w.tx), active)
    BY <1>2, <2>7, <2>8 DEF CorrectsGas
  <2>10. QED
    BY <2>3, <2>5, <2>9, AgreedAlike
<1>3. QED
  BY <1>1, <1>2

\* Only an attestation touches the entries and the consensus tx.
LEMMA OnlyAttestations ==
  ASSUME TypeOK, [Next]_vars
  PROVE  /\ AttestIn \/ (inVoter'.txs = inVoter.txs /\ inVoter'.tx = inVoter.tx)
         /\ AttestOut \/ (outVoter'.txs = outVoter.txs /\ outVoter'.tx = outVoter.tx)
         /\ AttestIn => outVoter' = outVoter
         /\ AttestOut => inVoter' = inVoter
         /\ Stable => active' = active
<1>1. /\ inVoter \in Voters /\ outVoter \in Voters
      /\ AttestIn => outVoter' = outVoter
      /\ AttestOut => inVoter' = inVoter
  BY DEF TypeOK, AttestIn, AttestOut
<1>2. ASSUME CreditVault \/ InReverted
      PROVE  inVoter'.txs = inVoter.txs /\ inVoter'.tx = inVoter.tx
  BY <1>1, <1>2 DEF CreditVault, InReverted, Voters
<1>3. ASSUME NEW f, OutboundErrata(f)
      PROVE  outVoter'.txs = outVoter.txs /\ outVoter'.tx = outVoter.tx
  BY <1>1, <1>3 DEF OutboundErrata, Voters
<1>4. CASE AttestIn \/ AttestOut \/ UNCHANGED vars
  BY <1>4 DEF AttestIn, AttestOut, vars
<1>5. CASE DeliverSingle \/ DeliverQuorum \/ RunSwapQueue \/ ErrataDone \/ NextBlock
  BY <1>1, <1>5 DEF DeliverSingle, DeliverQuorum, DeliverMsg, Deliver, RunSwapQueue,
              ErrataDone, NextBlock
<1>6. CASE HandleIn
  <2>1. HandleInIgnored \/ HandleInCredited \/ \E r : Dispatch(r)
    BY <1>6 DEF HandleIn, HandleInRefund, HandleInSwap, HandleInAdd
  <2>2. UNCHANGED inVoter \/ CreditVault
    BY <2>1 DEF HandleInIgnored, HandleInCredited, Dispatch
  <2>3. UNCHANGED <<outVoter, active>>
    BY <2>1 DEF HandleInIgnored, HandleInCredited, Dispatch
  <2>4. QED
    BY <1>1, <1>2, <2>2, <2>3
<1>7. CASE HandleOut
  BY <1>1, <1>7 DEF HandleOut, HandleOutIgnored, HandleOutCancel, HandleOutUnexpected,
              HandleOutDone
<1>8. CASE AttestErrata
  <2>1. active' = active
    BY <1>8 DEF AttestErrata
  <2>2. PICK n : \/ ErrataDuplicate(n) \/ ErrataPending(n) \/ ErrataLate(n)
                 \/ ErrataFails(n) \/ ErrataOutboundOnly(n) \/ ErrataTooEarly(n)
                 \/ ErrataUnfinal(n) \/ ErrataInternal(n) \/ ErrataFinal(n)
    BY <1>8 DEF AttestErrata
  <2>3. UNCHANGED inVoter \/ InReverted
    BY <2>2 DEF ErrataDuplicate, ErrataPending, ErrataLate, ErrataFails,
                ErrataOutboundOnly, ErrataTooEarly, ErrataUnfinal, ErrataInternal,
                ErrataFinal
  <2>4. UNCHANGED outVoter \/ \E f : OutboundErrata(f)
    BY <2>2 DEF ErrataDuplicate, ErrataPending, ErrataLate, ErrataFails,
                ErrataOutboundOnly, ErrataTooEarly, ErrataUnfinal, ErrataInternal,
                ErrataFinal
  <2>5. QED
    BY <1>1, <1>2, <1>3, <2>1, <2>3, <2>4
<1>9. CASE Churn
  <2>1. Stable => active' = active
    BY <1>9 DEF Churn, Stable, TypeOK
  <2>2. QED
    BY <1>1, <1>9, <2>1 DEF Churn
<1>10. QED
  BY <1>4, <1>5, <1>6, <1>7, <1>8, <1>9 DEF Next

BackedInv == Stable => Backed(inVoter, active) /\ Backed(outVoter, active)

LEMMA NextBacked ==
  ASSUME TypeOK, BackedInv, [Next]_vars
  PROVE  BackedInv'
<1>1. SUFFICES ASSUME Stable
               PROVE  Backed(inVoter', active) /\ Backed(outVoter', active)
  BY OnlyAttestations DEF BackedInv, Stable
<1>2. /\ Backed(inVoter, active) /\ Backed(outVoter, active)
      /\ inVoter \in Voters /\ outVoter \in Voters
  BY <1>1 DEF BackedInv, TypeOK
<1>3. ASSUME NEW v, NEW w, Backed(v, active), w.txs = v.txs, w.tx = v.tx
      PROVE  Backed(w, active)
  BY <1>3 DEF Backed, Agreed, MatchingSigners
<1>4. CASE AttestIn
  <2>1. PICK n \in msg.todo : InDuplicate(n) \/ InFinal(n) \/ InUnfinal(n)
                              \/ InLate(n) \/ InRecorded(n)
    BY <1>4 DEF AttestIn
  <2>2. n \in Nodes /\ msg.obs \in Observation
    BY DEF TypeOK, Msgs
  <2>3. Backed(inVoter', active)
    BY <1>2, <2>1, <2>2, BackedSteps
       DEF InDuplicate, InFinal, InUnfinal, InLate, InRecorded
  <2>4. QED
    BY <1>2, <1>4, <2>3, OnlyAttestations
<1>5. CASE AttestOut
  <2>1. PICK n \in msg.todo : OutDuplicate(n) \/ OutFinal(n) \/ OutUnfinal(n)
                              \/ OutLate(n) \/ OutRecorded(n)
    BY <1>5 DEF AttestOut
  <2>2. n \in Nodes /\ msg.obs \in Observation
    BY DEF TypeOK, Msgs
  <2>3. PICK v : v = Add(outVoter, msg.obs, n)
    OBVIOUS
  <2>4. /\ v \in Voters /\ Backed(v, active)
        /\ Unfinalised(v) \in Voters /\ Backed(Unfinalised(v), active)
        /\ FinalisedOut(v) \in Voters /\ Backed(FinalisedOut(v), active)
        /\ LateSigned(v, n) \in Voters /\ Backed(LateSigned(v, n), active)
    BY <1>2, <2>2, <2>3, BackedSteps, VoterStepType
  <2>5. Backed(outVoter', active)
    BY <1>2, <2>1, <2>3, <2>4, BackedCorrect
       DEF OutDuplicate, OutFinal, OutUnfinal, OutLate, OutRecorded
  <2>6. QED
    BY <1>2, <1>5, <2>5, OnlyAttestations
<1>6. CASE ~AttestIn /\ ~AttestOut
  BY <1>2, <1>3, <1>6, OnlyAttestations
<1>7. QED
  BY <1>4, <1>5, <1>6

\* Without churn a super majority of the active validators stands behind the
\* consensus tx of either voter at all times: when getConsensusTx chose it,
\* when late signers join it and when correctOutboundGas changes its gas.
THEOREM ConsensusIsBacked == Spec => []ConsensusHasMajority
<1>1. Init => BackedInv
  BY DEF Init, BackedInv, Backed, NewVoter, NoTx, IsEmpty
<1>2. TypeOK /\ BackedInv /\ [Next]_vars => BackedInv'
  BY NextBacked
<1>3. BackedInv => ConsensusHasMajority
  BY DEF BackedInv, Backed, ConsensusHasMajority
<1>4. QED
  BY <1>1, <1>2, <1>3, TypeCorrect, PTL DEF Spec

-----------------------------------------------------------------------------
(***************************************************************************)
(* Errata of a migration                                                   *)
(***************************************************************************)

\* The receiving side of a migration is observed when it is final.  (Errata of
\* one that is agreed on and not final returns before the outbound half.)
FinalMigrations == \A m \in Memos : m = "migrate" => \A o \in InObs[m] : IsFinal(o)

LEMMA NextHalves ==
  ASSUME FinalMigrations, TypeOK, InboundInv, HalvesInv, [Next]_vars
  PROVE  HalvesInv'
<1>1. inVoter \in Voters /\ outVoter \in Voters
  BY DEF TypeOK
<1>2. ASSUME memo' = memo, inVoter'.reverted = inVoter.reverted,
             outVoter'.reverted = outVoter.reverted
      PROVE  HalvesInv'
  BY <1>2 DEF HalvesInv
<1>3. CASE AttestIn
  <2>1. PICK n \in msg.todo : InDuplicate(n) \/ InFinal(n) \/ InUnfinal(n)
                              \/ InLate(n) \/ InRecorded(n)
    BY <1>3 DEF AttestIn
  <2>2. n \in Nodes /\ msg.obs \in Observation
    BY DEF TypeOK, Msgs
  <2>3. PICK v : v = Add(inVoter, msg.obs, n)
    OBVIOUS
  <2>4. v \in Voters /\ v.reverted = inVoter.reverted
    BY <1>1, <2>2, <2>3, AddType
  <2>5. inVoter'.reverted = inVoter.reverted
    <3>1. /\ Finalised(v).reverted = v.reverted
          /\ Unfinalised(v).reverted = v.reverted
          /\ LateSigned(v, n).reverted = v.reverted
      BY <2>2, <2>4, VoterStepType
    <3>2. QED
      BY <2>1, <2>3, <2>4, <3>1
         DEF InDuplicate, InFinal, InUnfinal, InLate, InRecorded
  <2>6. QED
    BY <1>2, <1>3, <2>5 DEF AttestIn
<1>4. CASE AttestOut
  <2>1. PICK n \in msg.todo : OutDuplicate(n) \/ OutFinal(n) \/ OutUnfinal(n)
                              \/ OutLate(n) \/ OutRecorded(n)
    BY <1>4 DEF AttestOut
  <2>2. n \in Nodes /\ msg.obs \in Observation
    BY DEF TypeOK, Msgs
  <2>3. PICK v : v = Add(outVoter, msg.obs, n)
    OBVIOUS
  <2>4. v \in Voters /\ v.reverted = outVoter.reverted
    BY <1>1, <2>2, <2>3, AddType
  <2>5. ASSUME NEW w \in Voters, CorrectGas(w) PROVE outVoter'.reverted = w.reverted
    BY <2>5 DEF CorrectGas, Voters
  <2>6. outVoter'.reverted = outVoter.reverted
    <3>1. /\ FinalisedOut(v) \in Voters /\ FinalisedOut(v).reverted = v.reverted
          /\ Unfinalised(v) \in Voters /\ Unfinalised(v).reverted = v.reverted
          /\ LateSigned(v, n) \in Voters /\ LateSigned(v, n).reverted = v.reverted
      BY <2>2, <2>4, VoterStepType
    <3>2. QED
      BY <2>1, <2>3, <2>4, <2>5, <3>1
         DEF OutDuplicate, OutFinal, OutUnfinal, OutLate, OutRecorded
  <2>7. QED
    BY <1>2, <1>4, <2>6 DEF AttestOut
<1>5. CASE HandleIn
  <2>1. HandleInIgnored \/ HandleInCredited \/ \E r : Dispatch(r)
    BY <1>5 DEF HandleIn, HandleInRefund, HandleInSwap, HandleInAdd
  <2>2. UNCHANGED inVoter \/ CreditVault
    BY <2>1 DEF HandleInIgnored, HandleInCredited, Dispatch
  <2>3. UNCHANGED <<memo, outVoter>>
    BY <2>1 DEF HandleInIgnored, HandleInCredited, Dispatch
  <2>4. inVoter'.reverted = inVoter.reverted
    BY <1>1, <2>2 DEF CreditVault, Voters
  <2>5. QED
    BY <1>2, <2>3, <2>4
<1>6. CASE HandleOut \/ DeliverSingle \/ DeliverQuorum \/ RunSwapQueue \/ ErrataDone
           \/ NextBlock \/ Churn \/ UNCHANGED vars
  <2>1. UNCHANGED <<memo, inVoter, outVoter>>
    BY <1>6 DEF HandleOut, HandleOutIgnored, HandleOutCancel, HandleOutUnexpected,
                HandleOutDone, DeliverSingle, DeliverQuorum, DeliverMsg, Deliver,
                RunSwapQueue, ErrataDone, NextBlock, Churn, vars
  <2>2. QED
    BY <1>2, <2>1
<1>7. CASE AttestErrata
  <2>1. memo' = memo
    BY <1>7 DEF AttestErrata
  <2>2. PICK n : \/ ErrataDuplicate(n) \/ ErrataPending(n) \/ ErrataLate(n)
                 \/ ErrataFails(n) \/ ErrataOutboundOnly(n) \/ ErrataTooEarly(n)
                 \/ ErrataUnfinal(n) \/ ErrataInternal(n) \/ ErrataFinal(n)
    BY <1>7 DEF AttestErrata
  <2>3. CASE \/ ErrataDuplicate(n) \/ ErrataPending(n) \/ ErrataLate(n)
             \/ ErrataFails(n) \/ ErrataTooEarly(n)
    BY <1>2, <2>1, <2>3 DEF ErrataDuplicate, ErrataPending, ErrataLate, ErrataFails,
                            ErrataTooEarly
  <2>4. CASE ErrataOutboundOnly(n) \/ ErrataInternal(n)
    BY <1>1, <2>4 DEF ErrataOutboundOnly, ErrataInternal, OutboundErrata, HalvesInv, Voters
  <2>5. CASE ErrataFinal(n)
    BY <2>1, <2>5 DEF ErrataFinal, IsInternal, HalvesInv
  <2>6. CASE ErrataUnfinal(n)
    <3>1. ~IsEmpty(inVoter.tx) /\ ~IsFinal(inVoter.tx)
      BY <2>6 DEF ErrataUnfinal
    <3>2. PICK o \in InObs[memo] : Equals(inVoter.tx, o)
      BY <3>1 DEF InboundInv, SeenInv, Seen
    <3>3. ~IsFinal(o)
      BY <3>1, <3>2 DEF Equals, IsFinal
    <3>4. memo # "migrate"
      BY <3>3 DEF FinalMigrations, TypeOK
    <3>5. QED
      BY <2>1, <3>4 DEF HalvesInv
  <2>7. QED
    BY <2>2, <2>3, <2>4, <2>5, <2>6
<1>8. QED
  BY <1>3, <1>4, <1>5, <1>6, <1>7 DEF Next

\* When migrations are observed final, errata never takes back one half of a
\* migration only (processErrataTxAttestation goes on to the outbound half or
\* fails as a whole), for any nodes, votes and churns.
THEOREM MigrationIsTakenBackWhole ==
  ASSUME FinalMigrations
  PROVE  Spec => []MigrationTakenBack
<1>1. Init => HalvesInv
  BY DEF Init, HalvesInv, NewVoter
<1>2. TypeOK /\ InboundInv /\ HalvesInv /\ [Next]_vars => HalvesInv'
  BY NextHalves
<1>3. HalvesInv => MigrationTakenBack
  BY DEF HalvesInv, MigrationTakenBack
<1>4. QED
  BY <1>1, <1>2, <1>3, InboundInvariant, PTL DEF Spec

-----------------------------------------------------------------------------
(***************************************************************************)
(* The booking of an outbound                                              *)
(***************************************************************************)

LEMMA SeenContents ==
  ASSUME TypeOK, NEW t, SeenOut(t)
  PROVE  ContentsSeen(t) /\ ~IsEmpty(t)
<1>1. PICK o \in OutObs[memo] : Equals(t, o)
  BY DEF SeenOut
<1>2. o \in Observation /\ o.blockHeight > 0
  BY ConstantsAssumption DEF TypeOK
<1>3. QED
  BY <1>1, <1>2 DEF ContentsSeen, Equals, IsFinal, IsEmpty, Observation

\* What the voter looks like while an attestation is being processed.
LEMMA AddSeenOut ==
  ASSUME TypeOK, OutSeenInv, msg.kind = "out", NEW n \in Nodes,
         NEW v, v = Add(outVoter, msg.obs, n)
  PROVE  /\ v \in Voters
         /\ \A i \in DOMAIN v.txs : SeenOut(v.txs[i]) /\ ~IsEmpty(v.txs[i])
         /\ ~IsEmpty(GetTx(v, active)) => ContentsSeen(GetTx(v, active))
<1>1. outVoter \in Voters /\ msg.obs \in Observation
  BY DEF TypeOK, Msgs
<1>2. v \in Voters /\ v.tx = outVoter.tx
  BY <1>1, AddType
<1>3. msg.obs \in OutObs[memo]
  BY DEF OutSeenInv
<1>4. ASSUME NEW i \in DOMAIN v.txs PROVE SeenOut(v.txs[i])
  BY <1>1, <1>3, AddEntries DEF OutSeenInv, SeenOut
<1>5. QED
  BY <1>2, <1>4, SeenContents, GetTxMember DEF OutSeenInv

\* The message that brings the final consensus carries what is agreed on.
LEMMA OutCrossingAgrees ==
  ASSUME TypeOK, OutSeenInv, OutVoterInv, OutStableInv, Stable, msg.kind = "out",
         NEW n \in Nodes, NEW v, v = Add(outVoter, msg.obs, n), ReachesFinal(v)
  PROVE  EqualsEx(GetTx(v, active), msg.obs)
<1>1. outVoter \in Voters /\ msg.obs \in Observation
  BY DEF TypeOK, Msgs
<1>2. v.tx = outVoter.tx /\ v.finalisedHeight = outVoter.finalisedHeight
  BY <1>1, AddType
<1>3. outVoter.finalisedHeight = 0 /\ ~(~IsEmpty(v.tx) /\ IsFinal(v.tx))
  BY <1>2 DEF ReachesFinal, OutVoterInv
<1>4. PICK i \in Winners(v, TRUE, active) : GetTx(v, active) = v.txs[i]
  BY <1>3, AddSeenOut, FinalWinner DEF ReachesFinal
<1>5. Winners(outVoter, TRUE, active) = {}
  BY <1>3 DEF OutStableInv
<1>6. ASSUME ~EqualsEx(v.txs[i], msg.obs) PROVE FALSE
  <2>1. /\ i \in DOMAIN v.txs /\ IsFinal(v.txs[i]) = TRUE
        /\ Agreed(v, v.txs[i], TRUE, active)
    BY <1>4 DEF Winners
  <2>2. i \in DOMAIN outVoter.txs /\ v.txs[i] = outVoter.txs[i]
    BY <1>1, <1>6, <2>1, AddEntries DEF Equals
  <2>3. MatchingSigners(v, v.txs[i], TRUE) = MatchingSigners(outVoter, v.txs[i], TRUE)
    <3>1. \A f \in BOOLEAN :
            MatchingSigners(v, v.txs[i], f) = MatchingSigners(outVoter, v.txs[i], f)
      BY <1>1, <1>6, AddMatching
    <3>2. QED
      BY <3>1, Zenon
  <2>4. i \in Winners(outVoter, TRUE, active)
    BY <2>1, <2>2, <2>3 DEF Winners, Agreed
  <2>5. QED
    BY <1>5, <2>4
<1>7. QED
  BY <1>4, <1>6

\* An attestation that does not bring the final consensus leaves none behind.
LEMMA OutNotCrossing ==
  ASSUME TypeOK, OutSeenInv, msg.kind = "out", NEW n \in Nodes,
         NEW v, v = Add(outVoter, msg.obs, n), ~ReachesFinal(v)
  PROVE  v.finalisedHeight = 0 => Winners(v, TRUE, active) = {}
BY AddSeenOut, FinalWinner DEF ReachesFinal

\* What the gas correction changes: the gas of the tx, and the vault by the
\* difference.
LEMMA CorrectGasFacts ==
  ASSUME TypeOK, NEW v \in Voters, CorrectGas(v)
  PROVE  /\ outVoter' \in Voters
         /\ outVoter'.txs = v.txs
         /\ outVoter'.height = v.height
         /\ outVoter'.finalisedHeight = v.finalisedHeight
         /\ outVoter'.reverted = v.reverted
         /\ outVoter'.tx.coins = v.tx.coins
         /\ outVoter'.tx.blockHeight = v.tx.blockHeight
         /\ outVoter'.tx.finaliseHeight = v.tx.finaliseHeight
         /\ outVoter'.tx.signers = v.tx.signers
         /\ outVoter'.tx.gas = IF CorrectsGas(v) THEN msg.obs.gas ELSE v.tx.gas
         /\ ~CorrectsGas(v) => funds' = funds
         /\ CorrectsGas(v) =>
              funds'[OutVault] = IF msg.obs.gas > v.tx.gas
                                 THEN SafeSub(funds[OutVault], msg.obs.gas - v.tx.gas)
                                 ELSE funds[OutVault] + (v.tx.gas - msg.obs.gas)
<1>1. outVoter' \in Voters /\ v.tx \in ObservedTxs /\ funds \in [Vaults -> Nat]
  BY CorrectGasType DEF Voters, TypeOK
<1>2. CASE ~CorrectsGas(v)
  BY <1>1, <1>2 DEF CorrectGas
<1>3. CASE CorrectsGas(v)
  <2>1. outVoter' = [v EXCEPT !.tx.gas = msg.obs.gas]
    BY <1>3 DEF CorrectGas
  <2>2. /\ outVoter'.txs = v.txs
        /\ outVoter'.height = v.height
        /\ outVoter'.finalisedHeight = v.finalisedHeight
        /\ outVoter'.reverted = v.reverted
        /\ outVoter'.tx = [v.tx EXCEPT !.gas = msg.obs.gas]
    BY <2>1 DEF Voters
  <2>3. /\ outVoter'.tx.coins = v.tx.coins
        /\ outVoter'.tx.blockHeight = v.tx.blockHeight
        /\ outVoter'.tx.finaliseHeight = v.tx.finaliseHeight
        /\ outVoter'.tx.signers = v.tx.signers
        /\ outVoter'.tx.gas = msg.obs.gas
    BY <1>1, <2>2 DEF ObservedTxs
  <2>4. funds'[OutVault] = IF msg.obs.gas > v.tx.gas
                           THEN SafeSub(funds[OutVault], msg.obs.gas - v.tx.gas)
                           ELSE funds[OutVault] + (v.tx.gas - msg.obs.gas)
    BY <1>1, <1>3, VaultNames DEF CorrectGas, AddFunds, SubFunds
  <2>5. QED
    BY <1>1, <1>3, <2>2, <2>3, <2>4
<1>4. QED
  BY <1>2, <1>3

\* A correction needs a tx of the observation's finality.
LEMMA CorrectsFinality ==
  ASSUME TypeOK, NEW v \in Voters, CorrectsGas(v), ~IsEmpty(v.tx)
  PROVE  IsFinal(v.tx) = IsFinal(msg.obs)
<1>1. IsFinal(v.tx) => HasFinalised(v, active)
  BY DEF HasFinalised, GetTx
<1>2. IsFinal(v.tx) \in BOOLEAN /\ IsFinal(msg.obs) \in BOOLEAN
  BY DEF IsFinal
<1>3. QED
  BY <1>1, <1>2 DEF CorrectsGas

\* The premises and the vaults depend on the memo only, which is fixed.
LEMMA SameMemo ==
  ASSUME memo' = memo
  PROVE  /\ (Stable' <=> Stable) /\ (AllFinal' <=> AllFinal)
         /\ (SameCoins' <=> SameCoins) /\ (SameGas' <=> SameGas)
         /\ OutVault' = OutVault
         /\ \A t : SeenOut(t)' <=> SeenOut(t)
         /\ \A t : ContentsSeen(t)' <=> ContentsSeen(t)
         /\ (IsOutbound' <=> IsOutbound) /\ (IsInternal' <=> IsInternal)
BY DEF Stable, AllFinal, SameCoins, SameGas, OutVault, SelfTransfer, SeenOut,
       ContentsSeen, IsOutbound, IsInternal

\* The attestation of msg.obs leaves voter x behind, which the gas correction
\* then completes; c says whether it brought the outbound to consensus.
LEMMA OutAttested ==
  ASSUME TypeOK, TypeOK', OutboundInv, msg.kind = "out",
         NEW x \in Voters, CorrectGas(x), NEW c \in BOOLEAN,
         UNCHANGED <<memo, active, errataVoter>>,
         msg'.kind = msg.kind, msg'.obs = msg.obs, msg'.crossed = (msg.crossed \/ c),
         x.reverted = outVoter.reverted,
         \A i \in DOMAIN x.txs : SeenOut(x.txs[i]),
         ~IsEmpty(x.tx) => ContentsSeen(x.tx),
         (x.height # 0) <=> ~IsEmpty(x.tx),
         (x.finalisedHeight # 0) <=> (~IsEmpty(x.tx) /\ IsFinal(x.tx)),
         Stable /\ x.finalisedHeight = 0 => Winners(x, TRUE, active) = {},
         outVoter.height # 0 => x.height # 0 /\ ~c,
         outVoter.height = 0 /\ x.height # 0 => c,
         c => x.height # 0,
         Stable /\ AllFinal /\ CrossedOut' => EqualsEx(x.tx, msg.obs),
         Stable /\ AllFinal /\ outVoter.height # 0 => EqualsEx(x.tx, outVoter.tx)
  PROVE  OutboundInv'
<1>1. /\ outVoter' \in Voters
      /\ outVoter'.txs = x.txs
      /\ outVoter'.height = x.height
      /\ outVoter'.finalisedHeight = x.finalisedHeight
      /\ outVoter'.reverted = x.reverted
      /\ outVoter'.tx.coins = x.tx.coins
      /\ outVoter'.tx.blockHeight = x.tx.blockHeight
      /\ outVoter'.tx.finaliseHeight = x.tx.finaliseHeight
      /\ outVoter'.tx.gas = IF CorrectsGas(x) THEN msg.obs.gas ELSE x.tx.gas
      /\ ~CorrectsGas(x) => funds' = funds
      /\ CorrectsGas(x) =>
           funds'[OutVault] = IF msg.obs.gas > x.tx.gas
                              THEN SafeSub(funds[OutVault], msg.obs.gas - x.tx.gas)
                              ELSE funds[OutVault] + (x.tx.gas - msg.obs.gas)
  BY CorrectGasFacts
<1>2. /\ (Stable' <=> Stable) /\ (AllFinal' <=> AllFinal)
      /\ (SameCoins' <=> SameCoins) /\ (SameGas' <=> SameGas)
      /\ OutVault' = OutVault
      /\ \A t : SeenOut(t)' <=> SeenOut(t)
      /\ \A t : ContentsSeen(t)' <=> ContentsSeen(t)
      /\ (IsOutbound' <=> IsOutbound) /\ (IsInternal' <=> IsInternal)
  BY SameMemo
<1>3. /\ IsEmpty(outVoter'.tx) <=> IsEmpty(x.tx)
      /\ IsFinal(outVoter'.tx) = IsFinal(x.tx)
  BY <1>1 DEF IsEmpty, IsFinal
<1>4. msg.obs \in OutObs[memo] /\ msg.obs \in Observation
  BY DEF OutboundInv, OutSeenInv, TypeOK, Msgs
<1>5. OutSeenInv'
  <2>1. ASSUME ~IsEmpty(x.tx) PROVE ContentsSeen(outVoter'.tx)
    <3>1. CASE CorrectsGas(x)
      <4>1. IsFinal(outVoter'.tx) = IsFinal(msg.obs)
        BY <1>3, <2>1, <3>1, CorrectsFinality
      <4>2. EqualsEx(outVoter'.tx, msg.obs)
        BY <1>1, <3>1 DEF CorrectsGas, EqualsEx, EqualsExIgnoreGas
      <4>3. QED
        BY <1>4, <4>1, <4>2 DEF ContentsSeen
    <3>2. CASE ~CorrectsGas(x)
      BY <2>1, <3>2 DEF CorrectGas
    <3>3. QED
      BY <3>1, <3>2
  <2>2. PICK t : t = outVoter'.tx
    OBVIOUS
  <2>3. ~IsEmpty(t) => ContentsSeen(t)'
    BY <1>2, <1>3, <2>1, <2>2
  <2>4. \A i \in DOMAIN outVoter'.txs : SeenOut(outVoter'.txs[i])
    BY <1>1
  <2>5. QED
    BY <1>4, <2>2, <2>3, <2>4 DEF OutSeenInv, SeenOut, ContentsSeen
<1>6. OutVoterInv'
  BY <1>1, <1>2, <1>3 DEF OutboundInv, OutVoterInv
<1>7. CrossedOut' <=> (CrossedOut \/ c)
  BY DEF CrossedOut
<1>8. OutCrossInv'
  BY <1>1, <1>7 DEF OutboundInv, OutCrossInv, OutVoterInv
<1>9. /\ CorrectsGas(x) => x.height # 0
      /\ Stable /\ AllFinal /\ CrossedOut' => ~CorrectsGas(x)
      /\ SameGas => ~CorrectsGas(x)
  <2>1. CorrectsGas(x) => x.height # 0
    BY DEF CorrectsGas, Voters
  <2>2. Stable /\ AllFinal /\ CrossedOut' => ~CorrectsGas(x)
    BY DEF CorrectsGas, EqualsEx
  <2>3. ASSUME SameGas, CorrectsGas(x) PROVE FALSE
    <3>1. PICK o \in OutObs[memo] : EqualsEx(x.tx, o)
      BY <2>1, <2>3 DEF ContentsSeen
    <3>2. QED
      BY <1>4, <2>3, <3>1 DEF SameGas, CorrectsGas, EqualsEx
  <2>4. QED
    BY <2>1, <2>2, <2>3
<1>10. OutStableInv'
  <2>1. Winners(outVoter', TRUE, active) = Winners(x, TRUE, active)
    <3>1. \A f \in BOOLEAN : Winners(outVoter', f, active) = Winners(x, f, active)
      BY <1>1, WinnersOfTxs
    <3>2. QED
      BY <3>1, Zenon
  <2>2. Stable /\ AllFinal /\ CrossedOut' => EqualsEx(outVoter'.tx, msg.obs)
    BY <1>1, <1>9 DEF EqualsEx, EqualsExIgnoreGas
  <2>3. QED
    BY <1>1, <1>2, <2>1, <2>2 DEF OutStableInv
<1>11. OutboundBooked'
  <2>1. SUFFICES ASSUME memo \notin {"consolidate", "fakegas"}, SameCoins,
                        SameGas \/ (AllFinal /\ Stable),
                        \A o \in OutObs[memo] : InitFunds >= o.coins + o.gas
                 PROVE  funds'[OutVault] = InitFunds - OutboundCoins' - OutboundGas'
    BY <1>2 DEF OutboundBooked
  <2>2. /\ funds[OutVault] = InitFunds - OutboundCoins - OutboundGas
        /\ funds[OutVault] \in Nat /\ InitFunds \in Nat
    BY <2>1, VaultNames, ConstantsAssumption DEF OutboundInv, OutboundBooked, TypeOK
  <2>3. /\ x.tx.coins \in Nat /\ x.tx.gas \in Nat
        /\ outVoter.tx.coins \in Nat /\ outVoter.tx.gas \in Nat
        /\ msg.obs.coins \in Nat /\ msg.obs.gas \in Nat
    BY <1>4 DEF TypeOK, Voters, ObservedTxs, Observation
  <2>4. CASE outVoter.height = 0
    <3>1. ~OutHandled /\ ~OutHandled'
      BY <1>1, <1>7, <2>4 DEF OutHandled, CrossedOut
    <3>2. ~CorrectsGas(x)
      BY <1>7, <1>9, <2>1, <2>4
    <3>3. QED
      BY <1>1, <2>2, <3>1, <3>2 DEF OutboundCoins, OutboundGas
  <2>5. CASE outVoter.height # 0
    <3>1. OutHandled' <=> OutHandled
      BY <1>1, <1>7, <2>5 DEF OutHandled, CrossedOut
    <3>2. ~IsEmpty(x.tx) /\ ~IsEmpty(outVoter.tx)
      BY <2>5 DEF OutboundInv, OutVoterInv
    <3>3. PICK p \in OutObs[memo] : EqualsEx(x.tx, p)
      BY <3>2 DEF ContentsSeen
    <3>4. PICK q \in OutObs[memo] : EqualsEx(outVoter.tx, q)
      BY <3>2 DEF OutboundInv, OutSeenInv, ContentsSeen
    <3>5. x.tx.coins = outVoter.tx.coins
      BY <2>1, <3>3, <3>4 DEF SameCoins, EqualsEx, EqualsExIgnoreGas
    <3>6. x.tx.gas = outVoter.tx.gas
      BY <2>1, <2>5, <3>3, <3>4 DEF SameGas, EqualsEx
    <3>7. OutboundCoins' = OutboundCoins /\ OutboundCoins \in Nat
          /\ OutboundCoins <= x.tx.coins
      BY <1>1, <2>3, <3>1, <3>5 DEF OutboundCoins
    <3>8. CASE ~CorrectsGas(x)
      BY <1>1, <2>2, <3>1, <3>6, <3>7, <3>8 DEF OutboundGas
    <3>9. CASE CorrectsGas(x)
      <4>1. AllFinal /\ Stable /\ ~CrossedOut'
        BY <1>9, <2>1, <3>9
      <4>2. OutHandled /\ OutHandled'
        BY <1>7, <2>5, <3>1, <4>1 DEF OutHandled, CrossedOut
      <4>3. OutboundGas = x.tx.gas /\ OutboundGas' = msg.obs.gas
        BY <1>1, <3>6, <3>9, <4>2 DEF OutboundGas
      <4>4. msg.obs.coins = x.tx.coins /\ InitFunds >= msg.obs.coins + msg.obs.gas
        BY <1>4, <2>1, <3>9 DEF CorrectsGas, EqualsExIgnoreGas
      <4>5. OutboundCoins + msg.obs.gas <= InitFunds
        BY <2>2, <2>3, <3>7, <4>4
      <4>6. funds[OutVault] = InitFunds - OutboundCoins - x.tx.gas
        BY <2>2, <4>3
      <4>7. funds'[OutVault] = InitFunds - OutboundCoins - msg.obs.gas
        BY <1>1, <2>2, <2>3, <3>7, <3>9, <4>5, <4>6 DEF SafeSub
      <4>8. QED
        BY <3>7, <4>3, <4>7
    <3>10. QED
      BY <3>8, <3>9
  <2>6. QED
    BY <2>4, <2>5
<1>12. QED
  BY <1>5, <1>6, <1>8, <1>10, <1>11 DEF OutboundInv

LEMMA AttestOutInv ==
  ASSUME TypeOK, OutboundInv, AttestOut
  PROVE  OutboundInv'
<1>1. PICK n \in msg.todo :
        /\ msg.kind = "out"
        /\ \/ OutDuplicate(n) \/ OutFinal(n) \/ OutUnfinal(n)
           \/ OutLate(n) \/ OutRecorded(n)
        /\ UNCHANGED <<memo, height, active, inVoter, errataVoter, status,
                       bondSlash, pool, outcome, dispatches>>
  BY DEF AttestOut
<1>2. /\ n \in Nodes /\ msg.obs \in Observation /\ outVoter \in Voters
      /\ outVoter.tx \in ObservedTxs /\ height \in Nat /\ height # 0
      /\ msg.crossed \in BOOLEAN
  BY DEF TypeOK, Msgs, Voters
<1>3. TypeOK'
  BY AttestOutType
<1>4. PICK v : v = Add(outVoter, msg.obs, n)
  OBVIOUS
<1>5. /\ v \in Voters /\ v.tx = outVoter.tx /\ v.reverted = outVoter.reverted
      /\ v.height = outVoter.height /\ v.finalisedHeight = outVoter.finalisedHeight
  BY <1>2, <1>4, AddType
<1>6. /\ \A i \in DOMAIN v.txs : SeenOut(v.txs[i])
      /\ ~IsEmpty(GetTx(v, active)) => ContentsSeen(GetTx(v, active))
  BY <1>1, <1>2, <1>4, AddSeenOut DEF OutboundInv
<1>7. ASSUME ~ReachesFinal(v), v.finalisedHeight = 0 PROVE Winners(v, TRUE, active) = {}
  BY <1>1, <1>2, <1>4, <1>7, OutNotCrossing DEF OutboundInv
<1>8. ASSUME NEW x, x.txs = v.txs PROVE Winners(x, TRUE, active) = Winners(v, TRUE, active)
  <2>1. \A f \in BOOLEAN : Winners(x, f, active) = Winners(v, f, active)
    BY <1>8, WinnersOfTxs
  <2>2. QED
    BY <2>1, Zenon
<1>9. CASE OutDuplicate(n)
  <2>1. /\ UNCHANGED <<outVoter, funds>>
        /\ msg'.kind = msg.kind /\ msg'.obs = msg.obs /\ msg'.crossed = msg.crossed
    BY <1>2, <1>9, AttestedType DEF OutDuplicate
  <2>2. OutSeenInv' /\ OutVoterInv' /\ OutCrossInv'
    BY <1>1, <2>1 DEF OutboundInv, OutSeenInv, SeenOut, ContentsSeen, OutVoterInv,
                      IsOutbound, IsInternal, OutCrossInv, CrossedOut
  <2>3. OutStableInv'
    BY <1>1, <2>1, SameMemo DEF OutboundInv, OutStableInv, CrossedOut
  <2>4. OutboundCoins' = OutboundCoins /\ OutboundGas' = OutboundGas
    BY <1>1, <2>1 DEF OutboundCoins, OutboundGas, OutHandled
  <2>5. OutboundBooked'
    BY <1>1, <2>1, <2>4, SameMemo DEF OutboundInv, OutboundBooked
  <2>6. QED
    BY <2>2, <2>3, <2>5 DEF OutboundInv
<1>10. CASE OutFinal(n)
  <2>1. PICK x : x = FinalisedOut(v)
    OBVIOUS
  <2>2. /\ x \in Voters /\ x.txs = v.txs /\ x.tx = GetTx(v, active)
        /\ x.height = IF v.height = 0 THEN height ELSE v.height
        /\ x.finalisedHeight = height /\ x.reverted = v.reverted
    BY <1>2, <1>5, <2>1, VoterStepType
  <2>3. /\ CorrectGas(x) /\ ReachesFinal(v) /\ Attested(n, outVoter.height = 0)
    BY <1>4, <1>10, <2>1 DEF OutFinal
  <2>4. PICK c \in BOOLEAN : c = (outVoter.height = 0)
    OBVIOUS
  <2>5. /\ msg'.kind = msg.kind /\ msg'.obs = msg.obs
        /\ msg'.crossed = (msg.crossed \/ c)
    BY <2>3, <2>4, AttestedType
  <2>6. ~IsEmpty(x.tx) /\ IsFinal(x.tx)
    BY <2>2, <2>3 DEF ReachesFinal, HasFinalised
  <2>7. Stable => EqualsEx(x.tx, msg.obs)
    BY <1>1, <1>2, <1>4, <2>2, <2>3, OutCrossingAgrees DEF OutboundInv
  <2>8. ASSUME AllFinal, outVoter.height # 0 PROVE FALSE
    <3>1. ~IsEmpty(outVoter.tx) /\ ~IsFinal(outVoter.tx)
      BY <1>5, <2>3, <2>8 DEF ReachesFinal, OutboundInv, OutVoterInv
    <3>2. PICK o \in OutObs[memo] : IsFinal(outVoter.tx) = IsFinal(o)
      BY <3>1 DEF OutboundInv, OutSeenInv, ContentsSeen
    <3>3. QED
      BY <2>8, <3>1, <3>2 DEF AllFinal
  <2>9. x.height # 0 /\ x.finalisedHeight # 0
    BY <1>2, <2>2
  <2>10. ~IsEmpty(x.tx) => ContentsSeen(x.tx)
    BY <1>6, <2>2
  <2>11. \A i \in DOMAIN x.txs : SeenOut(x.txs[i])
    BY <1>6, <2>2
  <2>12. QED
    BY <1>1, <1>3, <1>5, <2>2, <2>3, <2>4, <2>5, <2>6, <2>7, <2>8, <2>9, <2>10, <2>11,
       OutAttested
<1>11. CASE OutUnfinal(n)
  <2>1. PICK x : x = Unfinalised(v)
    OBVIOUS
  <2>2. /\ x \in Voters /\ x.txs = v.txs /\ x.tx = GetTx(v, active)
        /\ x.height = height /\ x.finalisedHeight = v.finalisedHeight
        /\ x.reverted = v.reverted
    BY <1>2, <1>5, <2>1, VoterStepType
  <2>3. CorrectGas(x) /\ ReachesUnfinal(v) /\ Attested(n, TRUE)
    BY <1>4, <1>11, <2>1 DEF OutUnfinal
  <2>4. /\ msg'.kind = msg.kind /\ msg'.obs = msg.obs
        /\ msg'.crossed = (msg.crossed \/ TRUE)
    BY <2>3, AttestedType
  <2>5. /\ ~IsEmpty(x.tx) /\ ~IsFinal(x.tx) /\ ~IsFinal(msg.obs)
        /\ v.finalisedHeight = 0 /\ v.height = 0 /\ ~ReachesFinal(v)
    BY <2>2, <2>3 DEF ReachesUnfinal, ReachesFinal, HasConsensus, HasFinalised
  <2>6. ~AllFinal
    BY <1>1, <2>5 DEF AllFinal, OutboundInv, OutSeenInv
  <2>7. Winners(x, TRUE, active) = {}
    BY <1>7, <1>8, <2>2, <2>5
  <2>8. ~IsEmpty(x.tx) => ContentsSeen(x.tx)
    BY <1>6, <2>2
  <2>9. \A i \in DOMAIN x.txs : SeenOut(x.txs[i])
    BY <1>6, <2>2
  <2>10. QED
    BY <1>1, <1>2, <1>3, <1>5, <2>2, <2>3, <2>4, <2>5, <2>6, <2>7, <2>8, <2>9, OutAttested
<1>12. CASE OutLate(n) \/ OutRecorded(n)
  <2>1. PICK x : /\ x = v \/ x = LateSigned(v, n)
                 /\ CorrectGas(x) /\ Attested(n, FALSE) /\ ~ReachesFinal(v)
    <3>1. CASE OutRecorded(n)
      BY <1>4, <3>1 DEF OutRecorded
    <3>2. CASE OutLate(n)
      <4>1. CorrectGas(LateSigned(v, n)) /\ Attested(n, FALSE) /\ InTime(v)
        BY <1>4, <3>2 DEF OutLate, IsLate
      <4>2. ~ReachesFinal(v)
        BY <4>1 DEF InTime, ReachesFinal
      <4>3. QED
        BY <4>1, <4>2
    <3>3. QED
      BY <1>12, <3>1, <3>2
  <2>2. /\ x \in Voters /\ x.txs = v.txs
        /\ x.tx.coins = v.tx.coins /\ x.tx.gas = v.tx.gas
        /\ x.tx.blockHeight = v.tx.blockHeight
        /\ x.tx.finaliseHeight = v.tx.finaliseHeight
        /\ x.height = v.height /\ x.finalisedHeight = v.finalisedHeight
        /\ x.reverted = v.reverted
    <3>1. CASE x = v
      BY <1>5, <3>1
    <3>2. CASE x = LateSigned(v, n)
      <4>1. /\ x \in Voters /\ x.txs = v.txs
            /\ x.tx = [v.tx EXCEPT !.signers = @ \cup {n}]
            /\ x.height = v.height /\ x.finalisedHeight = v.finalisedHeight
            /\ x.reverted = v.reverted
        BY <1>2, <1>5, <3>2, VoterStepType
      <4>2. QED
        BY <1>2, <1>5, <4>1 DEF ObservedTxs
    <3>3. QED
      BY <2>1, <3>1, <3>2
  <2>3. /\ msg'.kind = msg.kind /\ msg'.obs = msg.obs
        /\ msg'.crossed = (msg.crossed \/ FALSE)
    BY <2>1, AttestedType
  <2>4. EqualsEx(x.tx, outVoter.tx) /\ (IsFinal(x.tx) = IsFinal(outVoter.tx))
        /\ (IsEmpty(x.tx) <=> IsEmpty(outVoter.tx))
    BY <1>5, <2>2 DEF EqualsEx, EqualsExIgnoreGas, IsFinal, IsEmpty
  <2>5. ~IsEmpty(x.tx) => ContentsSeen(x.tx)
    BY <2>4 DEF OutboundInv, OutSeenInv, ContentsSeen, EqualsEx, EqualsExIgnoreGas
  <2>6. x.finalisedHeight = 0 => Winners(x, TRUE, active) = {}
    BY <1>7, <1>8, <2>1, <2>2
  <2>7. Stable /\ AllFinal /\ CrossedOut' => EqualsEx(x.tx, msg.obs)
    BY <2>3, <2>4 DEF OutboundInv, OutStableInv, CrossedOut, EqualsEx, EqualsExIgnoreGas
  <2>8. /\ (x.height # 0) <=> ~IsEmpty(x.tx)
        /\ (x.finalisedHeight # 0) <=> (~IsEmpty(x.tx) /\ IsFinal(x.tx))
    BY <1>5, <2>2, <2>4 DEF OutboundInv, OutVoterInv
  <2>9. \A i \in DOMAIN x.txs : SeenOut(x.txs[i])
    BY <1>6, <2>2
  <2>10. QED
    BY <1>1, <1>3, <1>5, <2>1, <2>2, <2>3, <2>4, <2>5, <2>6, <2>7, <2>8, <2>9, OutAttested
<1>13. QED
  BY <1>1, <1>9, <1>10, <1>11, <1>12

\* A step that leaves the outbound alone and executes no message about it.
LEMMA OutboundUntouched ==
  ASSUME TypeOK, OutboundInv, memo' = memo, outVoter' = outVoter,
         Stable => active' = active,
         errataVoter.blockHeight # 0 => errataVoter'.blockHeight # 0,
         ~SelfTransfer => funds'[OutVault] = funds[OutVault],
         ~CrossedOut, ~CrossedOut', msg'.kind = "out" => msg'.obs \in OutObs[memo]
  PROVE  OutboundInv'
<1>1. OutSeenInv' /\ OutVoterInv' /\ OutCrossInv'
  BY DEF OutboundInv, OutSeenInv, SeenOut, ContentsSeen, OutVoterInv, IsOutbound,
         IsInternal, OutCrossInv
<1>2. OutStableInv'
  BY SameMemo DEF OutboundInv, OutStableInv
<1>3. OutboundCoins' = OutboundCoins /\ OutboundGas' = OutboundGas
  BY DEF OutboundCoins, OutboundGas, OutHandled, CrossedOut
<1>4. OutboundBooked'
  BY <1>3, SameMemo DEF OutboundInv, OutboundBooked, SelfTransfer
<1>5. QED
  BY <1>1, <1>2, <1>4 DEF OutboundInv

\* What the inbound side changes is not the sending vault.
LEMMA InOtherVault ==
  ASSUME ~SelfTransfer, NEW f \in [Vaults -> Nat], NEW k \in Nat
  PROVE  /\ AddFunds(f, InVault, k)[OutVault] = f[OutVault]
         /\ SubFunds(f, InVault, k)[OutVault] = f[OutVault]
<1>1. OutVault # InVault
  BY DEF OutVault, InVault
<1>2. QED
  BY <1>1, VaultNames DEF AddFunds, SubFunds

\* The crossing message of an outbound is handled: the vault pays.
LEMMA HandleOutInv ==
  ASSUME TypeOK, OutboundInv, HandleOut
  PROVE  OutboundInv'
<1>1. /\ UNCHANGED <<memo, active, outVoter, errataVoter>> /\ msg' = Idle
      /\ HandlingOut /\ msg.kind = "out"
  BY DEF HandleOut, HandleOutIgnored, HandleOutCancel, HandleOutUnexpected,
         HandleOutDone, HandlingOut
<1>2. ~CrossedOut' /\ msg'.kind # "out"
  BY <1>1, IdleIsIdle DEF CrossedOut
<1>3. CASE HandleOutIgnored
  <2>1. ~CrossedOut /\ funds' = funds
    BY <1>3 DEF HandleOutIgnored, CrossedOut, ledger
  <2>2. QED
    BY <1>1, <1>2, <2>1, OutboundUntouched
<1>4. CASE ~HandleOutIgnored
  <2>1. CrossedOut
    BY <1>1, <1>4 DEF HandleOut, HandleOutCancel, HandleOutUnexpected, HandleOutDone,
                      CrossedOut
  <2>2. OutSeenInv' /\ OutVoterInv' /\ OutCrossInv'
    BY <1>1, <1>2 DEF OutboundInv, OutSeenInv, SeenOut, ContentsSeen, OutVoterInv,
                      IsOutbound, IsInternal, OutCrossInv
  <2>3. OutStableInv'
    BY <1>1, <1>2, SameMemo DEF OutboundInv, OutStableInv
  <2>4. OutboundBooked'
    <3>1. SUFFICES ASSUME memo \notin {"consolidate", "fakegas"}, SameCoins,
                          SameGas \/ (AllFinal /\ Stable),
                          \A o \in OutObs[memo] : InitFunds >= o.coins + o.gas
                   PROVE  funds'[OutVault] = InitFunds - OutboundCoins' - OutboundGas'
      BY <1>1, SameMemo DEF OutboundBooked
    <3>2. /\ msg.obs \in OutObs[memo] /\ msg.obs \in Observation
          /\ outVoter.height # 0 /\ ~outVoter.reverted /\ ~IsEmpty(outVoter.tx)
      BY <1>1, <2>1 DEF OutboundInv, OutSeenInv, OutCrossInv, OutVoterInv, TypeOK, Msgs
    <3>3. PICK p \in OutObs[memo] : EqualsEx(outVoter.tx, p)
      BY <3>2 DEF OutboundInv, OutSeenInv, ContentsSeen
    <3>4. outVoter.tx.coins = msg.obs.coins
      BY <3>1, <3>2, <3>3 DEF SameCoins, EqualsEx, EqualsExIgnoreGas
    <3>5. outVoter.tx.gas = msg.obs.gas
      <4>1. CASE SameGas
        BY <3>2, <3>3, <4>1 DEF SameGas, EqualsEx
      <4>2. CASE AllFinal /\ Stable
        BY <2>1, <4>2 DEF OutboundInv, OutStableInv, EqualsEx
      <4>3. QED
        BY <3>1, <4>1, <4>2
    <3>6. /\ OutboundCoins' = (IF memo = "cancel" THEN 0 ELSE msg.obs.coins)
          /\ OutboundGas' = msg.obs.gas
          /\ OutboundCoins = 0 /\ OutboundGas = 0
      BY <1>1, <1>2, <2>1, <3>2, <3>4, <3>5
         DEF OutboundCoins, OutboundGas, OutHandled, CrossedOut
    <3>7. /\ funds \in [Vaults -> Nat] /\ InitFunds \in Nat
          /\ msg.obs.coins \in Nat /\ msg.obs.gas \in Nat
          /\ InitFunds >= msg.obs.coins + msg.obs.gas
      BY <3>1, <3>2, ConstantsAssumption DEF TypeOK, Observation
    <3>8. funds[OutVault] = InitFunds
      BY <3>1, <3>6, <3>7 DEF OutboundInv, OutboundBooked
    <3>9. ASSUME NEW f \in [Vaults -> Nat], NEW k \in Nat
          PROVE  /\ SubFunds(f, OutVault, k) \in [Vaults -> Nat]
                 /\ SubFunds(f, OutVault, k)[OutVault] = SafeSub(f[OutVault], k)
      BY VaultNames, FundsType DEF SubFunds
    <3>10. CASE HandleOutCancel
      <4>1. memo = "cancel" /\ funds' = SubFunds(funds, OutVault, msg.obs.gas)
        BY <3>10 DEF HandleOutCancel
      <4>2. funds'[OutVault] = SafeSub(InitFunds, msg.obs.gas)
        BY <3>7, <3>8, <3>9, <4>1
      <4>3. QED
        BY <3>6, <3>7, <4>1, <4>2 DEF SafeSub
    <3>11. CASE HandleOutUnexpected
      <4>1. /\ memo # "cancel" /\ msg.obs.coins + msg.obs.gas \in Nat
            /\ funds' = SubFunds(funds, OutVault, msg.obs.coins + msg.obs.gas)
        BY <3>7, <3>11 DEF HandleOutUnexpected, IsInbound
      <4>2. funds'[OutVault] = SafeSub(InitFunds, msg.obs.coins + msg.obs.gas)
        BY <3>7, <3>8, <3>9, <4>1
      <4>3. QED
        BY <3>6, <3>7, <4>1, <4>2 DEF SafeSub
    <3>12. CASE HandleOutDone
      <4>1. memo # "cancel" /\ funds' = FundsAfterOut /\ CoinsOut = msg.obs.coins
        BY <3>1, <3>12 DEF HandleOutDone, IsOutbound, IsInternal, CoinsOut, SelfTransfer
      <4>2. funds'[OutVault] = SafeSub(SafeSub(InitFunds, msg.obs.gas), msg.obs.coins)
        <5>1. PICK f \in [Vaults -> Nat] : /\ f = SubFunds(funds, OutVault, msg.obs.gas)
                                           /\ f[OutVault] = SafeSub(InitFunds, msg.obs.gas)
          BY <3>7, <3>8, <3>9
        <5>2. funds' = SubFunds(f, OutVault, msg.obs.coins)
          BY <4>1, <5>1 DEF FundsAfterOut
        <5>3. QED
          BY <3>7, <3>9, <5>1, <5>2
      <4>3. QED
        BY <3>6, <3>7, <4>1, <4>2 DEF SafeSub
    <3>13. QED
      BY <1>4, <3>10, <3>11, <3>12 DEF HandleOut
  <2>5. QED
    BY <2>2, <2>3, <2>4 DEF OutboundInv
<1>5. QED
  BY <1>3, <1>4

\* An errata gives the coins back and marks the outbound, once.
LEMMA OutRevertInv ==
  ASSUME TypeOK, OutboundInv, UNCHANGED <<memo, active>>, msg.kind = "errata",
         msg'.kind = "errata", errataVoter.blockHeight = 0, errataVoter'.blockHeight # 0,
         ~OutboundErrataFails, NEW f \in [Vaults -> Nat], OutboundErrata(f),
         ~SelfTransfer => f[OutVault] = funds[OutVault]
  PROVE  OutboundInv'
<1>1. /\ outVoter \in Voters /\ outVoter.tx.coins \in Nat /\ outVoter.tx.gas \in Nat
      /\ InitFunds \in Nat
  BY ConstantsAssumption DEF TypeOK, Voters, ObservedTxs
<1>2. /\ outVoter'.txs = outVoter.txs
      /\ outVoter'.tx = outVoter.tx
      /\ outVoter'.height = outVoter.height
      /\ outVoter'.finalisedHeight = outVoter.finalisedHeight
      /\ outVoter'.reverted = TRUE
  BY <1>1 DEF OutboundErrata, Voters
<1>3. /\ ~outVoter.reverted /\ outVoter.height # 0 /\ (IsOutbound \/ IsInternal)
  BY DEF OutboundErrataFails, OutboundInv, OutVoterInv
<1>4. ~CrossedOut /\ ~CrossedOut' /\ OutHandled /\ OutHandled'
  BY <1>2, <1>3 DEF CrossedOut, OutHandled
<1>5. OutSeenInv' /\ OutVoterInv' /\ OutCrossInv'
  BY <1>2, <1>3, <1>4 DEF OutboundInv, OutSeenInv, SeenOut, ContentsSeen, OutVoterInv,
                          IsOutbound, IsInternal, OutCrossInv
<1>6. OutStableInv'
  <2>1. Winners(outVoter', TRUE, active) = Winners(outVoter, TRUE, active)
    BY <1>2 DEF Winners, Agreed, MatchingSigners
  <2>2. QED
    BY <1>2, <1>4, <2>1, SameMemo DEF OutboundInv, OutStableInv
<1>7. OutboundBooked'
  <2>1. SUFFICES ASSUME memo \notin {"consolidate", "fakegas"}, SameCoins,
                        SameGas \/ (AllFinal /\ Stable),
                        \A o \in OutObs[memo] : InitFunds >= o.coins + o.gas
                 PROVE  funds'[OutVault] = InitFunds - OutboundCoins' - OutboundGas'
    BY SameMemo DEF OutboundBooked
  <2>2. funds[OutVault] = InitFunds - OutboundCoins - OutboundGas
    BY <2>1 DEF OutboundInv, OutboundBooked
  <2>3. /\ OutboundCoins = outVoter.tx.coins /\ OutboundGas = outVoter.tx.gas
        /\ OutboundCoins' = 0 /\ OutboundGas' = outVoter.tx.gas
    BY <1>2, <1>3, <1>4 DEF OutboundCoins, OutboundGas, IsOutbound, IsInternal
  <2>4. funds'[OutVault] = funds[OutVault] + outVoter.tx.coins
    BY <1>1, <2>1, VaultNames DEF OutboundErrata, AddFunds, SelfTransfer
  <2>5. QED
    BY <1>1, <2>2, <2>3, <2>4
<1>8. QED
  BY <1>5, <1>6, <1>7 DEF OutboundInv

LEMMA AttestErrataOut ==
  ASSUME TypeOK, OutboundInv, AttestErrata
  PROVE  OutboundInv'
<1>1. PICK n \in msg.todo :
        /\ msg.kind = "errata"
        /\ \/ ErrataDuplicate(n) \/ ErrataPending(n) \/ ErrataLate(n)
           \/ ErrataFails(n) \/ ErrataOutboundOnly(n) \/ ErrataTooEarly(n)
           \/ ErrataUnfinal(n) \/ ErrataInternal(n) \/ ErrataFinal(n)
        /\ UNCHANGED <<memo, height, active>>
  BY DEF AttestErrata
<1>2. /\ n \in Nodes /\ funds \in [Vaults -> Nat] /\ outVoter.tx.coins \in Nat
      /\ height # 0 /\ inVoter.tx.coins \in Nat
  BY DEF TypeOK, Msgs, Voters, ObservedTxs
<1>3. /\ FundsTakenBack \in [Vaults -> Nat]
      /\ ~SelfTransfer => FundsTakenBack[OutVault] = funds[OutVault]
  BY <1>2, FundsType, VaultNames, InOtherVault DEF FundsTakenBack
<1>4. ASSUME ErrataCrosses(n), ErrataAgreed(n)
      PROVE  /\ errataVoter.blockHeight = 0 /\ errataVoter'.blockHeight # 0
             /\ msg'.kind = "errata"
  <2>1. errataVoter.blockHeight = 0
    BY <1>4 DEF ErrataCrosses
  <2>2. errataVoter'.blockHeight # 0
    BY <1>2, <1>4, ErrataVoterType DEF ErrataAgreed
  <2>3. msg'.kind = "errata"
    BY <1>1, <1>4, AttestedType DEF ErrataAgreed
  <2>4. QED
    BY <2>1, <2>2, <2>3
<1>5. CASE ErrataDuplicate(n) \/ ErrataPending(n) \/ ErrataLate(n)
  <2>1. UNCHANGED <<outVoter, funds>>
    BY <1>5 DEF ErrataDuplicate, ErrataPending, ErrataLate, ledger
  <2>2. errataVoter'.blockHeight = errataVoter.blockHeight
    BY <1>2, <1>5, ErrataVoterType DEF ErrataDuplicate, ErrataPending, ErrataLate
  <2>3. msg'.kind = "errata"
    BY <1>1, <1>5, AttestedType DEF ErrataDuplicate, ErrataPending, ErrataLate
  <2>4. QED
    BY <1>1, <2>1, <2>2, <2>3, OutboundUntouched DEF CrossedOut
<1>6. CASE ErrataFails(n)
  <2>1. UNCHANGED <<outVoter, funds>> /\ msg' = Idle
    BY <1>6 DEF ErrataFails, ledger
  <2>2. errataVoter.blockHeight = 0
    BY <1>6 DEF ErrataFails, ErrataCrosses
  <2>3. QED
    BY <1>1, <2>1, <2>2, IdleIsIdle, OutboundUntouched DEF CrossedOut
<1>7. CASE ErrataTooEarly(n) \/ ErrataUnfinal(n) \/ ErrataFinal(n)
  <2>1. UNCHANGED outVoter /\ ErrataCrosses(n) /\ ErrataAgreed(n)
    BY <1>7 DEF ErrataTooEarly, ErrataUnfinal, ErrataFinal
  <2>2. ~SelfTransfer => funds'[OutVault] = funds[OutVault]
    BY <1>3, <1>7 DEF ErrataTooEarly, ErrataUnfinal, ErrataFinal, ledger
  <2>3. QED
    BY <1>1, <1>4, <2>1, <2>2, OutboundUntouched DEF CrossedOut
<1>8. CASE ErrataOutboundOnly(n) \/ ErrataInternal(n)
  <2>1. /\ ErrataCrosses(n) /\ ErrataAgreed(n) /\ ~OutboundErrataFails
        /\ OutboundErrata(funds) \/ OutboundErrata(FundsTakenBack)
    BY <1>8 DEF ErrataOutboundOnly, ErrataInternal
  <2>2. QED
    BY <1>1, <1>2, <1>3, <1>4, <2>1, OutRevertInv
<1>9. QED
  BY <1>1, <1>5, <1>6, <1>7, <1>8

LEMMA DeliverOut ==
  ASSUME TypeOK, OutboundInv, DeliverSingle \/ DeliverQuorum
  PROVE  OutboundInv'
<1>1. PICK S, single : DeliverMsg(S, single)
  BY DEF DeliverSingle, DeliverQuorum
<1>2. PICK k, o, u : Deliver(k, o, S, single, u) /\ (k = "out" => o \in OutObs[memo])
  BY <1>1 DEF DeliverMsg
<1>3. msg'.crossed = FALSE /\ msg'.kind = k /\ msg'.obs = o /\ msg = Idle
  BY <1>2 DEF Deliver
<1>4. UNCHANGED <<memo, active, outVoter, errataVoter, funds>>
  BY <1>2 DEF Deliver, ledger
<1>5. QED
  BY <1>2, <1>3, <1>4, IdleIsIdle, OutboundUntouched DEF CrossedOut

\* The inbound side and the passing of time leave the outbound alone.
LEMMA OtherOut ==
  ASSUME TypeOK, OutboundInv, \/ AttestIn \/ HandleIn \/ RunSwapQueue \/ ErrataDone
                              \/ NextBlock \/ Churn
  PROVE  OutboundInv'
<1>1. CASE AttestIn
  <2>1. UNCHANGED <<memo, active, outVoter, errataVoter, funds>> /\ msg.kind = "in"
    BY <1>1 DEF AttestIn, ledger
  <2>2. msg'.kind = msg.kind
    BY <1>1, AttestedType
       DEF AttestIn, InDuplicate, InFinal, InUnfinal, InLate, InRecorded
  <2>3. QED
    BY <2>1, <2>2, OutboundUntouched DEF CrossedOut
<1>2. CASE HandleIn
  <2>1. HandleInIgnored \/ HandleInCredited \/ \E r : Dispatch(r)
    BY <1>2 DEF HandleIn, HandleInRefund, HandleInSwap, HandleInAdd
  <2>2. /\ UNCHANGED <<memo, active, outVoter, errataVoter>>
        /\ msg.kind = "in" /\ msg' = Idle
        /\ CreditVault \/ UNCHANGED funds
    BY <2>1 DEF HandleInIgnored, HandleInCredited, Dispatch, HandlingIn, ledger
  <2>3. funds \in [Vaults -> Nat] /\ msg.obs.coins \in Nat
    BY DEF TypeOK, Msgs, Observation
  <2>4. ~SelfTransfer => funds'[OutVault] = funds[OutVault]
    BY <2>2, <2>3, InOtherVault DEF CreditVault
  <2>5. QED
    BY <2>2, <2>4, IdleIsIdle, OutboundUntouched DEF CrossedOut
<1>3. CASE RunSwapQueue \/ ErrataDone \/ NextBlock
  <2>1. /\ UNCHANGED <<memo, active, outVoter, errataVoter, funds>>
        /\ msg' = Idle /\ msg.kind \in {"none", "errata"}
    BY <1>3, IdleIsIdle DEF RunSwapQueue, ErrataDone, NextBlock, ledger
  <2>2. QED
    BY <2>1, IdleIsIdle, OutboundUntouched DEF CrossedOut
<1>4. CASE Churn
  <2>1. /\ UNCHANGED <<memo, outVoter, errataVoter, funds>>
        /\ msg = Idle /\ msg' = Idle
    BY <1>4 DEF Churn, ledger
  <2>2. Stable => active' = active
    BY <1>4 DEF Churn, Stable, TypeOK
  <2>3. QED
    BY <2>1, <2>2, IdleIsIdle, OutboundUntouched DEF CrossedOut
<1>5. QED
  BY <1>1, <1>2, <1>3, <1>4

LEMMA InitOut ==
  ASSUME Init
  PROVE  OutboundInv
<1>1. TypeOK
  BY InitType
<1>2. outVoter = NewVoter /\ NoTx = NewVoter.tx /\ IsEmpty(outVoter.tx)
  BY DEF Init, NewVoter, NoTx, IsEmpty
<1>3. /\ outVoter.txs = <<>> /\ outVoter.height = 0 /\ outVoter.finalisedHeight = 0
      /\ ~outVoter.reverted /\ ~CrossedOut /\ msg.kind = "none"
  BY <1>2, IdleIsIdle DEF Init, NewVoter, CrossedOut
<1>4. OutSeenInv /\ OutVoterInv /\ OutCrossInv
  BY <1>2, <1>3 DEF OutSeenInv, OutVoterInv, OutCrossInv
<1>5. OutStableInv
  BY <1>3 DEF OutStableInv, Winners
<1>6. OutboundBooked
  <2>1. funds[OutVault] = InitFunds /\ InitFunds \in Nat
    BY VaultNames, ConstantsAssumption DEF Init
  <2>2. OutboundCoins = 0 /\ OutboundGas = 0
    BY <1>3 DEF OutboundCoins, OutboundGas, OutHandled
  <2>3. QED
    BY <2>1, <2>2 DEF OutboundBooked
<1>7. QED
  BY <1>4, <1>5, <1>6 DEF OutboundInv

LEMMA NextOut ==
  ASSUME TypeOK, OutboundInv, [Next]_vars
  PROVE  OutboundInv'
<1>1. CASE UNCHANGED vars
  <2>1. UNCHANGED <<memo, active, outVoter, errataVoter, funds, msg>>
    BY <1>1 DEF vars, ledger
  <2>2. OutSeenInv' /\ OutVoterInv' /\ OutCrossInv' /\ OutStableInv'
    BY <2>1 DEF OutboundInv, OutSeenInv, SeenOut, ContentsSeen, OutVoterInv, IsOutbound,
                IsInternal, OutCrossInv, OutStableInv, CrossedOut, Stable, AllFinal
  <2>3. OutboundCoins' = OutboundCoins /\ OutboundGas' = OutboundGas
    BY <2>1 DEF OutboundCoins, OutboundGas, OutHandled
  <2>4. OutboundBooked'
    BY <2>1, <2>3, SameMemo DEF OutboundInv, OutboundBooked
  <2>5. QED
    BY <2>2, <2>4 DEF OutboundInv
<1>2. QED
  BY <1>1, DeliverOut, AttestOutInv, HandleOutInv, AttestErrataOut, OtherOut DEF Next

LEMMA OutboundInvariant == Spec => [](TypeOK /\ OutboundInv)
<1>1. Init => OutboundInv
  BY InitOut
<1>2. TypeOK /\ OutboundInv /\ [Next]_vars => OutboundInv'
  BY NextOut
<1>3. QED
  BY <1>1, <1>2, TypeCorrect, PTL DEF Spec

\* The sending vault is charged once, with the coins and the (corrected) gas of
\* the consensus tx, and gets the coins back once when an errata reverts it,
\* for any nodes, votes and, when the gas is undisputed, churns.
THEOREM OutboundIsBooked == Spec => []OutboundBooked
BY OutboundInvariant, PTL DEF OutboundInv

-----------------------------------------------------------------------------
(***************************************************************************)
(* Slash points                                                            *)
(***************************************************************************)

\* The slash points of one node after an attestation.
LEMMA SlashAt ==
  ASSUME TypeOK, NEW n \in Nodes, NEW m \in Nodes
  PROVE  /\ slash[m] \in Nat /\ ObserveSlashPoints \in Nat
         /\ LackOfObservationPenalty \in Nat
         /\ Charged(n)[m] = slash[m] + (IF m = n THEN ObserveSlashPoints ELSE 0)
         /\ LateRefund(Charged(n), n)[m] =
              IF m # n THEN slash[m]
              ELSE IF slash[m] < LackOfObservationPenalty THEN 0
                   ELSE slash[m] - LackOfObservationPenalty
         /\ DecSlashPoints(Charged(n), ObserveSlashPoints, {n})[m] = slash[m]
<1>1. /\ slash \in [Nodes -> Nat] /\ slash[m] \in Nat
      /\ ObserveSlashPoints \in Nat /\ LackOfObservationPenalty \in Nat
  BY ConstantsAssumption DEF TypeOK
<1>2. Charged(n)[m] = slash[m] + (IF m = n THEN ObserveSlashPoints ELSE 0)
  BY <1>1 DEF Charged, IncSlashPoints
<1>3. PICK s : s = Charged(n)
  OBVIOUS
<1>4. /\ LateRefund(s, n)[m] =
           IF m # n THEN s[m]
           ELSE IF s[m] < ObserveSlashPoints + LackOfObservationPenalty THEN 0
                ELSE s[m] - (ObserveSlashPoints + LackOfObservationPenalty)
      /\ DecSlashPoints(s, ObserveSlashPoints, {n})[m] =
           IF m # n THEN s[m]
           ELSE IF s[m] < ObserveSlashPoints THEN 0 ELSE s[m] - ObserveSlashPoints
  BY DEF LateRefund, DecSlashPoints
<1>5. QED
  BY <1>1, <1>2, <1>3, <1>4

LEMMA SettledAt ==
  ASSUME NEW s, NEW m \in Nodes, NEW S
  PROVE  Settled(s, S)[m] =
           IF m \in S
           THEN IF s[m] < ObserveSlashPoints THEN 0 ELSE s[m] - ObserveSlashPoints
           ELSE IF m \in active THEN s[m] + LackOfObservationPenalty ELSE s[m]
<1>1. PICK d : d = DecSlashPoints(s, ObserveSlashPoints, S)
  OBVIOUS
<1>2. d[m] = IF m \notin S THEN s[m]
             ELSE IF s[m] < ObserveSlashPoints THEN 0 ELSE s[m] - ObserveSlashPoints
  BY <1>1 DEF DecSlashPoints
<1>3. Settled(s, S)[m] = IF m \in active \ S THEN d[m] + LackOfObservationPenalty ELSE d[m]
  BY <1>1 DEF Settled, IncSlashPoints
<1>4. QED
  BY <1>2, <1>3

LEMMA PointsType ==
  ObserveSlashPoints \in Nat /\ LackOfObservationPenalty \in Nat /\ InitSlash \in Nat
BY ConstantsAssumption

\* The three amounts node n may be owed by a voter ...
Parts(v, n, A, a, b, c) ==
  /\ Owed(v, n, A) = a + b + c
  /\ v.finalisedHeight = 0 /\ n \in SignedFinal(v) => a = ObserveSlashPoints
  /\ v.finalisedHeight # 0 \/ n \notin SignedFinal(v) => a = 0
  /\ v.height = 0 /\ n \in SignedUnfinal(v) => b = ObserveSlashPoints
  /\ v.height # 0 \/ n \notin SignedUnfinal(v) => b = 0
  /\ v.height # 0 /\ n \in A /\ n \notin v.tx.signers => c = LackOfObservationPenalty
  /\ v.height = 0 \/ n \notin A \/ n \in v.tx.signers => c = 0

\* ... and the two by an errata.
ErrataParts(e, n, A, a, b) ==
  /\ OwedErrata(e, n, A) = a + b
  /\ e.blockHeight = 0 /\ n \in e.signers => a = ObserveSlashPoints
  /\ e.blockHeight # 0 \/ n \notin e.signers => a = 0
  /\ e.blockHeight # 0 /\ n \in A /\ n \notin e.signers => b = LackOfObservationPenalty
  /\ e.blockHeight = 0 \/ n \notin A \/ n \in e.signers => b = 0

LEMMA OwedParts ==
  ASSUME NEW v, NEW n, NEW A
  PROVE  \E a \in Nat, b \in Nat, c \in Nat : Parts(v, n, A, a, b, c)
<1>1. PICK a \in Nat : a = IF v.finalisedHeight = 0 /\ n \in SignedFinal(v)
                          THEN ObserveSlashPoints ELSE 0
  BY PointsType
<1>2. PICK b \in Nat : b = IF v.height = 0 /\ n \in SignedUnfinal(v)
                          THEN ObserveSlashPoints ELSE 0
  BY PointsType
<1>3. PICK c \in Nat : c = IF v.height # 0 /\ n \in A /\ n \notin v.tx.signers
                          THEN LackOfObservationPenalty ELSE 0
  BY PointsType
<1>4. Owed(v, n, A) = a + b + c
  BY <1>1, <1>2, <1>3 DEF Owed
<1>5. Parts(v, n, A, a, b, c)
  BY <1>1, <1>2, <1>3, <1>4 DEF Parts
<1>6. QED
  BY <1>5

LEMMA OwedErrataParts ==
  ASSUME NEW e, NEW n, NEW A
  PROVE  \E a \in Nat, b \in Nat : ErrataParts(e, n, A, a, b)
<1>1. PICK a \in Nat : a = IF e.blockHeight = 0 /\ n \in e.signers
                          THEN ObserveSlashPoints ELSE 0
  BY PointsType
<1>2. PICK b \in Nat : b = IF e.blockHeight # 0 /\ n \in A /\ n \notin e.signers
                          THEN LackOfObservationPenalty ELSE 0
  BY PointsType
<1>3. OwedErrata(e, n, A) = a + b
  BY <1>1, <1>2 DEF OwedErrata
<1>4. ErrataParts(e, n, A, a, b)
  BY <1>1, <1>2, <1>3 DEF ErrataParts
<1>5. QED
  BY <1>4

LEMMA OwedType ==
  ASSUME NEW v, NEW e, NEW n, NEW A
  PROVE  Owed(v, n, A) \in Nat /\ OwedErrata(e, n, A) \in Nat
<1>1. PICK a \in Nat, b \in Nat, c \in Nat : Parts(v, n, A, a, b, c)
  BY OwedParts, Zenon
<1>2. PICK d \in Nat, g \in Nat : ErrataParts(e, n, A, d, g)
  BY OwedErrataParts, Zenon
<1>3. Owed(v, n, A) = a + b + c /\ OwedErrata(e, n, A) = d + g
  BY <1>1, <1>2 DEF Parts, ErrataParts
<1>4. QED
  BY <1>3

\* Whose votes count after an attestation.
LEMMA SignedAfter ==
  ASSUME NEW u \in Voters, NEW o \in Observation, NEW n \in Nodes,
         NEW v, v = Add(u, o, n), NEW w, w.txs = v.txs, NEW m
  PROVE  /\ m \in SignedFinal(w) => m \in SignedFinal(u) \/ (m = n /\ IsFinal(o))
         /\ m \in SignedUnfinal(w) => m \in SignedUnfinal(u) \/ (m = n /\ ~IsFinal(o))
<1>1. ASSUME NEW i \in DOMAIN v.txs, m \in v.txs[i].signers
      PROVE  \/ /\ i \in DOMAIN u.txs /\ m \in u.txs[i].signers
                /\ IsFinal(u.txs[i]) <=> IsFinal(v.txs[i])
             \/ m = n /\ (IsFinal(o) <=> IsFinal(v.txs[i]))
  <2>1. CASE i \in DOMAIN u.txs /\ m \in u.txs[i].signers
    BY <2>1, AddSigners DEF Alike, IsFinal
  <2>2. CASE m = n /\ Equals(v.txs[i], o)
    BY <2>2 DEF Equals, IsFinal
  <2>3. QED
    BY <1>1, <2>1, <2>2, AddSigners
<1>2. QED
  BY <1>1 DEF SignedFinal, SignedUnfinal

\* A vote that is only recorded costs what it is then owed.
LEMMA OwedRecorded ==
  ASSUME TypeOK, NEW u \in Voters, NEW o \in Observation, NEW n \in Nodes,
         NEW v, v = Add(u, o, n), NEW w \in Voters, w.txs = v.txs,
         w.height = u.height, w.finalisedHeight = u.finalisedHeight,
         w.tx.signers = u.tx.signers, NEW m \in Nodes, NEW k \in Nat,
         slash[m] >= k + Owed(u, m, active)
  PROVE  Charged(n)[m] >= k + Owed(w, m, active)
<1>1. /\ m \in SignedFinal(w) => m \in SignedFinal(u) \/ (m = n /\ IsFinal(o))
      /\ m \in SignedUnfinal(w) => m \in SignedUnfinal(u) \/ (m = n /\ ~IsFinal(o))
  BY SignedAfter
<1>2. /\ slash[m] \in Nat /\ ObserveSlashPoints \in Nat
      /\ LackOfObservationPenalty \in Nat
      /\ Charged(n)[m] = slash[m] + (IF m = n THEN ObserveSlashPoints ELSE 0)
  BY SlashAt
<1>3. PICK u1 \in Nat, u2 \in Nat, u3 \in Nat : Parts(u, m, active, u1, u2, u3)
  BY OwedParts, Zenon
<1>4. PICK w1 \in Nat, w2 \in Nat, w3 \in Nat : Parts(w, m, active, w1, w2, w3)
  BY OwedParts, Zenon
<1>5. /\ m # n => w1 <= u1 /\ w2 <= u2
      /\ w1 + w2 <= u1 + u2 + ObserveSlashPoints
      /\ w3 = u3
  BY <1>1, <1>2, <1>3, <1>4 DEF Parts
<1>6. QED
  BY <1>2, <1>3, <1>4, <1>5 DEF Parts

\* A late vote is given back what it costs and the penalty its node owes.
LEMMA OwedLate ==
  ASSUME TypeOK, NEW u \in Voters, NEW o \in Observation, NEW n \in active, n \in Nodes,
         NEW v, v = Add(u, o, n), NEW w \in Voters, w.txs = v.txs,
         w.height = u.height, w.finalisedHeight = u.finalisedHeight,
         w.tx.signers = u.tx.signers \cup {n}, n \notin u.tx.signers,
         u.height # 0, IsFinal(o) => u.finalisedHeight # 0,
         NEW m \in Nodes, NEW k \in Nat, slash[m] >= k + Owed(u, m, active)
  PROVE  LateRefund(Charged(n), n)[m] >= k + Owed(w, m, active)
<1>1. m \in SignedFinal(w) => m \in SignedFinal(u) \/ (m = n /\ IsFinal(o))
  BY SignedAfter
<1>2. /\ slash[m] \in Nat /\ ObserveSlashPoints \in Nat
      /\ LackOfObservationPenalty \in Nat
      /\ LateRefund(Charged(n), n)[m] =
           IF m # n THEN slash[m]
           ELSE IF slash[m] < LackOfObservationPenalty THEN 0
                ELSE slash[m] - LackOfObservationPenalty
  BY SlashAt
<1>3. PICK u1 \in Nat, u2 \in Nat, u3 \in Nat : Parts(u, m, active, u1, u2, u3)
  BY OwedParts, Zenon
<1>4. PICK w1 \in Nat, w2 \in Nat, w3 \in Nat : Parts(w, m, active, w1, w2, w3)
  BY OwedParts, Zenon
<1>5. /\ w1 <= u1 /\ w2 = 0 /\ u2 = 0
      /\ m # n => w3 = u3
      /\ m = n => w3 = 0 /\ u3 = LackOfObservationPenalty
  BY <1>1, <1>2, <1>3, <1>4 DEF Parts
<1>6. QED
  BY <1>2, <1>3, <1>4, <1>5 DEF Parts

\* The attestation that settles the votes of one finality gives their points back
\* to the signers S of the consensus tx, who have paid them.
LEMMA OwedSettled ==
  ASSUME TypeOK, NEW u \in Voters, NEW o \in Observation, NEW n \in Nodes,
         NEW v, v = Add(u, o, n), NEW w \in Voters, w.txs = v.txs,
         NEW S, w.tx.signers = S, w.height # 0,
         \/ /\ S \subseteq SignedFinal(w)
            /\ u.finalisedHeight = 0 /\ w.finalisedHeight # 0
         \/ /\ S \subseteq SignedUnfinal(w)
            /\ u.height = 0 /\ w.finalisedHeight = u.finalisedHeight,
         NEW m \in Nodes, NEW k \in Nat, slash[m] >= k + Owed(u, m, active)
  PROVE  Settled(Charged(n), S)[m] >= k + Owed(w, m, active)
<1>1. /\ m \in SignedFinal(w) => m \in SignedFinal(u) \/ (m = n /\ IsFinal(o))
      /\ m \in SignedUnfinal(w) => m \in SignedUnfinal(u) \/ (m = n /\ ~IsFinal(o))
  BY SignedAfter
<1>2. PICK c \in Nat : /\ c = Charged(n)[m]
                       /\ c = slash[m] + (IF m = n THEN ObserveSlashPoints ELSE 0)
                       /\ slash[m] \in Nat /\ ObserveSlashPoints \in Nat
                       /\ LackOfObservationPenalty \in Nat
                       /\ Settled(Charged(n), S)[m] =
                            IF m \in S
                            THEN IF c < ObserveSlashPoints THEN 0
                                 ELSE c - ObserveSlashPoints
                            ELSE IF m \in active THEN c + LackOfObservationPenalty
                                 ELSE c
  <2>1. /\ Charged(n)[m] = slash[m] + (IF m = n THEN ObserveSlashPoints ELSE 0)
        /\ slash[m] \in Nat /\ ObserveSlashPoints \in Nat
        /\ LackOfObservationPenalty \in Nat
    BY PointsType DEF TypeOK, Charged, IncSlashPoints
  <2>2. Charged(n)[m] \in Nat
    BY <2>1
  <2>3. Settled(Charged(n), S)[m] =
          IF m \in S
          THEN IF Charged(n)[m] < ObserveSlashPoints THEN 0
               ELSE Charged(n)[m] - ObserveSlashPoints
          ELSE IF m \in active THEN Charged(n)[m] + LackOfObservationPenalty
               ELSE Charged(n)[m]
    BY SettledAt
  <2>4. QED
    BY <2>1, <2>2, <2>3, Zenon
<1>3. PICK u1 \in Nat, u2 \in Nat, u3 \in Nat : Parts(u, m, active, u1, u2, u3)
  BY OwedParts, Zenon
<1>4. PICK w1 \in Nat, w2 \in Nat, w3 \in Nat : Parts(w, m, active, w1, w2, w3)
  BY OwedParts, Zenon
<1>5. w2 = 0
  BY <1>4 DEF Parts
<1>6. CASE m \in S
  <2>1. w3 = 0
    BY <1>4, <1>6 DEF Parts
  <2>2. CASE /\ S \subseteq SignedFinal(w)
             /\ u.finalisedHeight = 0 /\ w.finalisedHeight # 0
    <3>1. w1 = 0 /\ (m \in SignedFinal(u) => u1 = ObserveSlashPoints)
      BY <1>3, <1>4, <2>2 DEF Parts
    <3>2. m \in SignedFinal(u) \/ m = n
      BY <1>1, <1>6, <2>2
    <3>3. c >= k + ObserveSlashPoints
      BY <1>2, <1>3, <3>1, <3>2 DEF Parts
    <3>4. QED
      BY <1>2, <1>4, <1>5, <1>6, <2>1, <3>1, <3>3 DEF Parts
  <2>3. CASE /\ S \subseteq SignedUnfinal(w)
             /\ u.height = 0 /\ w.finalisedHeight = u.finalisedHeight
    <3>1. CASE m \in SignedUnfinal(u)
      <4>1. u2 = ObserveSlashPoints /\ w1 <= u1 + (IF m = n THEN ObserveSlashPoints ELSE 0)
        BY <1>1, <1>2, <1>3, <1>4, <2>3, <3>1 DEF Parts
      <4>2. c >= k + w1 + ObserveSlashPoints
        BY <1>2, <1>3, <4>1 DEF Parts
      <4>3. QED
        BY <1>2, <1>4, <1>5, <1>6, <2>1, <4>2 DEF Parts
    <3>2. CASE m = n /\ ~IsFinal(o)
      <4>1. w1 <= u1
        BY <1>1, <1>2, <1>3, <1>4, <2>3, <3>2 DEF Parts
      <4>2. c >= k + w1 + ObserveSlashPoints
        BY <1>2, <1>3, <3>2, <4>1 DEF Parts
      <4>3. QED
        BY <1>2, <1>4, <1>5, <1>6, <2>1, <4>2 DEF Parts
    <3>3. QED
      BY <1>1, <1>6, <2>3, <3>1, <3>2
  <2>4. QED
    BY <2>2, <2>3
<1>7. CASE m \notin S
  <2>1. w1 <= u1 + (IF m = n THEN ObserveSlashPoints ELSE 0)
    BY <1>1, <1>2, <1>3, <1>4 DEF Parts
  <2>2. w3 = IF m \in active THEN LackOfObservationPenalty ELSE 0
    BY <1>4, <1>7 DEF Parts
  <2>3. c >= k + w1
    BY <1>2, <1>3, <1>4, <2>1 DEF Parts
  <2>4. QED
    BY <1>2, <1>4, <1>5, <1>7, <2>2, <2>3 DEF Parts
<1>8. QED
  BY <1>6, <1>7
\* t is what some node may have observed on one side or the other.
SeenAny(t) == \E o \in InObs[memo] \cup OutObs[memo] : Equals(t, o)

\* How the heights of a voter depend on its consensus tx.
HeightsFit(v) ==
  /\ (v.height # 0) <=> ~IsEmpty(v.tx)
  /\ (v.finalisedHeight # 0) <=> (~IsEmpty(v.tx) /\ IsFinal(v.tx))

\* When contents and finality determine the height, the consensus tx has the
\* signers of one entry, and nobody else agrees with it.
LEMMA WinnerSigners ==
  ASSUME TypeOK, OneHeight, NEW x \in Voters, Distinct(x),
         \A j \in DOMAIN x.txs : SeenAny(x.txs[j]) /\ ~IsEmpty(x.txs[j]),
         NEW i \in DOMAIN x.txs, x.tx = x.txs[i]
  PROVE  /\ GetConsensusSigners(x) = x.tx.signers
         /\ IsFinal(x.tx) => x.tx.signers \subseteq SignedFinal(x)
         /\ ~IsFinal(x.tx) => x.tx.signers \subseteq SignedUnfinal(x)
<1>1. x.tx \in ObservedTxs /\ x.tx.signers \subseteq Nodes
  BY DEF Voters, ObservedTxs
<1>2. ASSUME NEW j \in DOMAIN x.txs, IsFinal(x.txs[j]) = IsFinal(x.tx),
             EqualsEx(x.txs[j], x.tx)
      PROVE  j = i
  <2>1. PICK o \in InObs[memo] \cup OutObs[memo] : Equals(x.txs[j], o)
    BY DEF SeenAny
  <2>2. PICK p \in InObs[memo] \cup OutObs[memo] : Equals(x.txs[i], p)
    BY DEF SeenAny
  <2>3. EqualsEx(o, p) /\ IsFinal(o) = IsFinal(p)
    BY <1>2, <2>1, <2>2 DEF Equals, EqualsEx, EqualsExIgnoreGas, IsFinal
  <2>4. o = p
    BY <2>3 DEF OneHeight
  <2>5. Equals(x.txs[j], x.txs[i])
    BY <2>1, <2>2, <2>4 DEF Equals, EqualsEx, EqualsExIgnoreGas
  <2>6. QED
    BY <2>5 DEF Distinct
<1>3. {j \in DOMAIN x.txs : /\ IsFinal(x.txs[j]) = IsFinal(x.tx)
                            /\ EqualsEx(x.txs[j], x.tx)} = {i}
  BY <1>2 DEF EqualsEx, EqualsExIgnoreGas
<1>4. MatchingSigners(x, x.tx, IsFinal(x.tx)) = x.tx.signers
  BY <1>3 DEF MatchingSigners
<1>5. GetConsensusSigners(x) = x.tx.signers
  BY <1>4 DEF GetConsensusSigners
<1>6. QED
  BY <1>1, <1>5 DEF SignedFinal, SignedUnfinal

\* The nodes whose points the attestation that settles gives back.
LEMMA SettledSigners ==
  ASSUME TypeOK, OneHeight, NEW v \in Voters, Distinct(v), HeightsFit(v),
         \A j \in DOMAIN v.txs : SeenAny(v.txs[j]) /\ ~IsEmpty(v.txs[j]),
         NEW x \in Voters, x.txs = v.txs, x.tx = GetTx(v, active),
         ReachesFinal(v) \/ ReachesUnfinal(v)
  PROVE  /\ GetConsensusSigners(x) = x.tx.signers
         /\ ReachesFinal(v) => x.tx.signers \subseteq SignedFinal(x)
         /\ ReachesUnfinal(v) => x.tx.signers \subseteq SignedUnfinal(x)
<1>1. ReachesFinal(v) =>
        \E i \in DOMAIN v.txs : x.tx = v.txs[i] /\ IsFinal(x.tx)
  BY FinalWinner DEF ReachesFinal, HasFinalised, HeightsFit, Winners
<1>2. ReachesUnfinal(v) =>
        \E i \in DOMAIN v.txs : x.tx = v.txs[i] /\ ~IsFinal(x.tx)
  BY GetTxMember DEF ReachesUnfinal, HasFinalised, HasConsensus, HeightsFit
<1>3. PICK i \in DOMAIN x.txs : x.tx = x.txs[i]
  BY <1>1, <1>2
<1>4. Distinct(x) /\ \A j \in DOMAIN x.txs : SeenAny(x.txs[j]) /\ ~IsEmpty(x.txs[j])
  BY DEF Distinct
<1>5. /\ GetConsensusSigners(x) = x.tx.signers
      /\ IsFinal(x.tx) => x.tx.signers \subseteq SignedFinal(x)
      /\ ~IsFinal(x.tx) => x.tx.signers \subseteq SignedUnfinal(x)
  BY <1>3, <1>4, WinnerSigners
<1>6. QED
  BY <1>1, <1>2, <1>5

\* One vote of node n: voter u becomes w (x before the gas correction), and
\* the points of every node m still cover k and what the voter owes it.
LEMMA OwedAttest ==
  ASSUME TypeOK, OneHeight, NEW u \in Voters, Distinct(u), HeightsFit(u),
         NEW n \in active, n \in Nodes, NEW v \in Voters, v = Add(u, msg.obs, n),
         \A j \in DOMAIN v.txs : SeenAny(v.txs[j]) /\ ~IsEmpty(v.txs[j]),
         NEW x \in Voters, NEW w \in Voters, w.txs = x.txs, w.height = x.height,
         w.finalisedHeight = x.finalisedHeight, w.tx.signers = x.tx.signers,
         \/ /\ ReachesFinal(v) /\ x \in {Finalised(v), FinalisedOut(v)}
            /\ slash' = Settled(Charged(n), GetConsensusSigners(x))
         \/ /\ ReachesUnfinal(v) /\ x = Unfinalised(v)
            /\ slash' = Settled(Charged(n), GetConsensusSigners(x))
         \/ /\ IsLate(v, n) /\ x = LateSigned(v, n)
            /\ slash' = LateRefund(Charged(n), n)
         \/ x = v /\ slash' = Charged(n),
         NEW m \in Nodes, NEW k \in Nat, slash[m] >= k + Owed(u, m, active)
  PROVE  slash'[m] >= k + Owed(w, m, active)
<1>1. /\ msg.obs \in Observation /\ height # 0
      /\ v.tx = u.tx /\ v.height = u.height /\ v.finalisedHeight = u.finalisedHeight
  BY AddType DEF TypeOK, Msgs
<1>2. Distinct(v) /\ HeightsFit(v)
  BY <1>1, AddSigners DEF HeightsFit
<1>3. CASE /\ ReachesFinal(v) /\ x \in {Finalised(v), FinalisedOut(v)}
           /\ slash' = Settled(Charged(n), GetConsensusSigners(x))
  <2>1. /\ x.txs = v.txs /\ x.tx = GetTx(v, active)
        /\ x.height # 0 /\ x.finalisedHeight # 0
    <3>1. CASE x = Finalised(v)
      BY <1>1, <3>1, VoterStepType
    <3>2. CASE x = FinalisedOut(v)
      <4>1. /\ x.txs = v.txs /\ x.tx = GetTx(v, active)
            /\ x.height = IF v.height = 0 THEN height ELSE v.height
            /\ x.finalisedHeight = height
        BY <3>2, VoterStepType
      <4>2. QED
        BY <1>1, <4>1
    <3>3. QED
      BY <1>3, <3>1, <3>2
  <2>2. GetConsensusSigners(x) = x.tx.signers /\ x.tx.signers \subseteq SignedFinal(x)
    BY <1>2, <1>3, <2>1, SettledSigners
  <2>3. w.tx.signers \subseteq SignedFinal(w) /\ u.finalisedHeight = 0
    BY <1>1, <1>3, <2>2 DEF SignedFinal, ReachesFinal
  <2>4. w.txs = v.txs /\ w.height # 0 /\ w.finalisedHeight # 0
    BY <2>1
  <2>5. Settled(Charged(n), w.tx.signers)[m] >= k + Owed(w, m, active)
    BY <1>1, <2>3, <2>4, OwedSettled
  <2>6. QED
    BY <1>3, <2>2, <2>5
<1>4. CASE /\ ReachesUnfinal(v) /\ x = Unfinalised(v)
           /\ slash' = Settled(Charged(n), GetConsensusSigners(x))
  <2>1. /\ x.txs = v.txs /\ x.tx = GetTx(v, active)
        /\ x.height # 0 /\ x.finalisedHeight = v.finalisedHeight
    BY <1>1, <1>4, VoterStepType
  <2>2. GetConsensusSigners(x) = x.tx.signers /\ x.tx.signers \subseteq SignedUnfinal(x)
    BY <1>2, <1>4, <2>1, SettledSigners
  <2>3. w.tx.signers \subseteq SignedUnfinal(w) /\ u.height = 0
    BY <1>1, <1>4, <2>2 DEF SignedUnfinal, ReachesUnfinal
  <2>4. w.txs = v.txs /\ w.height # 0 /\ w.finalisedHeight = u.finalisedHeight
    BY <1>1, <2>1
  <2>5. Settled(Charged(n), w.tx.signers)[m] >= k + Owed(w, m, active)
    BY <1>1, <2>3, <2>4, OwedSettled
  <2>6. QED
    BY <1>4, <2>2, <2>5
<1>5. CASE /\ IsLate(v, n) /\ x = LateSigned(v, n)
           /\ slash' = LateRefund(Charged(n), n)
  <2>1. /\ x.txs = v.txs /\ x.height = v.height /\ x.finalisedHeight = v.finalisedHeight
        /\ x.tx = [v.tx EXCEPT !.signers = @ \cup {n}]
    BY <1>5, VoterStepType
  <2>2. x.tx.signers = u.tx.signers \cup {n}
    BY <1>1, <2>1 DEF Voters, ObservedTxs
  <2>3. /\ n \notin u.tx.signers /\ u.height # 0
        /\ IsFinal(msg.obs) => u.finalisedHeight # 0
    BY <1>1, <1>2, <1>5 DEF IsLate, InTime, HeightsFit
  <2>4. /\ w.txs = v.txs /\ w.height = u.height /\ w.finalisedHeight = u.finalisedHeight
        /\ w.tx.signers = u.tx.signers \cup {n}
    BY <1>1, <2>1, <2>2
  <2>5. LateRefund(Charged(n), n)[m] >= k + Owed(w, m, active)
    BY <1>1, <2>3, <2>4, OwedLate
  <2>6. QED
    BY <1>5, <2>5
<1>6. CASE x = v /\ slash' = Charged(n)
  <2>1. /\ w.txs = v.txs /\ w.height = u.height /\ w.finalisedHeight = u.finalisedHeight
        /\ w.tx.signers = u.tx.signers
    BY <1>1, <1>6
  <2>2. Charged(n)[m] >= k + Owed(w, m, active)
    BY <1>1, <2>1, OwedRecorded
  <2>3. QED
    BY <1>6, <2>2
<1>7. QED
  BY <1>3, <1>4, <1>5, <1>6

LEMMA AttestedRest ==
  ASSUME TypeOK, NEW n, NEW c, Attested(n, c)
  PROVE  msg'.todo \subseteq msg.todo /\ msg'.undo = msg.undo /\ msg'.kind = msg.kind
<1>1. PICK t : t = msg.todo \ {n}
  OBVIOUS
<1>2. PICK d : d = (msg.crossed \/ c)
  OBVIOUS
<1>3. msg' = [msg EXCEPT !.todo = t, !.crossed = d]
  BY <1>1, <1>2 DEF Attested
<1>4. QED
  BY <1>1, <1>3 DEF TypeOK, Msgs

\* The premises of the accounting do not change.
LEMMA SamePremises ==
  ASSUME memo' = memo
  PROVE  (Stable' <=> Stable) /\ (OneHeight' <=> OneHeight)
BY DEF Stable, OneHeight

\* A duplicate vote never lowers anybody's points.
LEMMA DuplicateKeeps ==
  ASSUME TypeOK, NEW n \in Nodes, DuplicateSlash(n), NEW m \in Nodes
  PROVE  slash'[m] >= slash[m]
<1>1. /\ slash[m] \in Nat /\ ObserveSlashPoints \in Nat
      /\ Charged(n)[m] = slash[m] + (IF m = n THEN ObserveSlashPoints ELSE 0)
      /\ DecSlashPoints(Charged(n), ObserveSlashPoints, {n})[m] = slash[m]
  BY SlashAt
<1>2. QED
  BY <1>1 DEF DuplicateSlash

\* Points that do not go down still cover what is owed when that is the same.
LEMMA CoveredUp ==
  ASSUME NEW s \in [Nodes -> Nat], NEW r \in [Nodes -> Nat],
         NEW v, NEW w, NEW e, NEW A, Covered(s, v, w, e, A),
         \A m \in Nodes : r[m] >= s[m]
  PROVE  Covered(r, v, w, e, A)
<1> SUFFICES ASSUME NEW m \in Nodes
             PROVE  r[m] >= InitSlash + Owed(v, m, A) + Owed(w, m, A) + OwedErrata(e, m, A)
  BY DEF Covered
<1>1. s[m] >= InitSlash + Owed(v, m, A) + Owed(w, m, A) + OwedErrata(e, m, A)
  BY DEF Covered
<1>2. /\ Owed(v, m, A) \in Nat /\ Owed(w, m, A) \in Nat /\ OwedErrata(e, m, A) \in Nat
      /\ InitSlash \in Nat /\ s[m] \in Nat /\ r[m] \in Nat /\ r[m] >= s[m]
  BY OwedType, PointsType
<1>3. QED
  BY <1>1, <1>2

\* What an attestation of an inbound makes of the voter and the points.
LEMMA AttestInCases ==
  ASSUME TypeOK, InboundInv, VoteInv, NEW n \in msg.todo, msg.kind = "in",
         NEW v, v = Add(inVoter, msg.obs, n),
         InFinal(n) \/ InUnfinal(n) \/ InLate(n) \/ InRecorded(n)
  PROVE  /\ v \in Voters /\ inVoter' \in Voters /\ inVoter'.txs = v.txs
         /\ HeightsFit(inVoter) /\ HeightsFit(inVoter') /\ Distinct(inVoter')
         /\ \A j \in DOMAIN v.txs : SeenAny(v.txs[j]) /\ ~IsEmpty(v.txs[j])
         /\ \/ /\ ReachesFinal(v) /\ inVoter' \in {Finalised(v), FinalisedOut(v)}
               /\ slash' = Settled(Charged(n), GetConsensusSigners(inVoter'))
            \/ /\ ReachesUnfinal(v) /\ inVoter' = Unfinalised(v)
               /\ slash' = Settled(Charged(n), GetConsensusSigners(inVoter'))
            \/ /\ IsLate(v, n) /\ inVoter' = LateSigned(v, n)
               /\ slash' = LateRefund(Charged(n), n)
            \/ inVoter' = v /\ slash' = Charged(n)
<1>1. /\ n \in Nodes /\ msg.obs \in Observation /\ inVoter \in Voters
      /\ inVoter.tx \in ObservedTxs /\ height # 0
  BY DEF TypeOK, Msgs, Voters
<1>2. /\ v \in Voters /\ v.tx = inVoter.tx
      /\ v.height = inVoter.height /\ v.finalisedHeight = inVoter.finalisedHeight
  BY <1>1, AddType
<1>3. HeightsFit(inVoter) /\ HeightsFit(v)
  BY <1>2 DEF HeightsFit, VoteInv, InboundInv, VoterInv
<1>4. Distinct(v)
  BY <1>1, AddSigners DEF VoteInv
<1>5. \A j \in DOMAIN v.txs : SeenAny(v.txs[j]) /\ ~IsEmpty(v.txs[j])
  BY <1>1, AddSeen DEF InboundInv, SeenAny, Seen
<1>6. CASE InFinal(n)
  <2>1. ReachesFinal(v) /\ inVoter' = Finalised(v)
    BY <1>6 DEF InFinal
  <2>2. /\ inVoter' \in Voters /\ inVoter'.txs = v.txs /\ inVoter'.tx = GetTx(v, active)
        /\ inVoter'.height # 0 /\ inVoter'.finalisedHeight # 0
    BY <1>1, <1>2, <2>1, VoterStepType
  <2>3. HeightsFit(inVoter') /\ Distinct(inVoter')
    BY <1>4, <2>1, <2>2 DEF HeightsFit, Distinct, ReachesFinal, HasFinalised
  <2>4. QED
    BY <1>2, <1>3, <1>5, <1>6, <2>1, <2>2, <2>3 DEF InFinal
<1>7. CASE InUnfinal(n)
  <2>1. ReachesUnfinal(v) /\ inVoter' = Unfinalised(v)
    BY <1>7 DEF InUnfinal
  <2>2. /\ inVoter' \in Voters /\ inVoter'.txs = v.txs /\ inVoter'.tx = GetTx(v, active)
        /\ inVoter'.height # 0 /\ inVoter'.finalisedHeight = v.finalisedHeight
    BY <1>1, <1>2, <2>1, VoterStepType
  <2>3. HeightsFit(inVoter') /\ Distinct(inVoter')
    BY <1>4, <2>1, <2>2 DEF HeightsFit, Distinct, ReachesUnfinal, HasFinalised, HasConsensus
  <2>4. QED
    BY <1>2, <1>3, <1>5, <1>7, <2>1, <2>2, <2>3 DEF InUnfinal
<1>8. CASE InLate(n)
  <2>1. IsLate(v, n) /\ inVoter' = LateSigned(v, n)
    BY <1>8 DEF InLate
  <2>2. /\ inVoter' \in Voters /\ inVoter'.txs = v.txs
        /\ inVoter'.tx = [v.tx EXCEPT !.signers = @ \cup {n}]
        /\ inVoter'.height = v.height /\ inVoter'.finalisedHeight = v.finalisedHeight
    BY <1>1, <1>2, <2>1, VoterStepType
  <2>3. /\ inVoter'.tx.blockHeight = v.tx.blockHeight
        /\ inVoter'.tx.finaliseHeight = v.tx.finaliseHeight
    BY <1>1, <1>2, <2>2 DEF ObservedTxs
  <2>4. HeightsFit(inVoter') /\ Distinct(inVoter')
    BY <1>3, <1>4, <2>2, <2>3 DEF HeightsFit, Distinct, IsEmpty, IsFinal
  <2>5. QED
    BY <1>2, <1>3, <1>5, <1>8, <2>1, <2>2, <2>4 DEF InLate
<1>9. CASE InRecorded(n)
  BY <1>2, <1>3, <1>4, <1>5, <1>9 DEF InRecorded
<1>10. QED
  BY <1>6, <1>7, <1>8, <1>9

LEMMA AttestInSlash ==
  ASSUME TypeOK, InboundInv, VoteInv, SlashInv, AttestIn
  PROVE  VoteInv' /\ SlashInv'
<1>1. PICK n \in msg.todo :
        /\ msg.kind = "in"
        /\ \/ InDuplicate(n) \/ InFinal(n) \/ InUnfinal(n)
           \/ InLate(n) \/ InRecorded(n)
        /\ UNCHANGED <<memo, height, active, outVoter, errataVoter, ledger>>
  BY DEF AttestIn
<1>2. /\ n \in Nodes /\ n \in active /\ inVoter \in Voters /\ slash \in [Nodes -> Nat]
  BY DEF VoteInv, TypeOK, Msgs
<1>3. slash' \in [Nodes -> Nat]
  BY AttestInType DEF TypeOK
<1>4. msg'.todo \subseteq active /\ msg'.kind = "in"
  BY <1>1, AttestedRest
     DEF VoteInv, InDuplicate, InFinal, InUnfinal, InLate, InRecorded
<1>5. (Stable' <=> Stable) /\ (OneHeight' <=> OneHeight)
  BY <1>1, SamePremises
<1>6. CASE InDuplicate(n)
  <2>1. inVoter' = inVoter /\ DuplicateSlash(n)
    BY <1>6 DEF InDuplicate
  <2>2. \A m \in Nodes : slash'[m] >= slash[m]
    BY <1>2, <2>1, DuplicateKeeps
  <2>3. Stable /\ OneHeight => Covered(slash', inVoter, outVoter, errataVoter, active)
    BY <1>2, <1>3, <2>2, CoveredUp DEF SlashInv
  <2>4. QED
    BY <1>1, <1>4, <1>5, <2>1, <2>3 DEF VoteInv, SlashInv
<1>7. CASE InFinal(n) \/ InUnfinal(n) \/ InLate(n) \/ InRecorded(n)
  <2>1. PICK v : v = Add(inVoter, msg.obs, n)
    OBVIOUS
  <2>2. PICK w : w = inVoter'
    OBVIOUS
  <2>3. /\ v \in Voters /\ w \in Voters /\ w.txs = v.txs
        /\ HeightsFit(inVoter) /\ HeightsFit(w) /\ Distinct(w)
        /\ \A j \in DOMAIN v.txs : SeenAny(v.txs[j]) /\ ~IsEmpty(v.txs[j])
        /\ \/ /\ ReachesFinal(v) /\ w \in {Finalised(v), FinalisedOut(v)}
              /\ slash' = Settled(Charged(n), GetConsensusSigners(w))
           \/ /\ ReachesUnfinal(v) /\ w = Unfinalised(v)
              /\ slash' = Settled(Charged(n), GetConsensusSigners(w))
           \/ /\ IsLate(v, n) /\ w = LateSigned(v, n)
              /\ slash' = LateRefund(Charged(n), n)
           \/ w = v /\ slash' = Charged(n)
    BY <1>1, <1>7, <2>1, <2>2, AttestInCases
  <2>4. VoteInv'
    BY <1>1, <1>4, <2>2, <2>3 DEF VoteInv, HeightsFit
  <2>5. ASSUME Stable, OneHeight, NEW m \in Nodes
        PROVE  slash'[m] >= InitSlash + Owed(w, m, active)
                            + Owed(outVoter, m, active) + OwedErrata(errataVoter, m, active)
    <3>1. /\ Owed(w, m, active) \in Nat /\ Owed(inVoter, m, active) \in Nat
          /\ Owed(outVoter, m, active) \in Nat /\ OwedErrata(errataVoter, m, active) \in Nat
          /\ InitSlash \in Nat /\ slash[m] \in Nat /\ slash'[m] \in Nat
      BY <1>2, <1>3, OwedType, PointsType
    <3>2. PICK k \in Nat : k = InitSlash + Owed(outVoter, m, active)
                               + OwedErrata(errataVoter, m, active)
      BY <3>1
    <3>3. slash[m] >= InitSlash + Owed(inVoter, m, active)
                      + Owed(outVoter, m, active) + OwedErrata(errataVoter, m, active)
      BY <2>5 DEF SlashInv, Covered
    <3>4. slash[m] >= k + Owed(inVoter, m, active)
      BY <3>1, <3>2, <3>3
    <3>5. slash'[m] >= k + Owed(w, m, active)
      BY <1>2, <2>1, <2>3, <2>5, <3>4, OwedAttest DEF VoteInv
    <3>6. QED
      BY <3>1, <3>2, <3>5
  <2>6. Stable /\ OneHeight => Covered(slash', inVoter', outVoter, errataVoter, active)
    BY <2>2, <2>5 DEF Covered
  <2>7. QED
    BY <1>1, <1>4, <1>5, <2>4, <2>6 DEF SlashInv
<1>8. QED
  BY <1>1, <1>6, <1>7

\* What an attestation of an outbound makes of the voter, x before the gas
\* correction, and the points.
LEMMA AttestOutCases ==
  ASSUME TypeOK, OutboundInv, VoteInv, NEW n \in msg.todo, msg.kind = "out",
         NEW v, v = Add(outVoter, msg.obs, n),
         OutFinal(n) \/ OutUnfinal(n) \/ OutLate(n) \/ OutRecorded(n)
  PROVE  /\ v \in Voters /\ HeightsFit(outVoter)
         /\ \A j \in DOMAIN v.txs : SeenAny(v.txs[j]) /\ ~IsEmpty(v.txs[j])
         /\ \E x \in Voters :
              /\ CorrectGas(x) /\ x.txs = v.txs
              /\ \/ /\ ReachesFinal(v) /\ x \in {Finalised(v), FinalisedOut(v)}
                    /\ slash' = Settled(Charged(n), GetConsensusSigners(x))
                 \/ /\ ReachesUnfinal(v) /\ x = Unfinalised(v)
                    /\ slash' = Settled(Charged(n), GetConsensusSigners(x))
                 \/ /\ IsLate(v, n) /\ x = LateSigned(v, n)
                    /\ slash' = LateRefund(Charged(n), n)
                 \/ x = v /\ slash' = Charged(n)
<1>1. n \in Nodes /\ msg.obs \in Observation /\ outVoter \in Voters
  BY DEF TypeOK, Msgs
<1>2. v \in Voters
  BY <1>1, AddType
<1>3. HeightsFit(outVoter)
  BY DEF HeightsFit, OutboundInv, OutVoterInv
<1>4. \A j \in DOMAIN v.txs : SeenAny(v.txs[j]) /\ ~IsEmpty(v.txs[j])
  BY <1>1, AddSeenOut DEF OutboundInv, SeenAny, SeenOut
<1>5. CASE OutFinal(n)
  <2>1. FinalisedOut(v) \in Voters /\ FinalisedOut(v).txs = v.txs
    BY <1>1, <1>2, VoterStepType
  <2>2. QED
    BY <1>2, <1>3, <1>4, <1>5, <2>1 DEF OutFinal
<1>6. CASE OutUnfinal(n)
  <2>1. Unfinalised(v) \in Voters /\ Unfinalised(v).txs = v.txs
    BY <1>1, <1>2, VoterStepType
  <2>2. QED
    BY <1>2, <1>3, <1>4, <1>6, <2>1 DEF OutUnfinal
<1>7. CASE OutLate(n)
  <2>1. LateSigned(v, n) \in Voters /\ LateSigned(v, n).txs = v.txs
    BY <1>1, <1>2, VoterStepType
  <2>2. QED
    BY <1>2, <1>3, <1>4, <1>7, <2>1 DEF OutLate
<1>8. CASE OutRecorded(n)
  BY <1>2, <1>3, <1>4, <1>8 DEF OutRecorded
<1>9. QED
  BY <1>5, <1>6, <1>7, <1>8

LEMMA AttestOutSlash ==
  ASSUME TypeOK, OutboundInv, VoteInv, SlashInv, AttestOut
  PROVE  VoteInv' /\ SlashInv'
<1>1. PICK n \in msg.todo :
        /\ msg.kind = "out"
        /\ \/ OutDuplicate(n) \/ OutFinal(n) \/ OutUnfinal(n)
           \/ OutLate(n) \/ OutRecorded(n)
        /\ UNCHANGED <<memo, height, active, inVoter, errataVoter, status,
                       bondSlash, pool, outcome, dispatches>>
  BY DEF AttestOut
<1>2. /\ n \in Nodes /\ n \in active /\ outVoter \in Voters /\ slash \in [Nodes -> Nat]
      /\ msg.obs \in Observation
  BY DEF VoteInv, TypeOK, Msgs
<1>3. slash' \in [Nodes -> Nat]
  BY AttestOutType DEF TypeOK
<1>4. msg'.todo \subseteq active /\ msg'.kind = "out"
  BY <1>1, AttestedRest
     DEF VoteInv, OutDuplicate, OutFinal, OutUnfinal, OutLate, OutRecorded
<1>5. (Stable' <=> Stable) /\ (OneHeight' <=> OneHeight)
  BY <1>1, SamePremises
<1>6. CASE OutDuplicate(n)
  <2>1. outVoter' = outVoter /\ DuplicateSlash(n)
    BY <1>6 DEF OutDuplicate
  <2>2. \A m \in Nodes : slash'[m] >= slash[m]
    BY <1>2, <2>1, DuplicateKeeps
  <2>3. Stable /\ OneHeight => Covered(slash', inVoter, outVoter, errataVoter, active)
    BY <1>2, <1>3, <2>2, CoveredUp DEF SlashInv
  <2>4. QED
    BY <1>1, <1>4, <1>5, <2>1, <2>3 DEF VoteInv, SlashInv
<1>7. CASE OutFinal(n) \/ OutUnfinal(n) \/ OutLate(n) \/ OutRecorded(n)
  <2>1. PICK v : v = Add(outVoter, msg.obs, n)
    OBVIOUS
  <2>2. PICK w : w = outVoter'
    OBVIOUS
  <2>3. /\ v \in Voters /\ HeightsFit(outVoter)
        /\ \A j \in DOMAIN v.txs : SeenAny(v.txs[j]) /\ ~IsEmpty(v.txs[j])
    BY <1>1, <1>7, <2>1, AttestOutCases
  <2>4. PICK x \in Voters :
          /\ CorrectGas(x) /\ x.txs = v.txs
          /\ \/ /\ ReachesFinal(v) /\ x \in {Finalised(v), FinalisedOut(v)}
                /\ slash' = Settled(Charged(n), GetConsensusSigners(x))
             \/ /\ ReachesUnfinal(v) /\ x = Unfinalised(v)
                /\ slash' = Settled(Charged(n), GetConsensusSigners(x))
             \/ /\ IsLate(v, n) /\ x = LateSigned(v, n)
                /\ slash' = LateRefund(Charged(n), n)
             \/ x = v /\ slash' = Charged(n)
    BY <1>1, <1>7, <2>1, AttestOutCases
  <2>5. /\ w \in Voters /\ w.txs = x.txs /\ w.height = x.height
        /\ w.finalisedHeight = x.finalisedHeight /\ w.tx.signers = x.tx.signers
    BY <2>2, <2>4, CorrectGasFacts
  <2>6. Distinct(v)
    BY <1>2, <2>1, AddSigners DEF VoteInv
  <2>7. VoteInv'
    BY <1>1, <1>4, <2>2, <2>4, <2>5, <2>6 DEF VoteInv, Distinct
  <2>8. ASSUME Stable, OneHeight, NEW m \in Nodes
        PROVE  slash'[m] >= InitSlash + Owed(inVoter, m, active)
                            + Owed(w, m, active) + OwedErrata(errataVoter, m, active)
    <3>1. /\ Owed(w, m, active) \in Nat /\ Owed(inVoter, m, active) \in Nat
          /\ Owed(outVoter, m, active) \in Nat /\ OwedErrata(errataVoter, m, active) \in Nat
          /\ InitSlash \in Nat /\ slash[m] \in Nat /\ slash'[m] \in Nat
      BY <1>2, <1>3, OwedType, PointsType
    <3>2. PICK k \in Nat : k = InitSlash + Owed(inVoter, m, active)
                               + OwedErrata(errataVoter, m, active)
      BY <3>1
    <3>3. slash[m] >= InitSlash + Owed(inVoter, m, active)
                      + Owed(outVoter, m, active) + OwedErrata(errataVoter, m, active)
      BY <2>8 DEF SlashInv, Covered
    <3>4. slash[m] >= k + Owed(outVoter, m, active)
      BY <3>1, <3>2, <3>3
    <3>5. slash'[m] >= k + Owed(w, m, active)
      BY <1>2, <2>1, <2>3, <2>4, <2>5, <2>8, <3>4, OwedAttest DEF VoteInv
    <3>6. QED
      BY <3>1, <3>2, <3>5
  <2>9. Stable /\ OneHeight => Covered(slash', inVoter, outVoter', errataVoter, active)
    BY <2>2, <2>8 DEF Covered
  <2>10. QED
    BY <1>1, <1>4, <1>5, <2>7, <2>9 DEF SlashInv
<1>8. QED
  BY <1>1, <1>6, <1>7

\* What the flags of a voter do not change.
LEMMA OwedSame ==
  ASSUME NEW v, NEW w, w.txs = v.txs, w.tx = v.tx, w.height = v.height,
         w.finalisedHeight = v.finalisedHeight, NEW n, NEW A
  PROVE  Owed(w, n, A) = Owed(v, n, A)
BY DEF Owed, SignedFinal, SignedUnfinal

\* What one attestation of an errata costs and gives back: nobody ends up with
\* less than the errata leaves owed.
LEMMA ErrataOwed ==
  ASSUME TypeOK, NEW n \in active, n \in Nodes, NEW e \in ErrataVoters,
         e.signers = errataVoter.signers \cup {n},
         \/ e.blockHeight = errataVoter.blockHeight /\ slash' = Charged(n)
         \/ /\ n \notin errataVoter.signers /\ errataVoter.blockHeight # 0
            /\ e.blockHeight # 0
            /\ \/ slash' = slash
               \/ slash' = DecSlashPoints(slash, LackOfObservationPenalty, {n})
         \/ /\ errataVoter.blockHeight = 0 /\ e.blockHeight # 0
            /\ n \notin errataVoter.signers
            /\ slash' = Settled(Charged(n), e.signers),
         NEW m \in Nodes, NEW k \in Nat,
         slash[m] >= k + OwedErrata(errataVoter, m, active)
  PROVE  slash'[m] >= k + OwedErrata(e, m, active)
<1>1. /\ slash[m] \in Nat /\ ObserveSlashPoints \in Nat
      /\ LackOfObservationPenalty \in Nat
      /\ Charged(n)[m] = slash[m] + (IF m = n THEN ObserveSlashPoints ELSE 0)
  BY SlashAt
<1>2. PICK u1 \in Nat, u2 \in Nat : ErrataParts(errataVoter, m, active, u1, u2)
  BY OwedErrataParts, Zenon
<1>3. PICK e1 \in Nat, e2 \in Nat : ErrataParts(e, m, active, e1, e2)
  BY OwedErrataParts, Zenon
<1>4. slash[m] >= k + u1 + u2
  BY <1>1, <1>2 DEF ErrataParts
<1>5. ASSUME slash'[m] >= k + e1 + e2, slash'[m] \in Nat
      PROVE  slash'[m] >= k + OwedErrata(e, m, active)
  BY <1>3, <1>5 DEF ErrataParts
<1>6. CASE e.blockHeight = errataVoter.blockHeight /\ slash' = Charged(n)
  <2>1. e2 <= u2 /\ e1 <= u1 + (IF m = n THEN ObserveSlashPoints ELSE 0)
    BY <1>1, <1>2, <1>3, <1>6 DEF ErrataParts
  <2>2. QED
    BY <1>1, <1>4, <1>5, <1>6, <2>1
<1>7. CASE /\ n \notin errataVoter.signers /\ errataVoter.blockHeight # 0
           /\ e.blockHeight # 0
           /\ \/ slash' = slash
              \/ slash' = DecSlashPoints(slash, LackOfObservationPenalty, {n})
  <2>1. /\ e1 = 0 /\ (m # n => e2 = u2)
        /\ m = n => e2 = 0 /\ u2 = LackOfObservationPenalty
    BY <1>1, <1>2, <1>3, <1>7 DEF ErrataParts
  <2>2. slash'[m] = slash[m] \/ (/\ m = n
                                 /\ slash'[m] = IF slash[m] < LackOfObservationPenalty THEN 0
                                                ELSE slash[m] - LackOfObservationPenalty)
    BY <1>7 DEF DecSlashPoints
  <2>3. QED
    BY <1>1, <1>4, <1>5, <2>1, <2>2
<1>8. CASE /\ errataVoter.blockHeight = 0 /\ e.blockHeight # 0
           /\ n \notin errataVoter.signers
           /\ slash' = Settled(Charged(n), e.signers)
  <2>1. PICK c \in Nat : /\ c = Charged(n)[m]
                         /\ c = slash[m] + (IF m = n THEN ObserveSlashPoints ELSE 0)
    BY <1>1
  <2>2. slash'[m] = IF m \in e.signers
                    THEN IF c < ObserveSlashPoints THEN 0 ELSE c - ObserveSlashPoints
                    ELSE IF m \in active THEN c + LackOfObservationPenalty ELSE c
    <3>1. PICK d : d = Charged(n)
      OBVIOUS
    <3>2. PICK t : t = Settled(d, e.signers)
      OBVIOUS
    <3>3. t[m] = IF m \in e.signers
                 THEN IF d[m] < ObserveSlashPoints THEN 0 ELSE d[m] - ObserveSlashPoints
                 ELSE IF m \in active THEN d[m] + LackOfObservationPenalty ELSE d[m]
      BY <3>2, SettledAt
    <3>4. QED
      BY <1>8, <2>1, <3>1, <3>2, <3>3
  <2>3. CASE m \in e.signers
    <3>1. e1 = 0 /\ e2 = 0 /\ (m # n => u1 = ObserveSlashPoints)
      BY <1>2, <1>3, <1>8, <2>3 DEF ErrataParts
    <3>2. c >= k + ObserveSlashPoints
      BY <1>1, <1>4, <2>1, <3>1
    <3>3. QED
      BY <1>1, <1>5, <2>1, <2>2, <2>3, <3>1, <3>2
  <2>4. CASE m \notin e.signers
    <3>1. e1 = 0 /\ e2 = IF m \in active THEN LackOfObservationPenalty ELSE 0
      BY <1>3, <1>8, <2>4 DEF ErrataParts
    <3>2. QED
      BY <1>1, <1>4, <1>5, <2>1, <2>2, <2>4, <3>1
  <2>5. QED
    BY <2>3, <2>4
<1>9. QED
  BY <1>6, <1>7, <1>8

\* w is the voter u but for its flags.
FlagsOnly(u, w) == /\ w.txs = u.txs /\ w.tx = u.tx /\ w.height = u.height
                   /\ w.finalisedHeight = u.finalisedHeight

\* The accounting looks at no flag.
LEMMA CoveredFlags ==
  ASSUME NEW s, NEW v, NEW w, NEW x, NEW y, NEW e, NEW A,
         FlagsOnly(v, x), FlagsOnly(w, y)
  PROVE  Covered(s, x, y, e, A) <=> Covered(s, v, w, e, A)
<1>1. \A m \in Nodes : Owed(x, m, A) = Owed(v, m, A) /\ Owed(y, m, A) = Owed(w, m, A)
  BY OwedSame DEF FlagsOnly
<1>2. QED
  BY <1>1 DEF Covered

LEMMA FlagsVote ==
  ASSUME TypeOK, VoteInv, FlagsOnly(inVoter, inVoter'), FlagsOnly(outVoter, outVoter'),
         msg'.todo \subseteq active'
  PROVE  VoteInv'
BY DEF VoteInv, FlagsOnly, Distinct

LEMMA AttestErrataSlash ==
  ASSUME TypeOK, VoteInv, SlashInv, AttestErrata
  PROVE  VoteInv' /\ SlashInv'
<1>1. PICK n \in msg.todo :
        /\ msg.kind = "errata"
        /\ \/ ErrataDuplicate(n) \/ ErrataPending(n) \/ ErrataLate(n)
           \/ ErrataFails(n) \/ ErrataOutboundOnly(n) \/ ErrataTooEarly(n)
           \/ ErrataUnfinal(n) \/ ErrataInternal(n) \/ ErrataFinal(n)
        /\ UNCHANGED <<memo, height, active>>
  BY DEF AttestErrata
<1>2. /\ n \in Nodes /\ n \in active /\ slash \in [Nodes -> Nat] /\ height # 0
      /\ inVoter \in Voters /\ outVoter \in Voters /\ errataVoter \in ErrataVoters
      /\ errataVoter.blockHeight \in Nat
  BY DEF VoteInv, TypeOK, Msgs, ErrataVoters
<1>3. slash' \in [Nodes -> Nat] /\ errataVoter' \in ErrataVoters
  BY AttestErrataType DEF TypeOK
<1>4. (Stable' <=> Stable) /\ (OneHeight' <=> OneHeight)
  BY <1>1, SamePremises
<1>5. FlagsOnly(inVoter, inVoter') /\ FlagsOnly(outVoter, outVoter')
  <2>1. inVoter' = inVoter \/ inVoter' = [inVoter EXCEPT !.reverted = TRUE]
    BY <1>1 DEF ErrataDuplicate, ErrataPending, ErrataLate, ErrataFails,
                ErrataOutboundOnly, ErrataTooEarly, ErrataUnfinal, ErrataInternal,
                ErrataFinal, InReverted
  <2>2. outVoter' = outVoter \/ outVoter' = [outVoter EXCEPT !.reverted = TRUE]
    BY <1>1 DEF ErrataDuplicate, ErrataPending, ErrataLate, ErrataFails,
                ErrataOutboundOnly, ErrataTooEarly, ErrataUnfinal, ErrataInternal,
                ErrataFinal, OutboundErrata
  <2>3. QED
    BY <1>2, <2>1, <2>2 DEF FlagsOnly, Voters
<1>6. CASE ErrataFails(n)
  <2>1. /\ errataVoter.blockHeight = 0 /\ errataVoter' = msg.undo.errataVoter
        /\ slash' = msg.undo.slash /\ msg' = Idle
    BY <1>6 DEF ErrataFails, ErrataCrosses
  <2>2. Stable /\ OneHeight =>
          Covered(slash', inVoter, outVoter, errataVoter', active)
    BY <1>1, <2>1 DEF SlashInv
  <2>3. Stable /\ OneHeight =>
          Covered(slash', inVoter', outVoter', errataVoter', active)
    BY <1>5, <2>2, CoveredFlags
  <2>4. msg'.kind = "none" /\ msg'.todo = {}
    BY <2>1 DEF Idle
  <2>5. QED
    BY <1>1, <1>4, <1>5, <2>3, <2>4, FlagsVote DEF SlashInv
<1>7. CASE ~ErrataFails(n)
  <2>1. \/ ErrataDuplicate(n) \/ ErrataPending(n) \/ ErrataLate(n)
        \/ ErrataCrosses(n) /\ ErrataAgreed(n)
    BY <1>1, <1>7 DEF ErrataOutboundOnly, ErrataTooEarly, ErrataUnfinal, ErrataInternal,
                      ErrataFinal
  <2>2. /\ msg'.todo \subseteq msg.todo /\ msg'.undo = msg.undo /\ msg'.kind = "errata"
    BY <1>1, <2>1, AttestedRest
       DEF ErrataDuplicate, ErrataPending, ErrataLate, ErrataAgreed
  <2>3. VoteInv'
    BY <1>1, <1>5, <2>2, FlagsVote DEF VoteInv
  <2>4. CASE ErrataDuplicate(n)
    <3>1. errataVoter' = errataVoter /\ (slash' = Charged(n) \/ slash' = slash)
      BY <2>4 DEF ErrataDuplicate
    <3>2. \A m \in Nodes : slash'[m] >= slash[m]
      <4> SUFFICES ASSUME NEW m \in Nodes PROVE slash'[m] >= slash[m]
        OBVIOUS
      <4>1. /\ slash[m] \in Nat /\ ObserveSlashPoints \in Nat
            /\ Charged(n)[m] = slash[m] + (IF m = n THEN ObserveSlashPoints ELSE 0)
        BY <1>2, SlashAt
      <4>2. QED
        BY <3>1, <4>1
    <3>3. Stable /\ OneHeight => Covered(slash', inVoter, outVoter, errataVoter, active)
      BY <1>2, <1>3, <3>2, CoveredUp DEF SlashInv
    <3>4. Stable /\ OneHeight => Covered(slash', inVoter', outVoter', errataVoter, active)
      BY <1>5, <3>3, CoveredFlags
    <3>5. ASSUME Stable, OneHeight, errataVoter.blockHeight = 0
          PROVE  Covered(msg.undo.slash, inVoter', outVoter', msg.undo.errataVoter, active)
      BY <1>1, <1>5, <3>5, CoveredFlags DEF SlashInv
    <3>6. QED
      BY <1>1, <1>4, <2>2, <2>3, <3>1, <3>4, <3>5 DEF SlashInv
  <2>5. CASE ErrataPending(n) \/ ErrataLate(n) \/ (ErrataCrosses(n) /\ ErrataAgreed(n))
    <3>1. PICK e \in ErrataVoters : e = errataVoter'
      BY <1>3
    <3>2. /\ ErrataSigned(n).signers = errataVoter.signers \cup {n}
          /\ ErrataSigned(n).blockHeight = errataVoter.blockHeight
          /\ [ErrataSigned(n) EXCEPT !.blockHeight = height].signers
               = errataVoter.signers \cup {n}
          /\ [ErrataSigned(n) EXCEPT !.blockHeight = height].blockHeight = height
      BY <1>2 DEF ErrataSigned, ErrataVoters
    <3>3. /\ e.signers = errataVoter.signers \cup {n}
          /\ \/ e.blockHeight = errataVoter.blockHeight /\ slash' = Charged(n)
             \/ /\ n \notin errataVoter.signers /\ errataVoter.blockHeight # 0
                /\ e.blockHeight # 0
                /\ \/ slash' = slash
                   \/ slash' = DecSlashPoints(slash, LackOfObservationPenalty, {n})
             \/ /\ errataVoter.blockHeight = 0 /\ e.blockHeight # 0
                /\ n \notin errataVoter.signers
                /\ slash' = Settled(Charged(n), e.signers)
      <4>1. CASE ErrataPending(n)
        BY <3>1, <3>2, <4>1 DEF ErrataPending
      <4>2. CASE ErrataLate(n)
        BY <1>2, <3>1, <3>2, <4>2 DEF ErrataLate
      <4>3. CASE ErrataCrosses(n) /\ ErrataAgreed(n)
        BY <1>2, <3>1, <3>2, <4>3 DEF ErrataCrosses, ErrataAgreed
      <4>4. QED
        BY <2>5, <4>1, <4>2, <4>3
    <3>4. ASSUME Stable, OneHeight, NEW m \in Nodes
          PROVE  slash'[m] >= InitSlash + Owed(inVoter, m, active)
                              + Owed(outVoter, m, active) + OwedErrata(e, m, active)
      <4>1. /\ Owed(inVoter, m, active) \in Nat /\ Owed(outVoter, m, active) \in Nat
            /\ OwedErrata(errataVoter, m, active) \in Nat /\ OwedErrata(e, m, active) \in Nat
            /\ InitSlash \in Nat /\ slash[m] \in Nat /\ slash'[m] \in Nat
        BY <1>2, <1>3, OwedType, PointsType
      <4>2. PICK k \in Nat : k = InitSlash + Owed(inVoter, m, active)
                                 + Owed(outVoter, m, active)
        BY <4>1
      <4>3. slash[m] >= InitSlash + Owed(inVoter, m, active)
                        + Owed(outVoter, m, active) + OwedErrata(errataVoter, m, active)
        BY <3>4 DEF SlashInv, Covered
      <4>4. slash[m] >= k + OwedErrata(errataVoter, m, active)
        BY <4>1, <4>2, <4>3
      <4>5. slash'[m] >= k + OwedErrata(e, m, active)
        BY <1>2, <3>3, <4>4, ErrataOwed
      <4>6. QED
        BY <4>1, <4>2, <4>5
    <3>5. Stable /\ OneHeight => Covered(slash', inVoter, outVoter, errataVoter', active)
      BY <3>1, <3>4 DEF Covered
    <3>6. Stable /\ OneHeight => Covered(slash', inVoter', outVoter', errataVoter', active)
      BY <1>5, <3>5, CoveredFlags
    <3>7. errataVoter'.blockHeight = 0 => errataVoter.blockHeight = 0
      BY <3>1, <3>3
    <3>8. ASSUME Stable, OneHeight, errataVoter.blockHeight = 0
          PROVE  Covered(msg.undo.slash, inVoter', outVoter', msg.undo.errataVoter, active)
      BY <1>1, <1>5, <3>8, CoveredFlags DEF SlashInv
    <3>9. QED
      BY <1>1, <1>4, <2>2, <2>3, <3>6, <3>7, <3>8 DEF SlashInv
  <2>6. QED
    BY <2>1, <2>4, <2>5
<1>8. QED
  BY <1>6, <1>7

\* A step between messages, or one that only handles a message.
LEMMA OtherSlash ==
  ASSUME TypeOK, VoteInv, SlashInv,
         UNCHANGED <<memo, errataVoter>>, Stable => UNCHANGED <<active, slash>>,
         FlagsOnly(inVoter, inVoter'), FlagsOnly(outVoter, outVoter'),
         msg'.todo \subseteq active',
         msg'.kind = "errata" => msg'.undo = [errataVoter |-> errataVoter, slash |-> slash]
  PROVE  VoteInv' /\ SlashInv'
<1>1. VoteInv'
  BY FlagsVote
<1>2. (Stable' <=> Stable) /\ (OneHeight' <=> OneHeight)
  BY SamePremises
<1>3. Stable /\ OneHeight => Covered(slash, inVoter', outVoter', errataVoter, active)
  BY CoveredFlags DEF SlashInv
<1>4. msg'.kind = "errata" => msg'.undo.slash = slash /\ msg'.undo.errataVoter = errataVoter
  OBVIOUS
<1>5. QED
  BY <1>1, <1>2, <1>3, <1>4 DEF SlashInv

LEMMA InitSlashInv ==
  ASSUME Init
  PROVE  VoteInv /\ SlashInv
<1>1. /\ inVoter = NewVoter /\ outVoter = NewVoter /\ errataVoter = NewErrataVoter
      /\ msg.todo = {} /\ msg.kind = "none" /\ slash = [n \in Nodes |-> InitSlash]
  BY DEF Init, Idle
<1>2. VoteInv
  BY <1>1 DEF VoteInv, Distinct, NewVoter, NoTx, IsEmpty
<1>3. ASSUME NEW n \in Nodes
      PROVE  /\ Owed(NewVoter, n, active) = 0
             /\ OwedErrata(NewErrataVoter, n, active) = 0
  BY DEF Owed, OwedErrata, SignedFinal, SignedUnfinal, NewVoter, NewErrataVoter
<1>4. Covered(slash, inVoter, outVoter, errataVoter, active)
  BY <1>1, <1>3, PointsType DEF Covered
<1>5. QED
  BY <1>1, <1>2, <1>4 DEF SlashInv

LEMMA NextSlash ==
  ASSUME TypeOK, InboundInv, OutboundInv, VoteInv, SlashInv, [Next]_vars
  PROVE  VoteInv' /\ SlashInv'
<1>1. Idle.kind = "none" /\ Idle.todo = {}
  BY DEF Idle
<1>2. CASE DeliverSingle \/ DeliverQuorum
  <2>1. PICK S, single : DeliverMsg(S, single) /\ S \subseteq active
    BY <1>2 DEF DeliverSingle, DeliverQuorum
  <2>2. PICK k, o, u : /\ Deliver(k, o, S, single, u)
                       /\ k = "errata" => u = [errataVoter |-> errataVoter, slash |-> slash]
    BY <2>1 DEF DeliverMsg
  <2>3. /\ UNCHANGED <<memo, active, inVoter, outVoter, errataVoter, slash>>
        /\ msg'.kind = k /\ msg'.todo = S /\ msg'.undo = u
    BY <2>2 DEF Deliver
  <2>4. QED
    BY <2>1, <2>2, <2>3, OtherSlash DEF FlagsOnly
<1>3. CASE HandleIn
  <2>1. HandleInIgnored \/ HandleInCredited \/ \E r : Dispatch(r)
    BY <1>3 DEF HandleIn, HandleInRefund, HandleInSwap, HandleInAdd
  <2>2. /\ UNCHANGED <<memo, active, outVoter, errataVoter, slash>> /\ msg' = Idle
        /\ CreditVault \/ UNCHANGED inVoter
    BY <2>1 DEF HandleInIgnored, HandleInCredited, Dispatch, ledger
  <2>3. FlagsOnly(inVoter, inVoter') /\ FlagsOnly(outVoter, outVoter')
    BY <2>2 DEF CreditVault, FlagsOnly, TypeOK, Voters
  <2>4. QED
    BY <1>1, <2>2, <2>3, OtherSlash
<1>4. CASE HandleOut \/ ErrataDone
  <2>1. UNCHANGED <<memo, active, inVoter, outVoter, errataVoter, slash>> /\ msg' = Idle
    BY <1>4 DEF HandleOut, HandleOutIgnored, HandleOutCancel, HandleOutUnexpected,
                HandleOutDone, ErrataDone
  <2>2. QED
    BY <1>1, <2>1, OtherSlash DEF FlagsOnly
<1>5. CASE RunSwapQueue \/ NextBlock \/ Churn
  <2>1. UNCHANGED <<memo, inVoter, outVoter, errataVoter, msg>> /\ msg' = Idle
    BY <1>5 DEF RunSwapQueue, NextBlock, Churn
  <2>2. Stable => UNCHANGED <<active, slash>>
    BY <1>5 DEF RunSwapQueue, NextBlock, Churn, Stable, TypeOK
  <2>3. QED
    BY <1>1, <2>1, <2>2, OtherSlash DEF FlagsOnly
<1>6. CASE UNCHANGED vars
  <2>1. UNCHANGED <<memo, active, inVoter, outVoter, errataVoter, slash, msg>>
    BY <1>6 DEF vars
  <2>2. VoteInv'
    BY <2>1, FlagsVote DEF FlagsOnly, VoteInv
  <2>3. SlashInv'
    BY <2>1, SamePremises DEF SlashInv
  <2>4. QED
    BY <2>2, <2>3
<1>7. QED
  BY <1>2, <1>3, <1>4, <1>5, <1>6, AttestInSlash, AttestOutSlash, AttestErrataSlash
     DEF Next

\* No sequence of votes, duplicates, late votes, settlements and errata (also
\* of one that fails and restores the points) leaves a node with fewer slash
\* points than it started with, for any number of nodes.
THEOREM NobodyIsRewarded == Spec => []NoNetReward
<1>1. Init => VoteInv /\ SlashInv
  BY InitSlashInv
<1>2. /\ TypeOK /\ InboundInv /\ OutboundInv /\ VoteInv /\ SlashInv /\ [Next]_vars
      => VoteInv' /\ SlashInv'
  BY NextSlash
<1>3. TypeOK /\ SlashInv => NoNetReward
  <2> SUFFICES ASSUME TypeOK, SlashInv, Stable, OneHeight, NEW n \in Nodes
               PROVE  slash[n] >= InitSlash
    BY DEF NoNetReward
  <2>1. slash[n] >= InitSlash + Owed(inVoter, n, active) + Owed(outVoter, n, active)
                    + OwedErrata(errataVoter, n, active)
    BY DEF SlashInv, Covered
  <2>2. /\ Owed(inVoter, n, active) \in Nat /\ Owed(outVoter, n, active) \in Nat
        /\ OwedErrata(errataVoter, n, active) \in Nat
        /\ InitSlash \in Nat /\ slash[n] \in Nat
    BY OwedType, PointsType DEF TypeOK
  <2>3. QED
    BY <2>1, <2>2
<1>4. QED
  BY <1>1, <1>2, <1>3, InboundInvariant, OutboundInvariant, PTL DEF Spec

=============================================================================
