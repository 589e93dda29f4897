---------------------------- MODULE GossipProofs ----------------------------
(***************************************************************************)
(* Proofs about Gossip, for any validators, observers, proposers and       *)
(* faults: its types, that a node keeps a transaction on its deck until    *)
(* the chain has its own attestation, and that a super majority is handed  *)
(* over.  What makes the second inductive is that notifications speak of   *)
(* committed attestations only.                                            *)
(***************************************************************************)
EXTENDS Gossip, FiniteSetTheorems, TLAPS

(* What is notified is committed. *)
NotifiedIsCommitted == \A e \in events : e.att \in committed

IInv == TypeOK /\ NotifiedIsCommitted /\ KeptUntilCommitted

-----------------------------------------------------------------------------
(* The operators on attestation states keep their type.                    *)

LEMMA StateType ==
  ASSUME NEW s \in AttestationState, NEW a \in Observers
  PROVE  /\ NoState \in AttestationState
         /\ MarkAttestationsSent(s) \in AttestationState
         /\ AddAttestation(s, a) \in AttestationState
         /\ MarkAttestationsCommitted(s, a) \in AttestationState
         /\ UnsentAttestations(s) \subseteq Observers
         /\ AttestationsCopy(s) \subseteq Observers
  BY DEF AttestationState, NoState, MarkAttestationsSent, AddAttestation,
         MarkAttestationsCommitted, UnsentAttestations, AttestationsCopy

LEMMA NoStateType == NoState \in AttestationState
  BY DEF AttestationState, NoState

LEMMA HeldType ==
  ASSUME NEW S \in SUBSET Observers
  PROVE  [NoState EXCEPT !.held = S] \in AttestationState
  BY DEF AttestationState, NoState

(* Handing over and handling an attestation touch a state and a cache. *)
LEMMA HandOverType ==
  ASSUME TypeOK, NEW n \in Nodes, NEW s \in AttestationState, HandOver(n, s)
  PROVE  state' \in [Nodes -> AttestationState] /\ cache' \in [Proposers -> SUBSET Observers]
  <1>1. MarkAttestationsSent(s) \in AttestationState
    BY DEF AttestationState, MarkAttestationsSent
  <1>2. UnsentAttestations(s) \subseteq Observers
    BY DEF AttestationState, UnsentAttestations
  <1>3. state' \in [Nodes -> AttestationState]
    BY <1>1 DEF HandOver, TypeOK
  <1>4. \A p \in Proposers :
          (IF p = n THEN cache[p] \cup (UnsentAttestations(s) \ recent) ELSE cache[p])
            \in SUBSET Observers
    BY <1>2 DEF TypeOK
  <1>5. cache' \in [Proposers -> SUBSET Observers]
    BY <1>4 DEF HandOver
  <1> QED BY <1>3, <1>5

LEMMA FaultType ==
  ASSUME TypeOK, NEW n, Fault(n)
  PROVE  faults' \in 0 .. MaxFaults
  BY GossipAssumption DEF TypeOK, Fault

LEMMA SendType ==
  ASSUME TypeOK, NEW n \in Nodes, NEW s \in AttestationState, NEW ok \in BOOLEAN,
         SendToThornode(n, s, ok)
  PROVE  /\ state' \in [Nodes -> AttestationState]
         /\ cache' \in [Proposers -> SUBSET Observers]
         /\ faults' \in 0 .. MaxFaults
  <1>1. CASE HandOver(n, s) /\ UNCHANGED faults
    <2>1. state' \in [Nodes -> AttestationState] /\ cache' \in [Proposers -> SUBSET Observers]
      BY <1>1, HandOverType
    <2> QED BY <1>1, <2>1 DEF TypeOK
  <1>2. CASE Fault(n) /\ state' = [state EXCEPT ![n] = s] /\ UNCHANGED cache
    <2>1. faults' \in 0 .. MaxFaults
      BY <1>2, FaultType
    <2> QED BY <1>2, <2>1 DEF TypeOK
  <1> QED BY <1>1, <1>2 DEF SendToThornode

LEMMA HandleType ==
  ASSUME TypeOK, NEW n \in Nodes, NEW a \in Observers, NEW ok \in BOOLEAN,
         HandleAttestation(n, a, ok)
  PROVE  /\ state' \in [Nodes -> AttestationState]
         /\ cache' \in [Proposers -> SUBSET Observers]
         /\ faults' \in 0 .. MaxFaults
  <1> DEFINE s == AddAttestation(state[n], a)
  <1>1. s \in AttestationState
    BY StateType DEF TypeOK
  <1> HIDE DEF s
  <1>2. CASE SendToThornode(n, s, ok)
    BY <1>1, <1>2, SendType
  <1>3. CASE state' = [state EXCEPT ![n] = s] /\ UNCHANGED <<cache, faults>>
    BY <1>1, <1>3 DEF TypeOK
  <1> QED BY <1>2, <1>3 DEF HandleAttestation, s

-----------------------------------------------------------------------------
LEMMA Initially == Init => IInv
  BY NoStateType, GossipAssumption
     DEF Init, IInv, TypeOK, NotifiedIsCommitted, KeptUntilCommitted

(* A step that leaves the deck, the chain and the notifications alone, or  *)
(* only drops some of the latter.                                          *)
LEMMA Untouched ==
  ASSUME NotifiedIsCommitted, KeptUntilCommitted,
         UNCHANGED <<observed, deck, errata, committed>>, events' \subseteq events
  PROVE  NotifiedIsCommitted' /\ KeptUntilCommitted'
  BY DEF NotifiedIsCommitted, KeptUntilCommitted

LEMMA ObserveInv ==
  ASSUME IInv, NEW n \in Nodes, Observe(n)
  PROVE  IInv'
  BY DEF IInv, TypeOK, NotifiedIsCommitted, KeptUntilCommitted, Observe, chainVars

LEMMA AttestInv ==
  ASSUME IInv, NEW n \in Nodes, NEW ok \in BOOLEAN, AttestObservedTx(n, ok)
  PROVE  IInv'
  <1>1. TypeOK /\ n \in Observers
    BY DEF IInv, TypeOK, AttestObservedTx
  <1>2. /\ state' \in [Nodes -> AttestationState]
        /\ cache' \in [Proposers -> SUBSET Observers]
        /\ faults' \in 0 .. MaxFaults
    BY <1>1, HandleType DEF AttestObservedTx
  <1>3. msgs' \subseteq Message
    BY <1>1 DEF TypeOK, AttestObservedTx, ToAll, Message
  <1>4. NotifiedIsCommitted' /\ KeptUntilCommitted'
    BY Untouched DEF IInv, AttestObservedTx, deckVars, chainVars
  <1> QED BY <1>1, <1>2, <1>3, <1>4 DEF IInv, TypeOK, AttestObservedTx, deckVars, chainVars

LEMMA HandleStreamInv ==
  ASSUME IInv, NEW m \in msgs, NEW ok \in BOOLEAN, HandleStream(m, ok)
  PROVE  IInv'
  <1>1. TypeOK /\ m.to \in Nodes /\ m.att \in Observers
    BY DEF IInv, TypeOK, Message
  <1>2. /\ state' \in [Nodes -> AttestationState]
        /\ cache' \in [Proposers -> SUBSET Observers]
        /\ faults' \in 0 .. MaxFaults
    BY <1>1, HandleType DEF HandleStream
  <1>3. NotifiedIsCommitted' /\ KeptUntilCommitted'
    BY Untouched DEF IInv, HandleStream, deckVars, chainVars
  <1> QED BY <1>1, <1>2, <1>3 DEF IInv, TypeOK, HandleStream, deckVars, chainVars

LEMMA LoseInv ==
  ASSUME IInv, NEW m \in msgs, Lose(m)
  PROVE  IInv'
  <1>1. faults' \in 0 .. MaxFaults
    BY FaultType DEF IInv, Lose
  <1>2. NotifiedIsCommitted' /\ KeptUntilCommitted'
    BY Untouched DEF IInv, Lose, deckVars, chainVars
  <1> QED BY <1>1, <1>2 DEF IInv, TypeOK, Lose, deckVars, chainVars

LEMMA AttestErrataInv ==
  ASSUME IInv, NEW n \in Nodes, AttestErrata(n)
  PROVE  IInv'
  <1>1. faults' \in 0 .. MaxFaults
    BY FaultType DEF IInv, AttestErrata
  <1>2. TypeOK'
    BY <1>1, NoStateType DEF IInv, TypeOK, AttestErrata, chainVars
  <1>3. NotifiedIsCommitted' /\ KeptUntilCommitted'
    BY DEF IInv, NotifiedIsCommitted, KeptUntilCommitted, AttestErrata, chainVars
  <1> QED BY <1>2, <1>3 DEF IInv

LEMMA TickInv ==
  ASSUME IInv, NEW n \in Nodes, NEW ok \in BOOLEAN, Tick(n, ok)
  PROVE  IInv'
  <1>1. CASE Prune(n)
    <2>1. NotifiedIsCommitted' /\ KeptUntilCommitted'
      BY <1>1, Untouched DEF IInv, Prune, deckVars, chainVars
    <2> QED BY <1>1, <2>1, NoStateType DEF IInv, TypeOK, Prune, deckVars, chainVars
  <1>2. CASE SendLate(n, ok)
    <2>1. state[n] \in AttestationState /\ TypeOK
      BY DEF IInv, TypeOK
    <2>2. /\ state' \in [Nodes -> AttestationState]
          /\ cache' \in [Proposers -> SUBSET Observers]
          /\ faults' \in 0 .. MaxFaults
      BY <1>2, <2>1, SendType DEF SendLate
    <2>3. NotifiedIsCommitted' /\ KeptUntilCommitted'
      BY <1>2, Untouched DEF IInv, SendLate, deckVars, chainVars
    <2> QED BY <1>2, <2>1, <2>2, <2>3 DEF IInv, TypeOK, SendLate, deckVars, chainVars
  <1> QED BY <1>1, <1>2 DEF Tick

LEMMA RestartInv ==
  ASSUME IInv, NEW n \in Nodes, NEW peers \in SUBSET (Nodes \ {n}), Restart(n, peers)
  PROVE  IInv'
  <1> DEFINE S == UNION {AttestationsCopy(state[m]) : m \in peers}
             s == [NoState EXCEPT !.held = S]
  <1>1. TypeOK /\ faults' \in 0 .. MaxFaults
    BY FaultType DEF IInv, Restart
  <1>2. \A m \in peers : AttestationsCopy(state[m]) \subseteq Observers
    BY <1>1 DEF TypeOK, AttestationState, AttestationsCopy
  <1>3. S \in SUBSET Observers
    BY <1>2
  <1>4. s \in AttestationState
    BY <1>3, HeldType
  <1>5. HandOver(n, s) \/ (state' = [state EXCEPT ![n] = s] /\ UNCHANGED cache)
    BY DEF Restart
  <1> HIDE DEF s
  <1>6. state' \in [Nodes -> AttestationState] /\ cache' \in [Proposers -> SUBSET Observers]
    <2>1. CASE HandOver(n, s)
      BY <1>1, <1>4, <2>1, HandOverType
    <2>2. CASE state' = [state EXCEPT ![n] = s] /\ UNCHANGED cache
      BY <1>1, <1>4, <2>2 DEF TypeOK
    <2> QED BY <1>5, <2>1, <2>2
  <1>7. NotifiedIsCommitted' /\ KeptUntilCommitted'
    BY Untouched DEF IInv, Restart, deckVars, chainVars
  <1> QED BY <1>1, <1>6, <1>7 DEF IInv, TypeOK, Restart, deckVars, chainVars

LEMMA CommitInv ==
  ASSUME IInv, NEW p \in Proposers, Commit(p)
  PROVE  IInv'
  <1>1. cache[p] \subseteq Observers
    BY DEF IInv, TypeOK
  <1>2. cache' \in [Proposers -> SUBSET Observers]
    BY DEF IInv, TypeOK, Commit
  <1>3. events' \subseteq Message
    BY <1>1 DEF IInv, TypeOK, Commit, ToAll, Message
  <1>4. TypeOK'
    BY <1>1, <1>2, <1>3 DEF IInv, TypeOK, Commit, deckVars
  <1>5. NotifiedIsCommitted'
    BY DEF IInv, NotifiedIsCommitted, Commit, ToAll
  <1>6. KeptUntilCommitted'
    BY DEF IInv, KeptUntilCommitted, Commit, deckVars
  <1> QED BY <1>4, <1>5, <1>6 DEF IInv

LEMMA ForgetInv ==
  ASSUME IInv, Forget
  PROVE  IInv'
  <1>1. NotifiedIsCommitted' /\ KeptUntilCommitted'
    BY Untouched DEF IInv, Forget, deckVars
  <1> QED BY <1>1 DEF IInv, TypeOK, Forget, deckVars

LEMMA LoseCacheInv ==
  ASSUME IInv, NEW p \in Proposers, LoseCache(p)
  PROVE  IInv'
  <1>1. faults' \in 0 .. MaxFaults
    BY FaultType DEF IInv, LoseCache
  <1>2. NotifiedIsCommitted' /\ KeptUntilCommitted'
    BY Untouched DEF IInv, LoseCache, deckVars, chainVars
  <1> QED BY <1>1, <1>2 DEF IInv, TypeOK, LoseCache, deckVars, chainVars

LEMMA CommittedEventInv ==
  ASSUME IInv, NEW e \in events, HandleQuorumTxCommitted(e)
  PROVE  IInv'
  <1>1. e.to \in Nodes /\ e.att \in Observers /\ e.att \in committed
    BY DEF IInv, TypeOK, Message, NotifiedIsCommitted
  <1>2. MarkAttestationsCommitted(state[e.to], e.att) \in AttestationState
    BY <1>1, StateType DEF IInv, TypeOK
  <1>3. state' \in [Nodes -> AttestationState]
    BY <1>1, <1>2 DEF IInv, TypeOK, HandleQuorumTxCommitted
  <1>4. TypeOK'
    BY <1>3 DEF IInv, TypeOK, HandleQuorumTxCommitted, RemovedFromDeck, chainVars
  <1>5. NotifiedIsCommitted'
    BY DEF IInv, NotifiedIsCommitted, HandleQuorumTxCommitted, chainVars
  <1>6. KeptUntilCommitted'
    BY <1>1 DEF IInv, KeptUntilCommitted, HandleQuorumTxCommitted, RemovedFromDeck, chainVars
  <1> QED BY <1>4, <1>5, <1>6 DEF IInv

LEMMA LoseEventInv ==
  ASSUME IInv, NEW e \in events, LoseEvent(e)
  PROVE  IInv'
  <1>1. faults' \in 0 .. MaxFaults
    BY FaultType DEF IInv, LoseEvent
  <1>2. NotifiedIsCommitted' /\ KeptUntilCommitted'
    BY Untouched DEF IInv, LoseEvent, deckVars, chainVars
  <1> QED BY <1>1, <1>2 DEF IInv, TypeOK, LoseEvent, deckVars, chainVars

-----------------------------------------------------------------------------
LEMMA Inductive == IInv /\ [Next]_vars => IInv'
  <1> SUFFICES ASSUME IInv, [Next]_vars PROVE IInv'
    OBVIOUS
  <1>1. ASSUME NEW n \in Nodes, Observe(n) PROVE IInv'
    BY <1>1, ObserveInv
  <1>2. ASSUME NEW n \in Nodes, AttestErrata(n) PROVE IInv'
    BY <1>2, AttestErrataInv
  <1>3. ASSUME NEW n \in Nodes, NEW peers \in SUBSET (Nodes \ {n}), Restart(n, peers) PROVE IInv'
    BY <1>3, RestartInv
  <1>4. ASSUME NEW n \in Nodes, NEW ok \in BOOLEAN, AttestObservedTx(n, ok) PROVE IInv'
    BY <1>4, AttestInv
  <1>5. ASSUME NEW n \in Nodes, NEW ok \in BOOLEAN, Tick(n, ok) PROVE IInv'
    BY <1>5, TickInv
  <1>6. ASSUME NEW m \in msgs, Lose(m) PROVE IInv'
    BY <1>6, LoseInv
  <1>7. ASSUME NEW m \in msgs, NEW ok \in BOOLEAN, HandleStream(m, ok) PROVE IInv'
    BY <1>7, HandleStreamInv
  <1>8. ASSUME NEW e \in events, HandleQuorumTxCommitted(e) PROVE IInv'
    BY <1>8, CommittedEventInv
  <1>9. ASSUME NEW e \in events, LoseEvent(e) PROVE IInv'
    BY <1>9, LoseEventInv
  <1>10. ASSUME NEW p \in Proposers, Commit(p) PROVE IInv'
    BY <1>10, CommitInv
  <1>11. ASSUME NEW p \in Proposers, LoseCache(p) PROVE IInv'
    BY <1>11, LoseCacheInv
  <1>12. CASE Forget
    BY <1>12, ForgetInv
  <1>13. CASE UNCHANGED vars
    BY <1>13 DEF IInv, TypeOK, NotifiedIsCommitted, KeptUntilCommitted, vars, deckVars, chainVars
  <1> QED
    BY <1>1, <1>2, <1>3, <1>4, <1>5, <1>6, <1>7, <1>8, <1>9, <1>10, <1>11, <1>12, <1>13 DEF Next

\* The variables of the gossip keep their types: what a node holds, has handed
\* over and knows to be committed are attestations of observers, and the latter
\* two are among the first.
THEOREM GossipTypes == Spec => []TypeOK
  <1>1. IInv => TypeOK
    BY DEF IInv
  <1> QED BY Initially, Inductive, <1>1, PTL DEF Spec

\* A node takes a transaction off its deck only when the chain has the node's
\* own attestation, or the transaction itself is gone: through lost batches,
\* failed calls, restarts and blocks that commit what others attested.
THEOREM ObservationsAreKept == Spec => []KeptUntilCommitted
  <1>1. IInv => KeptUntilCommitted
    BY DEF IInv
  <1> QED BY Initially, Inductive, <1>1, PTL DEF Spec

-----------------------------------------------------------------------------
(* Super majorities do not wait                                            *)

LEMMA NoQuorumYet == ~ HasQuorum(NoState)
  BY FS_EmptySet DEF HasQuorum, NoState, V!HasSuperMajority

(* As long as nothing failed, a step that gives one node a state without a *)
(* super majority, or with all handed over, keeps QuorumHandedOver.        *)
LEMMA OneStateChanged ==
  ASSUME TypeOK, QuorumHandedOver, NEW n \in Nodes, NEW s,
         faults' = 0 => faults = 0,
         state' = [state EXCEPT ![n] = s],
         faults' = 0 /\ HasQuorum(s) => UnsentAttestations(s) = {}
  PROVE  QuorumHandedOver'
  BY DEF TypeOK, QuorumHandedOver, HasQuorum, UnsentAttestations

LEMMA FaultCounted ==
  ASSUME TypeOK, NEW n, Fault(n)
  PROVE  faults' # 0
  BY GossipAssumption DEF TypeOK, Fault

LEMMA FaultKeepsQuorum ==
  ASSUME faults' # 0
  PROVE  QuorumHandedOver'
  BY DEF QuorumHandedOver

(* A state with all of its attestations handed over. *)
LEMMA MarkedIsSent ==
  ASSUME NEW s \in AttestationState
  PROVE  UnsentAttestations(MarkAttestationsSent(s)) = {}
  BY DEF UnsentAttestations, MarkAttestationsSent, AttestationState

LEMMA SendKeepsQuorum ==
  ASSUME TypeOK, QuorumHandedOver, NEW n \in Nodes, NEW s \in AttestationState,
         NEW ok \in BOOLEAN, SendToThornode(n, s, ok)
  PROVE  QuorumHandedOver'
  <1>1. CASE HandOver(n, s) /\ UNCHANGED faults
    <2>1. state' = [state EXCEPT ![n] = MarkAttestationsSent(s)]
      BY <1>1 DEF HandOver
    <2> QED BY <1>1, <2>1, MarkedIsSent, OneStateChanged
  <1>2. CASE Fault(n)
    BY <1>2, FaultCounted, FaultKeepsQuorum
  <1> QED BY <1>1, <1>2 DEF SendToThornode

LEMMA HandleKeepsQuorum ==
  ASSUME TypeOK, QuorumHandedOver, NEW n \in Nodes, NEW a \in Observers,
         NEW ok \in BOOLEAN, HandleAttestation(n, a, ok)
  PROVE  QuorumHandedOver'
  <1> DEFINE s == AddAttestation(state[n], a)
  <1>1. s \in AttestationState
    BY StateType DEF TypeOK
  <1> HIDE DEF s
  <1>2. CASE SendToThornode(n, s, ok)
    BY <1>1, <1>2, SendKeepsQuorum
  <1>3. CASE /\ ~ (HasQuorum(s) /\ UnsentAttestations(s) # {})
             /\ state' = [state EXCEPT ![n] = s]
             /\ UNCHANGED faults
    BY <1>3, OneStateChanged
  <1> QED BY <1>2, <1>3 DEF HandleAttestation, s

LEMMA QuorumInductive ==
  ASSUME IInv, QuorumHandedOver, [Next]_vars
  PROVE  QuorumHandedOver'
  <1> TypeOK
    BY DEF IInv
  <1>1. ASSUME UNCHANGED <<state, faults>> PROVE QuorumHandedOver'
    BY <1>1 DEF QuorumHandedOver, HasQuorum, UnsentAttestations
  <1>2. ASSUME NEW n, Fault(n) PROVE QuorumHandedOver'
    BY <1>2, FaultCounted, FaultKeepsQuorum
  <1>3. ASSUME NEW n \in Nodes, NEW ok \in BOOLEAN, AttestObservedTx(n, ok)
        PROVE  QuorumHandedOver'
    <2>1. n \in Observers
      BY <1>3 DEF TypeOK, AttestObservedTx
    <2> QED BY <1>3, <2>1, HandleKeepsQuorum DEF AttestObservedTx
  <1>4. ASSUME NEW n \in Nodes, NEW ok \in BOOLEAN, Tick(n, ok) PROVE QuorumHandedOver'
    <2>1. CASE Prune(n)
      BY <2>1, NoQuorumYet, OneStateChanged DEF Prune
    <2>2. CASE SendLate(n, ok)
      <3>1. state[n] \in AttestationState
        BY DEF TypeOK
      <3> QED BY <2>2, <3>1, SendKeepsQuorum DEF SendLate
    <2> QED BY <1>4, <2>1, <2>2 DEF Tick
  <1>5. ASSUME NEW m \in msgs, NEW ok \in BOOLEAN, HandleStream(m, ok) PROVE QuorumHandedOver'
    <2>1. m.to \in Nodes /\ m.att \in Observers
      BY DEF TypeOK, Message
    <2> QED BY <1>5, <2>1, HandleKeepsQuorum DEF HandleStream
  <1>6. ASSUME NEW e \in events, HandleQuorumTxCommitted(e) PROVE QuorumHandedOver'
    <2> DEFINE s == MarkAttestationsCommitted(state[e.to], e.att)
    <2>1. e.to \in Nodes
      BY DEF TypeOK, Message
    <2>2. s.held = state[e.to].held /\ s.sent = state[e.to].sent
      BY <2>1 DEF TypeOK, AttestationState, MarkAttestationsCommitted
    <2>3. state' = [state EXCEPT ![e.to] = s] /\ faults' = faults
      BY <1>6 DEF HandleQuorumTxCommitted
    <2>4. faults' = 0 /\ HasQuorum(s) => UnsentAttestations(s) = {}
      BY <2>1, <2>2, <2>3 DEF QuorumHandedOver, HasQuorum, UnsentAttestations
    <2> HIDE DEF s
    <2> QED BY <2>1, <2>3, <2>4, OneStateChanged
  <1>7. CASE UNCHANGED vars
    BY <1>1, <1>7 DEF vars
  <1>8. ASSUME NEW n \in Nodes, Observe(n) PROVE QuorumHandedOver'
    BY <1>1, <1>8 DEF Observe
  <1>9. ASSUME NEW p \in Proposers, Commit(p) PROVE QuorumHandedOver'
    BY <1>1, <1>9 DEF Commit
  <1>10. CASE Forget
    BY <1>1, <1>10 DEF Forget
  <1>11. ASSUME NEW n \in Nodes, AttestErrata(n) PROVE QuorumHandedOver'
    BY <1>2, <1>11 DEF AttestErrata
  <1>12. ASSUME NEW n \in Nodes, NEW peers \in SUBSET (Nodes \ {n}), Restart(n, peers)
         PROVE  QuorumHandedOver'
    BY <1>2, <1>12 DEF Restart
  <1>13. ASSUME NEW m \in msgs, Lose(m) PROVE QuorumHandedOver'
    BY <1>2, <1>13 DEF Lose
  <1>14. ASSUME NEW e \in events, LoseEvent(e) PROVE QuorumHandedOver'
    BY <1>2, <1>14 DEF LoseEvent
  <1>15. ASSUME NEW p \in Proposers, LoseCache(p) PROVE QuorumHandedOver'
    BY <1>2, <1>15 DEF LoseCache
  <1> QED
    BY <1>3, <1>4, <1>5, <1>6, <1>7, <1>8, <1>9, <1>10, <1>11, <1>12, <1>13, <1>14, <1>15
       DEF Next

\* As long as no call failed, a node that holds the attestations of a super
\* majority has handed all it holds to its thornode, whichever way the last of
\* them came.
THEOREM SuperMajorityIsHandedOver == Spec => []QuorumHandedOver
  <1>1. Init => QuorumHandedOver
    BY NoQuorumYet DEF Init, QuorumHandedOver
  <1>2. IInv /\ QuorumHandedOver /\ [Next]_vars => QuorumHandedOver'
    BY QuorumInductive
  <1> QED BY Initially, Inductive, <1>1, <1>2, PTL DEF Spec

=============================================================================
