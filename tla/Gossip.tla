------------------------------- MODULE Gossip -------------------------------
(***************************************************************************)
(* The attestation gossip of the bifrosts (bifrost/observer) for one final *)
(* transaction, from the deck of each node to the chain and back: a node   *)
(* attests what is on its deck, keeps the attestations it has heard of,    *)
(* sends its own to its peers, and hands attestations to its thornode,     *)
(* at once when there is a super majority and late otherwise.  What a      *)
(* block commits is reported to every bifrost, which marks it and takes    *)
(* its own transaction off the deck.                                       *)
(*                                                                         *)
(* An attestation is named after the node that signed it.  Messages carry  *)
(* one: the attestations of a batch, and of a notification, are handled    *)
(* one by one and each on its own.  Clocks are left out: what a timeout    *)
(* allows may happen at any time.  The timestamps of an AttestationState   *)
(* then tell no more than its attestations do: lastAttestationsSent is set *)
(* iff one is sent, and quorumAttestationsSent only if                     *)
(* lastAttestationsSent is.  The cache of thornode is a set of             *)
(* attestations here; InjectCache has its detail.                          *)
(***************************************************************************)
EXTENDS Naturals, FiniteSets

CONSTANTS
  Nodes,          \* the active validators
  Observers,      \* the nodes whose chain client reports the transaction
  Proposers,      \* the nodes whose turn to propose a block comes
  Faulty,         \* the nodes at which something may fail
  MaxFaults       \* bound on failed calls, losses, restarts and errata together

ASSUME GossipAssumption ==
  /\ IsFiniteSet(Nodes) /\ Observers \subseteq Nodes /\ Proposers \subseteq Nodes
  /\ Faulty \subseteq Nodes /\ MaxFaults \in Nat

VARIABLES
  observed,       \* the nodes that have observed the transaction
  deck,           \* the nodes that have it on their deck
  errata,         \* the nodes that have found it gone
  state,          \* observedTxs of every node
  msgs,           \* attestations in batches under way
  cache,          \* quorumTxCache of every proposer's thornode
  recent,         \* attestations of the recent blocks
  committed,      \* attestations of all blocks
  events,         \* attestations in EventQuorumTxCommitted notifications
  faults          \* faults so far

deckVars == <<observed, deck, errata>>
chainVars == <<recent, committed>>
vars == <<deckVars, state, msgs, cache, chainVars, events, faults>>

V == INSTANCE ObservedTxVoter

Message == [to : Nodes, att : Observers]

ToAll(nodes, atts) == [to : nodes, att : atts]

AttestationState ==
  {s \in [held : SUBSET Observers, sent : SUBSET Observers, committed : SUBSET Observers] :
     s.sent \cup s.committed \subseteq s.held}

\* No entry of observedTxs, or NewAttestationState before its first attestation.
NoState == [held |-> {}, sent |-> {}, committed |-> {}]

Init ==
  /\ observed = {}
  /\ deck = {}
  /\ errata = {}
  /\ state = [n \in Nodes |-> NoState]
  /\ msgs = {}
  /\ cache = [p \in Proposers |-> {}]
  /\ recent = {}
  /\ committed = {}
  /\ events = {}
  /\ faults = 0

Fault(n) ==
  /\ n \in Faulty
  /\ faults < MaxFaults
  /\ faults' = faults + 1

-----------------------------------------------------------------------------
(* Attestations and thornode                                               *)

UnsentAttestations(s) == s.held \ s.sent

MarkAttestationsSent(s) == [s EXCEPT !.sent = s.held]

AddAttestation(s, a) == [s EXCEPT !.held = @ \cup {a}]

HasQuorum(s) == V!HasSuperMajority(Cardinality(s.held), Cardinality(Nodes))

\* sendObservedTxAttestationsToThornode: thornode takes what no recent block has.
HandOver(n, s) ==
  /\ state' = [state EXCEPT ![n] = MarkAttestationsSent(s)]
  /\ cache' = [p \in Proposers |->
                 IF p = n THEN cache[p] \cup (UnsentAttestations(s) \ recent) ELSE cache[p]]

\* If the call fails nothing is marked.
SendToThornode(n, s, ok) ==
  \/ ok /\ HandOver(n, s) /\ UNCHANGED faults
  \/ ~ ok /\ Fault(n) /\ state' = [state EXCEPT ![n] = s] /\ UNCHANGED cache

\* mutant: the attestations are counted before the new one is added
HandleAttestationCountedBefore(n, a, ok) ==
  LET s == AddAttestation(state[n], a)
  IN  IF HasQuorum(state[n]) /\ UnsentAttestations(s) # {}
      THEN SendToThornode(n, s, ok)
      ELSE /\ ok
           /\ state' = [state EXCEPT ![n] = s]
           /\ UNCHANGED <<cache, faults>>

\* handleObservedTxAttestation: a further attestation is sent too once there
\* is a super majority.
HandleAttestation(n, a, ok) ==
  LET s == AddAttestation(state[n], a)
  IN  IF HasQuorum(s) /\ UnsentAttestations(s) # {}
      THEN SendToThornode(n, s, ok)
      ELSE /\ ok
           /\ state' = [state EXCEPT ![n] = s]
           /\ UNCHANGED <<cache, faults>>

-----------------------------------------------------------------------------
(* The deck and the batcher                                                *)

\* The chain client of n reports the transaction.
Observe(n) ==
  /\ n \in Observers \ observed
  /\ observed' = observed \cup {n}
  /\ deck' = deck \cup {n}
  /\ UNCHANGED <<errata, state, msgs, cache, chainVars, events, faults>>

\* sendDeck and AttestObservedTx: what is on the deck is attested again and
\* again.  It waits in the batch of sendBatches before it is sent to the other
\* active validators, which here is part of its way.
AttestObservedTx(n, ok) ==
  /\ n \in deck
  /\ HandleAttestation(n, n, ok)
  /\ msgs' = msgs \cup ToAll(Nodes \ {n}, {n})
  /\ UNCHANGED <<deckVars, chainVars, events>>

\* handleStreamBatchedAttestations.
HandleStream(m, ok) ==
  /\ m \in msgs
  /\ HandleAttestation(m.to, m.att, ok)
  /\ msgs' = msgs \ {m}
  /\ UNCHANGED <<deckVars, chainVars, events>>

\* A batch is not sent again when the peer cannot be reached, or is busy.
Lose(m) ==
  /\ Fault(m.to)
  /\ msgs' = msgs \ {m}
  /\ UNCHANGED <<deckVars, state, cache, chainVars, events>>

\* AttestErrata, after filterErrataTx has taken the transaction off the deck.
AttestErrata(n) ==
  /\ Fault(n)
  /\ n \in observed \ errata
  /\ errata' = errata \cup {n}
  /\ deck' = deck \ {n}
  /\ state' = [state EXCEPT ![n] = NoState]
  /\ UNCHANGED <<observed, msgs, cache, chainVars, events>>

-----------------------------------------------------------------------------
(* The ticker of Start                                                     *)

\* Nothing was sent for long, or all is committed, or the super majority was
\* sent long ago.
ExpiredAfterQuorum(s) ==
  \/ s.sent # {}
  \/ s.held # {} /\ s.held = s.committed

\* mutant: late attestations are only those after the first sent
ShouldSendLateAgain(s) == s.sent # {} /\ UnsentAttestations(s) # {}

ShouldSendLate(s) == UnsentAttestations(s) # {}

Prune(n) ==
  /\ ExpiredAfterQuorum(state[n])
  /\ state' = [state EXCEPT ![n] = NoState]
  /\ UNCHANGED <<deckVars, msgs, cache, chainVars, events, faults>>

SendLate(n, ok) ==
  /\ ShouldSendLate(state[n])
  /\ SendToThornode(n, state[n], ok)
  /\ UNCHANGED <<deckVars, msgs, chainVars, events>>

Tick(n, ok) == Prune(n) \/ SendLate(n, ok)

-----------------------------------------------------------------------------
(* Restarts                                                                *)

\* AttestationsCopy skips what is committed.
AttestationsCopy(s) == s.held \ s.committed

\* Only the deck's storage outlives a restart, and notifications that come
\* before the node subscribes again are lost.  Before it sends its deck the node
\* asks some peers for what they hold and handles what they answer
\* (askForAttestationState, sendAttestationState, receiveBatchedAttestationState,
\* processAttestationStateBatch).
Restart(n, peers) ==
  /\ Fault(n)
  /\ LET s == [NoState EXCEPT !.held = UNION {AttestationsCopy(state[m]) : m \in peers}]
     IN  IF HasQuorum(s) THEN HandOver(n, s)
         ELSE state' = [state EXCEPT ![n] = s] /\ UNCHANGED cache
  /\ events' = {e \in events : e.to # n}
  /\ UNCHANGED <<deckVars, msgs, chainVars>>

-----------------------------------------------------------------------------
(* Blocks                                                                  *)

\* A proposer's cache goes into a block, which every thornode takes out of its
\* own cache and reports to its bifrost.
Commit(p) ==
  /\ cache[p] # {}
  /\ committed' = committed \cup cache[p]
  /\ recent' = recent \cup cache[p]
  /\ cache' = [q \in Proposers |-> cache[q] \ cache[p]]
  /\ events' = events \cup ToAll(Nodes, cache[p])
  /\ UNCHANGED <<deckVars, state, msgs, faults>>

\* The blocks go on and leave what AddItem looks at.
Forget ==
  /\ recent # {}
  /\ recent' = {}
  /\ UNCHANGED <<deckVars, state, msgs, cache, committed, events, faults>>

\* Thornode is restarted, or the cached item has outlived its time.
LoseCache(n) ==
  /\ cache[n] # {}
  /\ Fault(n)
  /\ cache' = [cache EXCEPT ![n] = {}]
  /\ UNCHANGED <<deckVars, state, msgs, chainVars, events>>

\* mutant: attestations the node has not heard of are marked as well
MarkAttestationsCommittedUnheld(s, a) == [s EXCEPT !.committed = @ \cup {a}]

MarkAttestationsCommitted(s, a) ==
  [s EXCEPT !.committed = @ \cup (s.held \cap {a})]

\* mutant: whatever is committed of the transaction takes it off the deck
RemovedFromDeckAnyway(e) == deck \ {e.to}

\* Only with our own attestation the transaction leaves the deck.
RemovedFromDeck(e) == IF e.to = e.att THEN deck \ {e.to} ELSE deck

HandleQuorumTxCommitted(e) ==
  /\ e \in events
  /\ events' = events \ {e}
  /\ deck' = RemovedFromDeck(e)
  /\ state' = [state EXCEPT ![e.to] = MarkAttestationsCommitted(@, e.att)]
  /\ UNCHANGED <<observed, errata, msgs, cache, chainVars, faults>>

\* The subscription is broken, or the buffer of the subscriber is full.
LoseEvent(e) ==
  /\ Fault(e.to)
  /\ events' = events \ {e}
  /\ UNCHANGED <<deckVars, state, msgs, cache, chainVars>>

-----------------------------------------------------------------------------
Next ==
  \/ \E n \in Nodes :
       \/ Observe(n) \/ AttestErrata(n)
       \/ \E peers \in SUBSET (Nodes \ {n}) : Restart(n, peers)
       \/ \E ok \in BOOLEAN :
            AttestObservedTx(n, ok) \/ Tick(n, ok)
  \/ \E m \in msgs : Lose(m) \/ \E ok \in BOOLEAN : HandleStream(m, ok)
  \/ \E e \in events : HandleQuorumTxCommitted(e) \/ LoseEvent(e)
  \/ \E p \in Proposers : Commit(p) \/ LoseCache(p)
  \/ Forget

Spec == Init /\ [][Next]_vars

\* The goroutines and timers of every node run, streams end, blocks are made
\* by every proposer in turn, and what is not a fault succeeds.
FairSpec ==
  /\ Spec
  /\ WF_vars(Forget \/ \E p \in Proposers : Commit(p))
  /\ \A n \in Nodes : WF_vars(AttestObservedTx(n, TRUE)) /\ WF_vars(Tick(n, TRUE))
  /\ \A m \in Message :
       IF m.to = m.att THEN WF_vars(HandleQuorumTxCommitted(m))
       ELSE WF_vars(HandleStream(m, TRUE))

-----------------------------------------------------------------------------
(* Properties                                                              *)

TypeOK ==
  /\ observed \subseteq Observers /\ deck \subseteq observed /\ errata \subseteq observed
  /\ state \in [Nodes -> AttestationState]
  /\ msgs \subseteq Message
  /\ cache \in [Proposers -> SUBSET Observers]
  /\ recent \subseteq committed /\ committed \subseteq Observers
  /\ events \subseteq Message
  /\ faults \in 0 .. MaxFaults

\* A node gives a transaction up only when the chain has its own attestation:
\* until then it is on the deck, whatever was lost, restarted or committed for
\* others (handleQuorumTxCommitted looks for the node's own key).
KeptUntilCommitted == observed \ (deck \cup errata) \subseteq committed

\* What a super majority attests does not wait for the ticker: unless a call
\* failed, a node that holds a super majority has handed over all it holds.
QuorumHandedOver ==
  faults = 0 =>
    \A n \in Nodes : HasQuorum(state[n]) => UnsentAttestations(state[n]) = {}

\* Every observation reaches the chain: once the nodes have observed and the
\* faults are over, the decks become empty and stay so.
DeckDrains == <>[](deck = {})

=============================================================================
