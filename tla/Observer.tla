------------------------------ MODULE Observer ------------------------------
(***************************************************************************)
(* The observer of one node (bifrost/observer/observe.go) behind its block *)
(* scanner: transactions are handed to workers, which put them on the deck *)
(* and into its storage; the deck is sent to be attested, first as it is   *)
(* and, once the confirmations are there, as final; what thornode commits  *)
(* leaves the deck, and so does what a reorganisation has removed.  The    *)
(* node can be restarted between any two steps, and it can be churned in   *)
(* and out.                                                                *)
(*                                                                         *)
(* The deck's key is the height at which its transactions are final.       *)
(* Whether a deck is ready depends on its key alone: the code keeps the    *)
(* confirmations it requires and the height of its first item in step.     *)
(***************************************************************************)
EXTENDS BlockScanner

CONSTANTS
  Conf,           \* confirmations a transaction needs
  Workers,        \* observerWorkers
  MaxFaults       \* bound on reorganisations, churns and restarts together

ASSUME ObserverAssumption ==
  /\ Conf \in Nat /\ Workers \in Nat \ {0}
  /\ MaxFaults \in Nat

VARIABLES
  nodeStatus,     \* the node's status in thornode
  lastNodeStatus,
  work,           \* what the workers are busy with
  deck,           \* onDeck
  store,          \* ObserverStorage
  attested,       \* attestations gossiped, of transactions that are not final
  final,          \* transactions committed as final with our attestation
  handed,         \* the heights handed over or skipped at a start
  lost,           \* transactions dropped by a restart or an inactive node
  unscanned,      \* heights rescanned without success
  faults          \* reorganisations, churns and restarts so far

deckVars == <<work, deck, store>>
statusVars == <<nodeStatus, lastNodeStatus>>
historyVars == <<attested, final, handed, lost, unscanned>>
vars == <<chainVars, clientVars, scannerVars, deckVars, statusVars, historyVars,
          faults>>

Keys == 1 .. MaxHeight + Conf
DeckItem == [tx : Txs, height : Heights, committed : BOOLEAN]

Init ==
  /\ ScannerInit
  /\ nodeStatus \in {"standby", "active"}
  /\ lastNodeStatus = "unknown"
  /\ work = {}
  /\ deck = [k \in Keys |-> {}]
  /\ store = deck
  /\ attested = {}
  /\ final = {}
  /\ handed = {}
  /\ lost = {}
  /\ unscanned = {}
  /\ faults = 0

TxsOf(items) == {x.tx : x \in items}
OnDeck == UNION {TxsOf(deck[k]) : k \in Keys}
InWork == UNION {TxsOf(w.items) : w \in work}
Prefetches == UNION {TxsOf(prefetch[h].in.items) : h \in Heights}

-----------------------------------------------------------------------------
(* The chain and the scanner                                               *)

Fault == faults < MaxFaults /\ faults' = faults + 1

Chain ==
  /\ \/ (\E S \in SUBSET pending : Mine(S)) /\ UNCHANGED faults
     \/ (\E h \in DOMAIN chain : Reorg(h)) /\ Fault
  /\ UNCHANGED <<clientVars, scannerVars, deckVars, statusVars, historyVars>>

Fetch(h, failed) ==
  /\ ScanFetch(h, failed) \/ Prefetched(h, failed)
  /\ unscanned' = unscanned \cup failed
  /\ UNCHANGED <<chainVars, deckVars, statusVars, attested, final, handed, lost,
                 faults>>

Scan ==
  /\ \/ \E h \in Heights : ScanPrefetched(h) \/ ScanPrefetchError(h)
     \/ SetScanPos
     \/ Rollback
  /\ UNCHANGED <<chainVars, deckVars, statusVars, historyVars, faults>>

\* processTxIns takes the transactions and drops them if the node was not
\* active when the deck was last sent.
ProcessTxIns ==
  /\ Sent
  /\ IF txIn.items = {}
     THEN UNCHANGED <<work, lost>>
     ELSE IF lastNodeStatus # "active"
     THEN lost' = lost \cup TxsOf(txIn.items) /\ work' = work
     ELSE /\ Cardinality(work) < Workers
          /\ work' = work \cup {txIn}
          /\ lost' = lost
  /\ handed' = handed \cup {prev}
  /\ UNCHANGED <<chainVars, deck, store, statusVars, attested, final, unscanned,
                 faults>>

-----------------------------------------------------------------------------
(* The deck                                                                *)

\* The items that are not on this deck yet are added to it.
Merged(old, items) ==
  old \cup {[tx |-> x.tx, height |-> x.height, committed |-> FALSE] :
              x \in {y \in items : \A o \in old : o.tx # y.tx \/ o.height # y.height}}

ProcessObservedTx(w) ==
  /\ work' = work \ {w}
  /\ LET k == w.first + Conf
         new == Merged(deck[k], w.items)
     IN  /\ deck' = [deck EXCEPT ![k] = new]
         /\ store' = IF new # deck[k] THEN [store EXCEPT ![k] = new] ELSE store
  /\ UNCHANGED <<chainVars, clientVars, scannerVars, statusVars, historyVars, faults>>

Ready(k) == cur >= k

\* RollbackToLastObserved: behind the height the network has observed by one
\* block at least.
RollbackHeights == 0 .. Len(chain) - 1

\* sendDeck notices that the node's status has changed: once active, the
\* scanner is asked to go back, unless the node has just been started.
SendDeckStatus ==
  /\ rollbackReq = NoRequest
  /\ nodeStatus # lastNodeStatus
  /\ lastNodeStatus' = nodeStatus
  /\ IF nodeStatus = "active"
     THEN /\ IF lastNodeStatus # "unknown"
             THEN \E back \in RollbackHeights : rollbackReq' = back
             ELSE UNCHANGED rollbackReq
          /\ UNCHANGED <<deck, store, lost>>
     ELSE /\ deck' = [k \in Keys |-> {}]
          /\ store' = deck'
          /\ lost' = lost \cup OnDeck
          /\ UNCHANGED rollbackReq
  /\ UNCHANGED <<chainVars, clientVars, prev, pos, prefetch, pc, txIn, work, nodeStatus,
                 attested, final, handed, unscanned, faults>>

\* What is on the deck is attested, except what thornode has committed before
\* and is not final yet.
SendDeck ==
  /\ rollbackReq = NoRequest
  /\ nodeStatus = "active" /\ lastNodeStatus = "active"
  /\ attested' = attested \cup
       UNION {{[tx |-> x.tx, key |-> k, final |-> Ready(k)] :
                 x \in {y \in deck[k] : y.committed => Ready(k)}} : k \in Keys}
  /\ UNCHANGED <<chainVars, clientVars, scannerVars, deckVars, statusVars, final, handed,
                 lost, unscanned, faults>>

Stored(k, items) == [store EXCEPT ![k] = items]

\* Thornode has committed a transaction with our attestation; OnObservedTxIn
\* adds it to the meta of its block.
HandleObservedTxCommitted(a, x) ==
  /\ x \in deck[a.key] /\ x.tx = a.tx
  /\ deck' = [deck EXCEPT ![a.key] =
                (@ \ {x}) \cup IF a.final THEN {} ELSE {[x EXCEPT !.committed = TRUE]}]
  /\ store' = Stored(a.key, deck'[a.key])
  /\ final' = IF a.final THEN final \cup {a.tx} ELSE final
  /\ attested' = IF a.final THEN {b \in attested : b.tx # a.tx} ELSE attested
  /\ meta' = [meta EXCEPT ![x.height].customers = @ \cup {x.tx}]
  /\ tracked' = tracked \cup {x.tx}
  /\ UNCHANGED <<chainVars, cur, errataQ, scannerVars, work, statusVars, handed, lost,
                 unscanned, faults>>

\* filterErrataTx stops at the first transaction it finds; an empty deck is
\* removed from the storage at the height of the block.
ProcessErrataTx ==
  /\ errataQ # <<>>
  /\ errataQ' = Tail(errataQ)
  /\ LET block == Head(errataQ)
     IN  \/ /\ block.txs \cap OnDeck = {}
            /\ UNCHANGED <<deck, store, lost>>
         \/ \E k \in Keys : \E x \in deck[k] :
              /\ x.tx \in block.txs
              /\ deck' = [deck EXCEPT ![k] = @ \ {x}]
              /\ store' = IF deck'[k] = {} THEN [store EXCEPT ![block.height] = {}]
                          ELSE [store EXCEPT ![k] = deck'[k]]
              /\ lost' = lost \cup {x.tx}
  /\ UNCHANGED <<chainVars, meta, tracked, cur, scannerVars, work, statusVars, attested,
                 final, handed, unscanned, faults>>

-----------------------------------------------------------------------------
(* Churns and restarts                                                     *)

Churn ==
  /\ Fault
  /\ nodeStatus' = IF nodeStatus = "active" THEN "standby" ELSE "active"
  /\ UNCHANGED <<chainVars, clientVars, scannerVars, deckVars, lastNodeStatus,
                 historyVars>>

\* The process ends and starts again; only the storages survive.
Restart ==
  /\ \E observed \in 0 .. Len(chain) :
       /\ ScannerRestart(observed)
       /\ handed' = handed \cup pos + 1 .. StartHeight(observed)
  /\ work' = {}
  /\ deck' = store
  /\ lastNodeStatus' = "unknown"
  /\ lost' = lost \cup TxsOf(txIn.items) \cup Prefetches \cup InWork
               \cup (OnDeck \ UNION {TxsOf(store[k]) : k \in Keys})
  /\ UNCHANGED <<chainVars, store, nodeStatus, attested, final>>

Crash ==
  /\ Fault
  /\ Restart
  /\ UNCHANGED <<meta, unscanned>>

\* reConfirmTx panics on a missing meta, after it saved the others.
FetchPanics(h) ==
  /\ \/ ReadyToScan(h) /\ prefetch[h].state = "none"
     \/ prefetch[h].state = "pending"
  /\ Panics(h)
  /\ Restart
  /\ meta' = ConfirmedMeta(h)
  /\ unscanned' = unscanned \cup ReConfirmed(h)
  /\ UNCHANGED faults

Next ==
  \/ Chain
  \/ \E h \in Heights, failed \in SUBSET Heights : Fetch(h, failed)
  \/ Scan
  \/ ProcessTxIns
  \/ \E w \in work : ProcessObservedTx(w)
  \/ SendDeckStatus \/ SendDeck
  \/ \E a \in attested : \E x \in deck[a.key] : HandleObservedTxCommitted(a, x)
  \/ ProcessErrataTx
  \/ Churn
  \/ Crash
  \/ \E h \in Heights : FetchPanics(h)

Spec == Init /\ [][Next]_vars

\* The goroutines of the scanner, of the fetches under way and of the workers
\* run, and a fetch that is tried again and again ends without an error.
ScannerStep ==
  \/ \E h \in Heights : ScanFetch(h, {}) /\ Fetch(h, {})
  \/ \E h \in Heights : ReadyToScan(h) /\ FetchPanics(h)
  \/ Scan
  \/ ProcessTxIns

FetcherStep ==
  \/ \E h \in Heights : Prefetched(h, {}) /\ Fetch(h, {})
  \/ \E h \in Heights : prefetch[h].state = "pending" /\ FetchPanics(h)

FairSpec ==
  /\ Spec
  /\ WF_vars(ScannerStep)
  /\ WF_vars(FetcherStep)
  /\ WF_vars(\E w \in work : ProcessObservedTx(w))

-----------------------------------------------------------------------------
(* Properties                                                              *)

\* The types of the variables.
TypeOK ==
  /\ ScannerTypeOK
  /\ nodeStatus \in {"standby", "active"}
  /\ lastNodeStatus \in {"unknown", "standby", "active"}
  /\ work \subseteq TxIn
  /\ deck \in [Keys -> SUBSET DeckItem]
  /\ store \in [Keys -> SUBSET DeckItem]
  /\ attested \subseteq [tx : Txs, key : Keys, final : BOOLEAN]
  /\ final \subseteq Txs
  /\ handed \subseteq Heights
  /\ lost \subseteq Txs
  /\ unscanned \subseteq Heights

\* The saved position is behind what was handed over: no restart skips a block
\* whose transactions the observer was not given, except those the maximum lag
\* leaves out (scanBlocks sends before SetScanPos; rollback goes back in both).
PositionIsHanded ==
  Start + 1 .. pos \subseteq handed

\* A transaction reaches the observer once: it is in one deck or with one
\* worker, whatever the reorganisations, rollbacks and restarts.
OneItemPerTx ==
  \A tx \in Txs :
    Cardinality({x \in Keys \X DeckItem : x[2] \in deck[x[1]] /\ x[2].tx = tx})
      + Cardinality({w \in work : tx \in TxsOf(w.items)}) <= 1

\* A reorganisation is followed all the way down: below a block whose hash the
\* node has recorded it has the hashes of the chain, and it knows the blocks'
\* transactions unless one could not be fetched again (processReorg saves the
\* new hash before it scans the block).
RecordedIsKnown ==
  \A h \in DOMAIN chain :
    meta[h].v = chain[h].v =>
      /\ h > 1 /\ meta[h - 1] # NoMeta => meta[h - 1].v = chain[h - 1].v
      /\ h \notin unscanned => chain[h].txs \subseteq tracked

\* A transaction that was reported once is on its way until it is final: it
\* leaves the pipeline only through a restart, an inactive node or an errata.
NothingDropped ==
  tracked \subseteq TxsOf(txIn.items) \cup Prefetches \cup InWork \cup OnDeck \cup final \cup lost

\* The scanner reaches the end of the chain and the workers finish.
CatchesUp == <>[](prev >= Len(chain) /\ work = {})

=============================================================================
