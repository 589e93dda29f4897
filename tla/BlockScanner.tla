---------------------------- MODULE BlockScanner ----------------------------
(***************************************************************************)
(* The block scanner of one UTXO chain (bifrost/blockscanner) and the      *)
(* FetchTxs of its client (bifrost/pkg/chainclients/utxo): the position    *)
(* that is saved, blocks fetched ahead, reorganisations noticed by the     *)
(* hash of the previous block, and the transactions that were reported     *)
(* before, which are ignored.  Operators on the scanner's state; module    *)
(* Observer adds the receiver of its transactions and the restarts.        *)
(*                                                                         *)
(* A block is its version, the number of reorganisations before it was     *)
(* mined, and the transactions to a vault it holds; height and version     *)
(* stand for its hash.  Every transaction is an inbound one.  Network      *)
(* fees, solvency reports, consolidation, the mempool scan and the pause   *)
(* by mimir are left out.                                                  *)
(***************************************************************************)
EXTENDS Integers, Sequences, FiniteSets

CONSTANTS
  Txs,
  Start,                  \* the height of the chain when the scanner first starts
  PrefetchBlocks,
  MaxReorgRescanBlocks,
  MaxResumeBlockLag,
  MaxHeight,              \* bound on the height of the chain
  MaxReorgs               \* bound on the reorganisations

ASSUME ScannerAssumption ==
  /\ IsFiniteSet(Txs)
  /\ Start \in Nat \ {0} /\ MaxHeight \in Nat /\ Start <= MaxHeight
  /\ PrefetchBlocks \in Nat /\ MaxReorgRescanBlocks \in Nat
  /\ MaxResumeBlockLag \in Nat /\ MaxReorgs \in Nat

VARIABLES
  chain,        \* the external chain
  pending,      \* its mempool
  reorgs,       \* reorganisations so far
  meta,         \* the block metas in the temporal storage
  tracked,      \* the observed transactions in the temporal storage
  cur,          \* currentBlockHeight of the client
  prev,         \* previousBlock
  pos,          \* the scan position in the storage
  prefetch,     \* per height: no entry, a fetch under way, its error or its result
  pc,           \* where the scanner is in its loop
  txIn,         \* the transactions to be handed over
  errataQ,      \* globalErrataQueue
  rollbackReq   \* a height offered on rollbackChan

chainVars == <<chain, pending, reorgs>>
clientVars == <<meta, tracked, cur, errataQ>>
scannerVars == <<prev, pos, prefetch, pc, txIn, rollbackReq>>

Heights == 1 .. MaxHeight
Item == [tx : Txs, height : Heights]
TxIn == [items : SUBSET Item, first : 0 .. MaxHeight]
Empty == [items |-> {}, first |-> 0]

NoMeta == [v |-> -1, customers |-> {}]
Entry(state, in) == [state |-> state, in |-> in]
NoEntry == Entry("none", Empty)
NoRequest == -1

ScannerInit ==
  /\ chain = [i \in 1 .. Start |-> [v |-> 0, txs |-> {}]]
  /\ pending = Txs
  /\ reorgs = 0
  /\ meta = [h \in Heights |-> NoMeta]
  /\ tracked = {}
  /\ cur = 0
  /\ prev = Start
  /\ pos = 0
  /\ prefetch = [h \in Heights |-> NoEntry]
  /\ pc = "idle"
  /\ txIn = Empty
  /\ errataQ = <<>>
  /\ rollbackReq = NoRequest

-----------------------------------------------------------------------------
(* The external chain                                                      *)

Mine(S) ==
  /\ Len(chain) < MaxHeight
  /\ chain' = Append(chain, [v |-> reorgs, txs |-> S])
  /\ pending' = pending \ S
  /\ UNCHANGED reorgs

\* The last blocks, from height h on, are replaced; each of their transactions
\* is mined again somewhere, goes back to the mempool or is gone (height 0).
Reorg(h) ==
  /\ reorgs < MaxReorgs
  /\ reorgs' = reorgs + 1
  /\ LET loose == pending \cup UNION {chain[i].txs : i \in h .. Len(chain)}
     IN  \E to \in [loose -> {0, MaxHeight + 1} \cup h .. Len(chain)] :
           /\ \A tx \in pending : to[tx] # 0
           /\ pending' = {tx \in loose : to[tx] = MaxHeight + 1}
           /\ chain' = [i \in DOMAIN chain |->
                          IF i < h THEN chain[i]
                          ELSE [v |-> reorgs', txs |-> {tx \in loose : to[tx] = i}]]

\* GetRawTransaction knows the transaction.
Exists(tx) == tx \in pending \/ \E i \in DOMAIN chain : tx \in chain[i].txs

-----------------------------------------------------------------------------
(* FetchTxs                                                                *)

Differs(i) == meta[i] # NoMeta /\ meta[i].v # chain[i].v

Earliest(h) == IF h - MaxReorgRescanBlocks < 1 THEN 1 ELSE h - MaxReorgRescanBlocks

\* mutant: only the block before is confirmed again
ReConfirmedOne(h) == {i \in {h - 1} : i >= 1 /\ Differs(i)}

\* The heights reConfirmTx goes back over: until a hash is the chain's again.
ReConfirmed(h) ==
  {i \in Earliest(h) .. h - 1 : \A j \in i .. h - 1 : Differs(j)}

\* reConfirmTx reaches a block that was never scanned and has no meta, which
\* it uses all the same.
Panics(h) ==
  \E i \in Earliest(h) .. h - 2 :
    meta[i] = NoMeta /\ \A j \in i + 1 .. h - 1 : Differs(j)

Gone(i) == {tx \in meta[i].customers : ~ Exists(tx)}

ConfirmedMeta(h) ==
  [i \in Heights |->
     IF i \in ReConfirmed(h)
     THEN [v |-> chain[i].v, customers |-> meta[i].customers \ Gone(i)]
     ELSE meta[i]]

\* The errata blocks of the heights 1 .. i, the highest first.
ErrataBlocks(h) ==
  LET blocks[i \in 0 .. h] ==
        IF i = 0 THEN <<>>
        ELSE (IF i \in ReConfirmed(h) /\ Gone(i) # {}
              THEN <<[height |-> i, txs |-> Gone(i)]>> ELSE <<>>) \o blocks[i - 1]
  IN  blocks[h]

\* mutant: a transaction is reported whenever it is found in a block
NewAtAlways(i) == {[tx |-> tx, height |-> i] : tx \in chain[i].txs}

\* The transactions of a block that were not reported before.
NewAt(i) == {[tx |-> tx, height |-> i] : tx \in chain[i].txs \ tracked}

\* The result for block h: the transactions of the blocks that were scanned
\* again, except those whose block could not be fetched, then its own.
Result(h, failed) ==
  LET again == UNION {NewAt(i) : i \in ReConfirmed(h) \ failed}
      items == again \cup NewAt(h)
  IN  [items |-> items,
       first |-> IF again # {}
                 THEN CHOOSE i \in Heights :
                        /\ \E x \in again : x.height = i
                        /\ \A x \in again : x.height <= i
                 ELSE IF items # {} THEN h ELSE 0]

FetchTxs(h, failed) ==
  /\ ~ Panics(h)
  /\ meta' = [ConfirmedMeta(h) EXCEPT ![h].v = chain[h].v]
  /\ tracked' = tracked \cup {x.tx : x \in Result(h, failed).items}
  /\ errataQ' = errataQ \o ErrataBlocks(h)
  /\ cur' = h

-----------------------------------------------------------------------------
(* scanBlocks                                                              *)

\* Entries for the blocks after h, unless they have one.
Prefetching(h, entries) ==
  [i \in Heights |->
     IF /\ h < i /\ i < h + PrefetchBlocks /\ i <= Len(chain)
        /\ entries[i].state = "none"
     THEN Entry("pending", Empty) ELSE entries[i]]

\* mutant: the position is saved before the transactions are handed over
ScannedAndSaved(h, in) ==
  /\ prev' = h
  /\ pos' = h
  /\ txIn' = in
  /\ pc' = "send"
  /\ UNCHANGED rollbackReq

Scanned(h, in) ==
  /\ prev' = h
  /\ txIn' = in
  /\ pc' = "send"
  /\ UNCHANGED <<pos, rollbackReq>>

ReadyToScan(h) ==
  /\ pc = "idle"
  /\ rollbackReq = NoRequest
  /\ h = prev + 1
  /\ h <= Len(chain)

\* A block without an entry is fetched now; an error is only another try.
ScanFetch(h, failed) ==
  /\ ReadyToScan(h)
  /\ prefetch[h].state = "none"
  /\ failed \subseteq ReConfirmed(h)
  /\ FetchTxs(h, failed)
  /\ Scanned(h, Result(h, failed))
  /\ prefetch' = Prefetching(h, prefetch)

\* A block with an entry is taken from it.
ScanPrefetched(h) ==
  /\ ReadyToScan(h)
  /\ prefetch[h].state = "ready"
  /\ Scanned(h, prefetch[h].in)
  /\ prefetch' = Prefetching(h, [prefetch EXCEPT ![h] = NoEntry])
  /\ UNCHANGED clientVars

\* mutant: an entry with an error stays in the map
ErrorTaken(h) == prefetch

ErrorRemoved(h) == [prefetch EXCEPT ![h] = NoEntry]

ScanPrefetchError(h) ==
  /\ ReadyToScan(h)
  /\ prefetch[h].state = "error"
  /\ prefetch' = ErrorRemoved(h)
  /\ UNCHANGED <<clientVars, prev, pos, pc, txIn, rollbackReq>>

\* The goroutine of an entry ends, with the block or with an error.
Prefetched(h, failed) ==
  /\ prefetch[h].state = "pending"
  /\ failed \subseteq ReConfirmed(h)
  /\ \/ /\ FetchTxs(h, failed)
        /\ prefetch' = [prefetch EXCEPT ![h] = Entry("ready", Result(h, failed))]
     \/ /\ prefetch' = [prefetch EXCEPT ![h] = Entry("error", Empty)]
        /\ UNCHANGED clientVars
  /\ UNCHANGED <<prev, pos, pc, txIn, rollbackReq>>

\* globalTxsQueue has taken the transactions, or there are none.
Sent ==
  /\ pc = "send"
  /\ pc' = "save"
  /\ txIn' = Empty
  /\ UNCHANGED <<prev, pos, prefetch, rollbackReq, clientVars>>

SetScanPos ==
  /\ pc = "save"
  /\ pos' = prev
  /\ pc' = "idle"
  /\ UNCHANGED <<prev, prefetch, txIn, rollbackReq, clientVars>>

\* mutant: what was fetched ahead is thrown away
PrefetchCleared == [h \in Heights |-> NoEntry]

\* The entries of the map survive a rollback.
PrefetchKept == prefetch

Rollback ==
  /\ pc = "idle"
  /\ rollbackReq # NoRequest
  /\ IF prev <= rollbackReq
     THEN UNCHANGED <<prev, pos>>
     ELSE prev' = rollbackReq /\ pos' = rollbackReq
  /\ rollbackReq' = NoRequest
  /\ prefetch' = PrefetchKept
  /\ UNCHANGED <<pc, txIn, clientVars>>

\* GetStartHeight and Start: the saved position, but not further behind the
\* height the network has observed than the maximum lag.
StartHeight(observed) ==
  IF observed = 0 THEN (IF pos > 0 THEN pos ELSE Len(chain))
  ELSE IF pos = 0 THEN observed
  ELSE IF observed <= pos + MaxResumeBlockLag THEN pos
  ELSE observed - MaxResumeBlockLag

ScannerRestart(observed) ==
  /\ prev' = StartHeight(observed)
  /\ prefetch' = [h \in Heights |-> NoEntry]
  /\ pc' = "idle"
  /\ txIn' = Empty
  /\ rollbackReq' = NoRequest
  /\ errataQ' = <<>>
  /\ cur' = 0
  /\ UNCHANGED <<pos, tracked>>

ScannerTypeOK ==
  /\ chain \in Seq([v : 0 .. MaxReorgs, txs : SUBSET Txs])
  /\ Len(chain) \in Start .. MaxHeight
  /\ pending \subseteq Txs
  /\ reorgs \in 0 .. MaxReorgs
  /\ meta \in [Heights -> [v : -1 .. MaxReorgs, customers : SUBSET Txs]]
  /\ tracked \subseteq Txs
  /\ cur \in 0 .. MaxHeight
  /\ prev \in 0 .. MaxHeight
  /\ pos \in 0 .. MaxHeight
  /\ prefetch \in [Heights -> [state : {"none", "pending", "error", "ready"}, in : TxIn]]
  /\ pc \in {"idle", "send", "save"}
  /\ txIn \in TxIn
  /\ errataQ \in Seq([height : Heights, txs : SUBSET Txs])
  /\ rollbackReq \in -1 .. MaxHeight

=============================================================================
