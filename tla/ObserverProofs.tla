--------------------------- MODULE ObserverProofs ---------------------------
(***************************************************************************)
(* Proofs about Observer and its BlockScanner, for any transactions, chain *)
(* heights, lags and numbers of workers, reorganisations and restarts: the *)
(* stored position is behind the blocks handed over, a transaction of a    *)
(* block that was handed over is on deck or was attested, it is there      *)
(* once, and the block metas follow the chain's reorganisations.           *)
(***************************************************************************)
EXTENDS Observer, FiniteSetTheorems, SequenceTheorems, WellFoundedInduction, TLAPS

-----------------------------------------------------------------------------
(* Types                                                                   *)

Block == [v : 0 .. MaxReorgs, txs : SUBSET Txs]

\* The errata queue is left out: nothing below depends on it.
ChainTypes ==
  /\ chain \in Seq(Block) /\ Len(chain) \in Start .. MaxHeight
  /\ pending \subseteq Txs
  /\ reorgs \in 0 .. MaxReorgs

PosTypes ==
  /\ prev \in 0 .. MaxHeight /\ pos \in 0 .. MaxHeight
  /\ pc \in {"idle", "send", "save"}
  /\ rollbackReq \in -1 .. MaxHeight

LEMMA ChainIs ==
  ASSUME ChainTypes
  PROVE  /\ DOMAIN chain = 1 .. Len(chain) /\ DOMAIN chain \subseteq Heights
         /\ \A i \in DOMAIN chain : chain[i] \in Block
         /\ Len(chain) \in Nat /\ MaxHeight \in Nat /\ Start \in Nat \ {0}
  BY ScannerAssumption, LenProperties, ElementOfSeq DEF ChainTypes, Heights

LEMMA MineTypes ==
  ASSUME ChainTypes, NEW S \in SUBSET pending, Mine(S)
  PROVE  ChainTypes' /\ Len(chain') = Len(chain) + 1
<1>1. [v |-> reorgs, txs |-> S] \in Block
  BY DEF ChainTypes, Block
<1>2. chain' \in Seq(Block) /\ Len(chain') = Len(chain) + 1
  BY <1>1, AppendProperties DEF Mine, ChainTypes
<1> QED
  BY <1>2, ChainIs DEF ChainTypes, Mine

LEMMA ReorgTypes ==
  ASSUME ChainTypes, NEW h \in DOMAIN chain, Reorg(h)
  PROVE  ChainTypes' /\ Len(chain') = Len(chain) /\ DOMAIN chain' = DOMAIN chain
<1> DEFINE loose == pending \cup UNION {chain[i].txs : i \in h .. Len(chain)}
<1>1. /\ DOMAIN chain = 1 .. Len(chain) /\ Len(chain) \in Nat
      /\ \A i \in DOMAIN chain : chain[i] \in Block
  BY ChainIs
<1>2. loose \subseteq Txs
  <2>1. h .. Len(chain) \subseteq DOMAIN chain
    BY <1>1
  <2>2. \A i \in h .. Len(chain) : chain[i].txs \subseteq Txs
    BY <1>1, <2>1 DEF Block
  <2>3. ASSUME NEW tx \in loose
        PROVE  tx \in Txs
    <3>1. tx \in pending \/ tx \in UNION {chain[i].txs : i \in h .. Len(chain)}
      OBVIOUS
    <3>2. ASSUME NEW S \in {chain[i].txs : i \in h .. Len(chain)}
          PROVE  S \subseteq Txs
      BY <2>2
    <3> QED
      BY <3>1, <3>2 DEF ChainTypes
  <2> QED
    BY <2>3
<1>3. reorgs' = reorgs + 1 /\ reorgs' \in 0 .. MaxReorgs
  BY ScannerAssumption DEF Reorg, ChainTypes
<1>4. PICK to \in [loose -> {0, MaxHeight + 1} \cup h .. Len(chain)] :
        /\ pending' = {tx \in loose : to[tx] = MaxHeight + 1}
        /\ chain' = [i \in DOMAIN chain |->
                       IF i < h THEN chain[i]
                       ELSE [v |-> reorgs', txs |-> {tx \in loose : to[tx] = i}]]
  BY DEF Reorg
<1> HIDE DEF loose
<1>5. pending' \subseteq Txs
  BY <1>2, <1>4
<1>6. \A i \in DOMAIN chain : [v |-> reorgs', txs |-> {tx \in loose : to[tx] = i}] \in Block
  BY <1>2, <1>3 DEF Block
<1>7. chain' \in [1 .. Len(chain) -> Block]
  BY <1>1, <1>4, <1>6
<1>8. chain' \in Seq(Block)
  BY <1>1, <1>7
<1>9. DOMAIN chain' = 1 .. Len(chain) /\ DOMAIN chain' = 1 .. Len(chain') /\ Len(chain') \in Nat
  BY <1>7, <1>8, LenProperties
<1>10. Len(chain') = Len(chain)
  BY <1>1, <1>9
<1> QED
  BY <1>1, <1>3, <1>5, <1>8, <1>9, <1>10 DEF ChainTypes

LEMMA StartHeightType ==
  ASSUME ChainTypes, PosTypes, NEW observed \in 0 .. Len(chain)
  PROVE  StartHeight(observed) \in 0 .. MaxHeight
<1>1. /\ Len(chain) \in 0 .. MaxHeight /\ pos \in 0 .. MaxHeight /\ MaxHeight \in Nat
      /\ MaxResumeBlockLag \in Nat
  BY ChainIs, ScannerAssumption DEF ChainTypes, PosTypes
<1> QED
  BY <1>1 DEF StartHeight

\* A step of the chain, or one that leaves it alone.
LEMMA ChainStep ==
  ASSUME ChainTypes, [Next]_vars
  PROVE  ChainTypes' /\ Len(chain) <= Len(chain')
<1>1. CASE Chain
  BY <1>1, MineTypes, ReorgTypes, ChainIs DEF Chain
<1>2. CASE UNCHANGED chainVars
  <2>1. ChainTypes' /\ chain' = chain
    BY <1>2 DEF ChainTypes, chainVars
  <2> QED
    BY <2>1, ChainIs
<1>3. Chain \/ UNCHANGED chainVars
  BY DEF Next, vars, Fetch, Scan, ProcessTxIns, ProcessObservedTx, SendDeckStatus, SendDeck,
         HandleObservedTxCommitted, ProcessErrataTx, Churn, Crash, FetchPanics, Restart
<1> QED
  BY <1>1, <1>2, <1>3

-----------------------------------------------------------------------------
(* The scan position                                                       *)

\* How far the observer was given the blocks, from where the scanner is.
GivenUpTo == IF pc = "send" THEN prev - 1 ELSE prev

HandedInv ==
  /\ ChainTypes /\ PosTypes
  /\ Start + 1 .. GivenUpTo \subseteq handed
  /\ PositionIsHanded

LEMMA InitHanded == Init => HandedInv
<1> SUFFICES ASSUME Init
             PROVE  HandedInv
  OBVIOUS
<1>1. Start \in Nat \ {0} /\ MaxHeight \in Nat /\ Start <= MaxHeight /\ MaxReorgs \in Nat
  BY ScannerAssumption
<1>2. chain \in [1 .. Start -> Block]
  BY <1>1 DEF Init, ScannerInit, Block
<1>3. chain \in Seq(Block)
  BY <1>1, <1>2
<1>4. Len(chain) = Start
  <2>1. DOMAIN chain = 1 .. Start /\ DOMAIN chain = 1 .. Len(chain) /\ Len(chain) \in Nat
    BY <1>2, <1>3, LenProperties
  <2> QED
    BY <1>1, <2>1
<1>5. ChainTypes
  BY <1>1, <1>3, <1>4 DEF ChainTypes, Init, ScannerInit
<1>6. PosTypes
  BY <1>1 DEF PosTypes, Init, ScannerInit, NoRequest
<1>7. Start + 1 .. GivenUpTo = {} /\ Start + 1 .. pos = {}
  BY <1>1 DEF GivenUpTo, Init, ScannerInit
<1> QED
  BY <1>5, <1>6, <1>7 DEF HandedInv, PositionIsHanded

(* A block was scanned: it is the next one. *)
LEMMA ScannedHanded ==
  ASSUME HandedInv, ChainTypes', NEW h \in Heights, ReadyToScan(h), NEW in, Scanned(h, in),
         UNCHANGED handed
  PROVE  HandedInv'
<1>1. h = prev + 1 /\ prev \in Nat /\ prev' = h /\ pc = "idle" /\ pc' = "send"
  BY DEF HandedInv, PosTypes, ReadyToScan, Scanned
<1>2. PosTypes'
  BY <1>1, ScannerAssumption DEF HandedInv, PosTypes, Scanned, Heights
<1>3. GivenUpTo' = prev /\ GivenUpTo = prev
  BY <1>1 DEF GivenUpTo
<1> QED
  BY <1>2, <1>3 DEF HandedInv, PositionIsHanded, Scanned

LEMMA RestartHanded ==
  ASSUME HandedInv, ChainTypes', Restart
  PROVE  HandedInv'
<1>1. PICK observed \in 0 .. Len(chain) :
        /\ ScannerRestart(observed)
        /\ handed' = handed \cup pos + 1 .. StartHeight(observed)
  BY DEF Restart
<1>2. StartHeight(observed) \in 0 .. MaxHeight
  BY StartHeightType DEF HandedInv
<1>3. /\ prev' = StartHeight(observed) /\ pc' = "idle" /\ pos' = pos /\ rollbackReq' = -1
  BY <1>1 DEF ScannerRestart, NoRequest
<1>4. PosTypes'
  BY <1>2, <1>3, ChainIs DEF HandedInv, PosTypes
<1>5. GivenUpTo' = StartHeight(observed)
  BY <1>3 DEF GivenUpTo
<1>6. Start + 1 .. pos \subseteq handed'
  BY <1>1 DEF HandedInv, PositionIsHanded
<1>7. pos \in Nat /\ StartHeight(observed) \in Nat /\ Start \in Nat
  BY <1>2, ChainIs DEF HandedInv, PosTypes
<1>8. ASSUME NEW i \in Start + 1 .. StartHeight(observed)
      PROVE  i \in handed'
  <2>1. i \in Start + 1 .. pos \/ i \in pos + 1 .. StartHeight(observed)
    BY <1>7
  <2> QED
    BY <1>1, <1>6, <2>1
<1> QED
  BY <1>3, <1>4, <1>5, <1>6, <1>8 DEF HandedInv, PositionIsHanded

LEMMA HandedStep == HandedInv /\ [Next]_vars => HandedInv'
<1> SUFFICES ASSUME HandedInv, [Next]_vars
             PROVE  HandedInv'
  OBVIOUS
<1>1. ChainTypes' /\ Len(chain) \in Nat /\ Len(chain) <= MaxHeight /\ Start \in Nat
  BY ChainStep, ChainIs DEF HandedInv, ChainTypes
<1>2. prev \in Nat /\ pos \in Nat /\ MaxHeight \in Nat
  BY ChainIs DEF HandedInv, PosTypes
<1>3. ASSUME UNCHANGED <<prev, pos, pc, rollbackReq, handed>>
      PROVE  HandedInv'
  BY <1>1, <1>3 DEF HandedInv, PosTypes, GivenUpTo, PositionIsHanded
<1>4. ASSUME NEW h \in Heights, NEW failed \in SUBSET Heights, Fetch(h, failed)
      PROVE  HandedInv'
  <2>1. CASE ScanFetch(h, failed)
    BY <1>1, <1>4, <2>1, ScannedHanded DEF ScanFetch, Fetch
  <2>2. CASE Prefetched(h, failed)
    BY <1>3, <1>4, <2>2 DEF Prefetched, Fetch
  <2> QED
    BY <1>4, <2>1, <2>2 DEF Fetch
<1>5. CASE Scan
  <2>1. UNCHANGED handed
    BY <1>5 DEF Scan, historyVars
  <2>2. ASSUME NEW h \in Heights, ScanPrefetched(h)
        PROVE  HandedInv'
    BY <1>1, <2>1, <2>2, ScannedHanded DEF ScanPrefetched
  <2>3. ASSUME NEW h \in Heights, ScanPrefetchError(h)
        PROVE  HandedInv'
    BY <1>3, <2>1, <2>3 DEF ScanPrefetchError
  <2>4. CASE SetScanPos
    <3>1. pc = "save" /\ pos' = prev /\ prev' = prev /\ pc' = "idle" /\ rollbackReq' = rollbackReq
      BY <2>4 DEF SetScanPos
    <3>2. GivenUpTo = prev /\ GivenUpTo' = prev
      BY <3>1 DEF GivenUpTo
    <3> QED
      BY <1>1, <2>1, <3>1, <3>2 DEF HandedInv, PosTypes, PositionIsHanded
  <2>5. CASE Rollback
    <3>1. pc = "idle" /\ pc' = "idle" /\ rollbackReq' = -1 /\ rollbackReq # -1
      BY <2>5 DEF Rollback, NoRequest
    <3>2. rollbackReq \in 0 .. MaxHeight
      BY <1>2, <3>1 DEF HandedInv, PosTypes
    <3>3. \/ prev' = prev /\ pos' = pos
          \/ prev > rollbackReq /\ prev' = rollbackReq /\ pos' = rollbackReq
      BY <1>2, <2>5, <3>2 DEF Rollback
    <3>4. PosTypes'
      BY <1>2, <3>1, <3>2, <3>3 DEF HandedInv, PosTypes
    <3>5. GivenUpTo = prev /\ GivenUpTo' = prev'
      BY <3>1 DEF GivenUpTo
    <3>6. Start + 1 .. prev' \subseteq handed
      BY <1>1, <1>2, <3>2, <3>3, <3>5 DEF HandedInv
    <3>7. Start + 1 .. pos' \subseteq handed
      BY <3>3, <3>6 DEF HandedInv, PositionIsHanded
    <3> QED
      BY <1>1, <2>1, <3>4, <3>5, <3>6, <3>7 DEF HandedInv, PositionIsHanded
  <2> QED
    BY <1>5, <2>2, <2>3, <2>4, <2>5 DEF Scan
<1>6. CASE ProcessTxIns
  <2>1. /\ pc = "send" /\ pc' = "save" /\ UNCHANGED <<prev, pos, rollbackReq>>
        /\ handed' = handed \cup {prev}
    BY <1>6 DEF ProcessTxIns, Sent
  <2>2. GivenUpTo = prev - 1 /\ GivenUpTo' = prev
    BY <2>1 DEF GivenUpTo
  <2>3. Start + 1 .. prev \subseteq handed'
    <3>1. \A i \in Start + 1 .. prev : i \in Start + 1 .. prev - 1 \/ i = prev
      BY <1>1, <1>2
    <3> QED
      BY <2>1, <2>2, <3>1 DEF HandedInv
  <2> QED
    BY <1>1, <2>1, <2>2, <2>3 DEF HandedInv, PosTypes, PositionIsHanded
<1>7. CASE SendDeckStatus
  <2>1. UNCHANGED <<prev, pos, pc, handed>>
    BY <1>7 DEF SendDeckStatus
  <2>2. rollbackReq' \in -1 .. MaxHeight
    BY <1>1, <1>2, <1>7 DEF SendDeckStatus, RollbackHeights, HandedInv, PosTypes
  <2> QED
    BY <1>1, <2>1, <2>2 DEF HandedInv, PosTypes, GivenUpTo, PositionIsHanded
<1>8. CASE Crash \/ \E h \in Heights : FetchPanics(h)
  BY <1>1, <1>8, RestartHanded DEF Crash, FetchPanics
<1>9. ASSUME \/ Chain \/ SendDeck \/ ProcessErrataTx \/ Churn \/ UNCHANGED vars
             \/ \E w \in work : ProcessObservedTx(w)
             \/ \E a \in attested : \E x \in deck[a.key] : HandleObservedTxCommitted(a, x)
      PROVE  UNCHANGED <<prev, pos, pc, rollbackReq, handed>>
  BY <1>9 DEF Chain, SendDeck, ProcessErrataTx, Churn, vars, ProcessObservedTx,
              HandleObservedTxCommitted, scannerVars, historyVars
<1> QED
  BY <1>3, <1>4, <1>5, <1>6, <1>7, <1>8, <1>9 DEF Next

LEMMA HandedInvariance == Spec => []HandedInv
  BY InitHanded, HandedStep, PTL DEF Spec

(* The saved scan position is behind what the observer was given: no        *)
(* restart, panic or rollback skips a block except those that the maximum   *)
(* lag leaves out (scanBlocks sends before SetScanPos).                     *)
THEOREM PositionIsBehindHandedBlocks == Spec => []PositionIsHanded
<1>1. HandedInv => PositionIsHanded
  BY DEF HandedInv
<1> QED
  BY <1>1, HandedInvariance, PTL

-----------------------------------------------------------------------------
(* The pipeline                                                            *)

(* A bounded set of naturals has a greatest element. *)
LEMMA GreatestExists ==
  ASSUME NEW n \in Nat, NEW S \in SUBSET (0 .. n), S # {}
  PROVE  \E i \in S : \A j \in S : j <= i
<1> DEFINE T == {n - i : i \in S}
<1>1. T \in SUBSET Nat /\ T # {}
  <2>1. \A i \in S : i \in 0 .. n
    OBVIOUS
  <2>2. \A i \in S : n - i \in Nat
    BY <2>1
  <2> QED
    BY <2>2
<1>2. \E x \in T : \A y \in T : ~ (<<y, x>> \in OpToRel(<, Nat))
  BY <1>1, WFMin, NatLessThanWellFounded
<1>3. PICK x \in T : \A y \in T : ~ (<<y, x>> \in OpToRel(<, Nat))
  BY <1>2
<1>4. PICK i \in S : x = n - i
  OBVIOUS
<1>5. ASSUME NEW j \in S
      PROVE  j <= i
  <2>1. n - j \in T
    OBVIOUS
  <2>2. ~ (n - j < x)
    BY <1>1, <1>3, <2>1 DEF OpToRel
  <2>3. x \in Int /\ j \in Int /\ i \in Int
    BY <1>1
  <2> HIDE DEF T
  <2> QED
    BY <1>4, <2>2, <2>3
<1> QED
  BY <1>5

\* No two items of one transaction.
Single(items) == \A x, y \in items : x.tx = y.tx => x = y

\* What a fetch returns: the height of its first item is a height.
Load(in) ==
  /\ in \in TxIn
  /\ in.items # {} => in.first \in Heights
  /\ Single(in.items)

\* The chain holds a transaction once.
MinedOnce ==
  /\ \A i, j \in DOMAIN chain : chain[i].txs \cap chain[j].txs # {} => i = j
  /\ \A i \in DOMAIN chain : chain[i].txs \cap pending = {}

EntryStates == {"none", "pending", "error", "ready"}

EntryOK(e, h) ==
  /\ e \in [state : EntryStates, in : TxIn]
  /\ Load(e.in)
  /\ e.state # "ready" => e.in.items = {}
  /\ e.state = "pending" => h \in DOMAIN chain

Entries(f) ==
  f \in [Heights -> [state : EntryStates, in : TxIn]] /\ \A h \in Heights : EntryOK(f[h], h)

LoadInv ==
  /\ Entries(prefetch)
  /\ Load(txIn) /\ (pc # "send" => txIn.items = {})
  /\ \A w \in work : Load(w) /\ w.items # {}

DeckTypes ==
  /\ tracked \subseteq Txs
  /\ deck \in [Keys -> SUBSET DeckItem] /\ store \in [Keys -> SUBSET DeckItem]
  /\ attested \subseteq [tx : Txs, key : Keys, final : BOOLEAN]

PipeInv == ChainTypes /\ MinedOnce /\ LoadInv /\ DeckTypes

LEMMA EmptyLoad == Load(Empty) /\ Empty.items = {}
  BY ScannerAssumption DEF Load, Empty, TxIn, Single

LEMMA NoEntryIs ==
  /\ NoEntry \in [state : EntryStates, in : TxIn]
  /\ NoEntry.state = "none" /\ NoEntry.in = Empty
  BY EmptyLoad DEF NoEntry, Entry, EntryStates, Load

LEMMA ReConfirmedIs ==
  ASSUME ChainTypes, NEW h \in DOMAIN chain
  PROVE  ReConfirmed(h) \subseteq DOMAIN chain /\ h \notin ReConfirmed(h)
<1>1. Earliest(h) \in Nat \ {0} /\ h \in Nat /\ h <= Len(chain)
  BY ScannerAssumption, ChainIs DEF Earliest
<1>2. \A i \in Earliest(h) .. h - 1 : i \in DOMAIN chain /\ i # h
  BY <1>1, ChainIs
<1> QED
  BY <1>2 DEF ReConfirmed

LEMMA NewAtIs ==
  ASSUME ChainTypes, NEW i \in DOMAIN chain, NEW x \in NewAt(i)
  PROVE  /\ x \in Item /\ x.height = i
         /\ x = [tx |-> x.tx, height |-> i] /\ x.tx \in chain[i].txs /\ x.tx \notin tracked
<1>1. PICK tx \in chain[i].txs \ tracked : x = [tx |-> tx, height |-> i]
  BY DEF NewAt
<1>2. chain[i].txs \subseteq Txs /\ i \in Heights
  BY ChainIs DEF Block
<1> QED
  BY <1>1, <1>2 DEF Item

(* What FetchTxs returns is new, and each transaction is there once. *)
LEMMA ResultIs ==
  ASSUME ChainTypes, MinedOnce, NEW h \in DOMAIN chain, NEW failed
  PROVE  /\ Load(Result(h, failed))
         /\ \A x \in Result(h, failed).items :
              x.height \in (ReConfirmed(h) \ failed) \cup {h} /\ x.tx \notin tracked
<1> DEFINE S == (ReConfirmed(h) \ failed) \cup {h}
           again == UNION {NewAt(i) : i \in ReConfirmed(h) \ failed}
           items == again \cup NewAt(h)
           top == CHOOSE i \in Heights : /\ \E x \in again : x.height = i
                                         /\ \A x \in again : x.height <= i
           r == Result(h, failed)
<1>1. S \subseteq DOMAIN chain /\ h \in Heights
  BY ReConfirmedIs, ChainIs
<1>2. ASSUME NEW x \in items
      PROVE  /\ x \in Item /\ x.height \in S /\ x.tx \notin tracked
             /\ x = [tx |-> x.tx, height |-> x.height] /\ x.tx \in chain[x.height].txs
  <2>1. PICK i \in S : x \in NewAt(i)
    OBVIOUS
  <2> QED
    BY <1>1, <2>1, NewAtIs
<1>3. again \subseteq items
  OBVIOUS
<1>4. r.items = items /\ r.first = IF again # {} THEN top ELSE IF items # {} THEN h ELSE 0
  BY DEF Result
<1> HIDE DEF items, again, S, r
<1>5. again # {} => top \in Heights
  <2>1. SUFFICES ASSUME again # {}
                 PROVE  top \in Heights
    OBVIOUS
  <2> DEFINE H == {x.height : x \in again}
  <2>2. H \in SUBSET (0 .. MaxHeight) /\ H # {} /\ H \subseteq Heights
    BY <1>2, <1>3, <2>1, ScannerAssumption DEF Item, Heights
  <2>3. PICK i \in H : \A j \in H : j <= i
    BY <2>2, GreatestExists, ScannerAssumption
  <2>4. /\ i \in Heights /\ \E x \in again : x.height = i
        /\ \A x \in again : x.height <= i
    BY <2>2, <2>3
  <2> QED
    BY <2>4
<1>6. r \in TxIn
  <2>1. items \in SUBSET Item
    BY <1>2
  <2>2. r.first \in 0 .. MaxHeight
    BY <1>1, <1>4, <1>5, ScannerAssumption DEF Heights
  <2>3. r = [items |-> r.items, first |-> r.first]
    BY DEF r, Result
  <2> QED
    BY <1>4, <2>1, <2>2, <2>3 DEF TxIn
<1>7. Single(r.items)
  <2>1. ASSUME NEW x \in items, NEW y \in items, x.tx = y.tx
        PROVE  x = y
    <3>1. x.height = y.height
      BY <1>1, <1>2, <2>1 DEF MinedOnce
    <3> QED
      BY <1>2, <2>1, <3>1
  <2> QED
    BY <1>4, <2>1 DEF Single
<1>8. r.items # {} => r.first \in Heights
  BY <1>1, <1>4, <1>5
<1> QED
  BY <1>2, <1>4, <1>6, <1>7, <1>8 DEF Load, S, r

LEMMA MinedOnceStep ==
  ASSUME ChainTypes, MinedOnce, [Next]_vars
  PROVE  MinedOnce'
<1>1. /\ DOMAIN chain = 1 .. Len(chain) /\ Len(chain) \in Nat
      /\ \A i \in DOMAIN chain : chain[i] \in Block
  BY ChainIs
<1>2. ASSUME NEW S \in SUBSET pending, Mine(S)
      PROVE  MinedOnce'
  <2> DEFINE b == [v |-> reorgs, txs |-> S]
  <2>1. b \in Block /\ b.txs = S /\ S \subseteq pending
    BY DEF ChainTypes, Block
  <2>2. chain' = Append(chain, b) /\ pending' = pending \ S
    BY <1>2 DEF Mine
  <2> HIDE DEF b
  <2>3. /\ Len(chain') = Len(chain) + 1 /\ chain' \in Seq(Block)
        /\ \A i \in 1 .. Len(chain) : chain'[i] = chain[i]
        /\ chain'[Len(chain) + 1] = b
    BY <2>1, <2>2, AppendProperties DEF ChainTypes
  <2>4. DOMAIN chain' = 1 .. Len(chain) + 1
    BY <2>3, LenProperties
  <2>5. \A i \in DOMAIN chain' : i \in DOMAIN chain \/ i = Len(chain) + 1
    BY <1>1, <2>4
  <2>6. \A i \in DOMAIN chain' :
          \/ i \in DOMAIN chain /\ chain'[i].txs = chain[i].txs
          \/ i = Len(chain) + 1 /\ chain'[i].txs = S
    BY <1>1, <2>1, <2>3, <2>5
  <2>7. \A i \in DOMAIN chain' : chain'[i].txs \cap pending' = {}
    BY <2>2, <2>6 DEF MinedOnce
  <2>8. ASSUME NEW i \in DOMAIN chain', NEW j \in DOMAIN chain',
               chain'[i].txs \cap chain'[j].txs # {}
        PROVE  i = j
    BY <2>1, <2>6, <2>8 DEF MinedOnce
  <2> QED
    BY <2>7, <2>8 DEF MinedOnce
<1>3. ASSUME NEW h \in DOMAIN chain, Reorg(h)
      PROVE  MinedOnce'
  <2> DEFINE loose == pending \cup UNION {chain[i].txs : i \in h .. Len(chain)}
  <2>1. PICK to \in [loose -> {0, MaxHeight + 1} \cup h .. Len(chain)] :
          /\ pending' = {tx \in loose : to[tx] = MaxHeight + 1}
          /\ chain' = [i \in DOMAIN chain |->
                         IF i < h THEN chain[i]
                         ELSE [v |-> reorgs', txs |-> {tx \in loose : to[tx] = i}]]
    BY <1>3 DEF Reorg
  <2>2. ASSUME NEW i \in DOMAIN chain, i < h, NEW tx \in chain[i].txs
        PROVE  tx \notin loose
    <3>1. tx \notin pending
      BY <2>2 DEF MinedOnce
    <3>2. ASSUME NEW j \in h .. Len(chain), tx \in chain[j].txs
          PROVE  FALSE
      <4>1. j \in DOMAIN chain /\ i # j
        BY <1>1, <2>2, <3>2
      <4> QED
        BY <2>2, <3>2, <4>1 DEF MinedOnce
    <3> QED
      BY <3>1, <3>2
  <2>3. MaxHeight + 1 \notin DOMAIN chain
    BY <1>1, ScannerAssumption DEF ChainTypes
  <2> HIDE DEF loose
  <2>4. \A i \in DOMAIN chain :
          /\ i < h => chain'[i].txs = chain[i].txs
          /\ ~ (i < h) => chain'[i].txs = {tx \in loose : to[tx] = i}
    BY <2>1
  <2>5. DOMAIN chain' = DOMAIN chain
    BY <2>1
  <2>6. \A i \in DOMAIN chain : chain'[i].txs \cap pending' = {}
    BY <2>1, <2>2, <2>3, <2>4
  <2>7. ASSUME NEW i \in DOMAIN chain, NEW j \in DOMAIN chain, NEW tx,
               tx \in chain'[i].txs, tx \in chain'[j].txs
        PROVE  i = j
    <3>1. CASE i < h /\ j < h
      BY <2>4, <2>7, <3>1 DEF MinedOnce
    <3>2. CASE ~ (i < h) /\ ~ (j < h)
      BY <2>4, <2>7, <3>2
    <3>3. CASE (i < h) # (j < h)
      BY <2>2, <2>4, <2>7, <3>3
    <3> QED
      BY <3>1, <3>2, <3>3
  <2> QED
    BY <2>5, <2>6, <2>7 DEF MinedOnce
<1>4. CASE UNCHANGED <<chain, pending>>
  BY <1>4 DEF MinedOnce
<1>5. \/ \E S \in SUBSET pending : Mine(S)
      \/ \E h \in DOMAIN chain : Reorg(h)
      \/ UNCHANGED <<chain, pending>>
  BY DEF Next, vars, Chain, chainVars, Fetch, Scan, ProcessTxIns, ProcessObservedTx,
         SendDeckStatus, SendDeck, HandleObservedTxCommitted, ProcessErrataTx, Churn, Crash,
         FetchPanics, Restart
<1> QED
  BY <1>2, <1>3, <1>4, <1>5

LEMMA PrefetchingIs ==
  ASSUME ChainTypes, NEW h \in Heights, NEW f, Entries(f)
  PROVE  /\ Entries(Prefetching(h, f))
         /\ \A i \in Heights :
              Prefetching(h, f)[i].in.items = f[i].in.items
<1> DEFINE e == Entry("pending", Empty)
<1>1. /\ e \in [state : EntryStates, in : TxIn] /\ e.state = "pending"
      /\ e.in.items = {} /\ Load(e.in)
  BY EmptyLoad DEF Entry, EntryStates, Load
<1> HIDE DEF e
<1>2. ASSUME NEW i \in Heights
      PROVE  \/ Prefetching(h, f)[i] = f[i]
             \/ Prefetching(h, f)[i] = e /\ i \in DOMAIN chain /\ f[i].state = "none"
  BY ChainIs DEF Prefetching, e, Heights
<1>3. ASSUME NEW i \in Heights
      PROVE  /\ EntryOK(Prefetching(h, f)[i], i)
             /\ Prefetching(h, f)[i].in.items = f[i].in.items
  <2>1. EntryOK(f[i], i)
    BY DEF Entries
  <2> QED
    BY <1>1, <1>2, <2>1 DEF EntryOK
<1>4. Prefetching(h, f) \in [Heights -> [state : EntryStates, in : TxIn]]
  <2>1. Prefetching(h, f) = [i \in Heights |-> Prefetching(h, f)[i]]
    BY DEF Prefetching
  <2> QED
    BY <1>3, <2>1 DEF EntryOK
<1> QED
  BY <1>3, <1>4 DEF Entries

LEMMA EntrySet ==
  ASSUME Entries(prefetch), NEW h \in Heights, NEW e, EntryOK(e, h)
  PROVE  /\ Entries([prefetch EXCEPT ![h] = e])
         /\ \A i \in Heights : [prefetch EXCEPT ![h] = e][i] = IF i = h THEN e ELSE prefetch[i]
  BY DEF Entries, EntryOK

LEMMA NoEntryOK ==
  ASSUME NEW h
  PROVE  EntryOK(NoEntry, h)
  BY NoEntryIs, EmptyLoad DEF EntryOK

LEMMA EntriesLater ==
  ASSUME ChainTypes, ChainTypes', Len(chain) <= Len(chain'), Entries(prefetch),
         UNCHANGED prefetch
  PROVE  Entries(prefetch)'
<1>1. DOMAIN chain \subseteq DOMAIN chain'
  BY LenProperties DEF ChainTypes
<1> QED
  BY <1>1 DEF Entries, EntryOK

(* The steps of the scanner and of the fetches ahead. *)
LEMMA LoadTxs ==
  ASSUME NEW in, Load(in)
  PROVE  TxsOf(in.items) \subseteq Txs
  BY DEF Load, TxIn, Item, TxsOf

LEMMA FetchLoads ==
  ASSUME PipeInv, NEW h \in Heights, NEW failed \in SUBSET Heights, Fetch(h, failed)
  PROVE  LoadInv' /\ tracked' \subseteq Txs
<1>1. /\ UNCHANGED <<chain, work>> /\ ChainTypes /\ MinedOnce /\ Entries(prefetch)
      /\ tracked \subseteq Txs
  BY DEF Fetch, chainVars, deckVars, PipeInv, LoadInv, DeckTypes
<1>2. Entries(prefetch') => Entries(prefetch)'
  BY <1>1 DEF Entries, EntryOK
<1>3. h \in DOMAIN chain
  <2>1. CASE ReadyToScan(h)
    BY <1>1, <2>1, ChainIs DEF ReadyToScan, Heights
  <2>2. CASE prefetch[h].state = "pending"
    BY <1>1, <2>2 DEF Entries, EntryOK
  <2> QED
    BY <2>1, <2>2 DEF Fetch, ScanFetch, Prefetched
<1>4. Load(Result(h, failed)) /\ TxsOf(Result(h, failed).items) \subseteq Txs
  BY <1>1, <1>3, ResultIs, LoadTxs
<1>5. FetchTxs(h, failed) => tracked' \subseteq Txs
  BY <1>1, <1>4 DEF FetchTxs, TxsOf
<1>6. \A w \in work' : Load(w) /\ w.items # {}
  BY <1>1 DEF PipeInv, LoadInv
<1>7. CASE ScanFetch(h, failed)
  <2>1. /\ FetchTxs(h, failed) /\ Scanned(h, Result(h, failed))
        /\ prefetch' = Prefetching(h, prefetch)
    BY <1>7 DEF ScanFetch
  <2>2. Entries(prefetch')
    BY <1>1, <2>1, PrefetchingIs
  <2>3. Load(txIn') /\ pc' = "send"
    BY <1>4, <2>1 DEF Scanned
  <2> QED
    BY <1>2, <1>5, <1>6, <2>1, <2>2, <2>3 DEF LoadInv, Load
<1>8. CASE Prefetched(h, failed)
  <2>1. UNCHANGED <<pc, txIn>>
    BY <1>8 DEF Prefetched
  <2>2. Load(txIn)' /\ (pc' # "send" => txIn'.items = {})
    BY <2>1 DEF PipeInv, LoadInv, Load
  <2>3. CASE FetchTxs(h, failed)
             /\ prefetch' = [prefetch EXCEPT ![h] = Entry("ready", Result(h, failed))]
    <3> DEFINE e == Entry("ready", Result(h, failed))
    <3>1. EntryOK(e, h)
      BY <1>4 DEF EntryOK, Entry, EntryStates, Load
    <3> HIDE DEF e
    <3>2. Entries([prefetch EXCEPT ![h] = e])
      BY <1>1, <3>1, EntrySet
    <3> QED
      BY <1>2, <1>5, <1>6, <2>2, <2>3, <3>2 DEF LoadInv, e, Load
  <2>4. CASE prefetch' = [prefetch EXCEPT ![h] = Entry("error", Empty)] /\ UNCHANGED clientVars
    <3> DEFINE e == Entry("error", Empty)
    <3>1. EntryOK(e, h)
      BY EmptyLoad DEF EntryOK, Entry, EntryStates, Load
    <3> HIDE DEF e
    <3>2. Entries([prefetch EXCEPT ![h] = e])
      BY <1>1, <3>1, EntrySet
    <3> QED
      BY <1>1, <1>2, <1>6, <2>2, <2>4, <3>2 DEF LoadInv, e, Load, clientVars
  <2> QED
    BY <1>8, <2>3, <2>4 DEF Prefetched
<1> QED
  BY <1>7, <1>8 DEF Fetch

LEMMA ScanLoads ==
  ASSUME PipeInv, Scan
  PROVE  LoadInv' /\ UNCHANGED tracked
<1>1. /\ UNCHANGED <<chain, work>> /\ ChainTypes /\ Entries(prefetch)
      /\ Load(txIn) /\ (pc # "send" => txIn.items = {})
  BY DEF Scan, chainVars, deckVars, PipeInv, LoadInv
<1>2. Entries(prefetch') => Entries(prefetch)'
  BY <1>1 DEF Entries, EntryOK
<1>3. UNCHANGED tracked
  BY DEF Scan, ScanPrefetched, ScanPrefetchError, SetScanPos, Rollback, clientVars
<1>4. \A w \in work' : Load(w) /\ w.items # {}
  BY <1>1 DEF PipeInv, LoadInv
<1>5. ASSUME NEW h \in Heights, ScanPrefetched(h)
      PROVE  LoadInv'
  <2> DEFINE f == [prefetch EXCEPT ![h] = NoEntry]
  <2>1. Scanned(h, prefetch[h].in) /\ prefetch' = Prefetching(h, f)
    BY <1>5 DEF ScanPrefetched
  <2>2. Entries(f)
    BY <1>1, NoEntryOK, EntrySet
  <2> HIDE DEF f
  <2>3. Entries(prefetch')
    BY <1>1, <2>1, <2>2, PrefetchingIs
  <2>4. Load(txIn') /\ pc' = "send"
    BY <1>1, <2>1 DEF Scanned, Entries, EntryOK
  <2> QED
    BY <1>2, <1>4, <2>3, <2>4 DEF LoadInv, Load
<1>6. ASSUME NEW h \in Heights, ScanPrefetchError(h)
      PROVE  LoadInv'
  <2>1. prefetch' = [prefetch EXCEPT ![h] = NoEntry] /\ UNCHANGED <<pc, txIn>>
    BY <1>6 DEF ScanPrefetchError, ErrorRemoved
  <2>2. Entries(prefetch')
    BY <1>1, <2>1, NoEntryOK, EntrySet
  <2> QED
    BY <1>1, <1>2, <1>4, <2>1, <2>2 DEF LoadInv, Load
<1>7. CASE SetScanPos \/ Rollback
  <2>1. UNCHANGED <<prefetch, txIn>> /\ pc # "send"
    BY <1>7 DEF SetScanPos, Rollback, PrefetchKept
  <2> QED
    BY <1>1, <1>2, <1>3, <1>4, <2>1 DEF LoadInv, Load
<1> QED
  BY <1>3, <1>5, <1>6, <1>7 DEF Scan

LEMMA ProcessTxInsLoads ==
  ASSUME PipeInv, ProcessTxIns
  PROVE  LoadInv' /\ UNCHANGED tracked
<1>1. /\ UNCHANGED <<chain, prefetch>> /\ txIn' = Empty /\ UNCHANGED tracked
      /\ Entries(prefetch) /\ Load(txIn)
  BY DEF ProcessTxIns, Sent, clientVars, chainVars, PipeInv, LoadInv
<1>2. Entries(prefetch)'
  BY <1>1 DEF Entries, EntryOK
<1>3. \A w \in work' : Load(w) /\ w.items # {}
  BY <1>1 DEF ProcessTxIns, PipeInv, LoadInv
<1>4. Load(txIn') /\ txIn'.items = {}
  BY <1>1, EmptyLoad
<1> QED
  BY <1>1, <1>2, <1>3, <1>4 DEF LoadInv, Load

LEMMA RestartLoads ==
  ASSUME PipeInv, Restart
  PROVE  LoadInv' /\ UNCHANGED tracked
<1>1. /\ UNCHANGED tracked /\ txIn' = Empty /\ work' = {}
      /\ prefetch' = [h \in Heights |-> NoEntry]
  BY DEF Restart, ScannerRestart
<1>2. \A h \in Heights : prefetch'[h] = NoEntry
  BY <1>1
<1>3. prefetch' \in [Heights -> [state : EntryStates, in : TxIn]]
  BY <1>1, NoEntryIs
<1>4. Entries(prefetch)'
  BY <1>2, <1>3, NoEntryIs, EmptyLoad DEF Entries, EntryOK, Load
<1>5. Load(txIn)' /\ txIn'.items = {}
  BY <1>1, EmptyLoad DEF Load
<1> QED
  BY <1>1, <1>4, <1>5 DEF LoadInv

LEMMA LoadStep ==
  ASSUME PipeInv, ChainTypes', Len(chain) <= Len(chain'), [Next]_vars
  PROVE  LoadInv'
<1>1. ChainTypes /\ LoadInv
  BY DEF PipeInv
<1>2. ASSUME UNCHANGED <<prefetch, txIn, pc>>, work' \subseteq work
      PROVE  LoadInv'
  <2>1. Entries(prefetch)'
    BY <1>1, <1>2, EntriesLater DEF LoadInv
  <2> QED
    BY <1>1, <1>2, <2>1 DEF LoadInv, Load
<1>3. ASSUME \/ Chain \/ SendDeckStatus \/ SendDeck \/ ProcessErrataTx \/ Churn
             \/ UNCHANGED vars \/ \E w \in work : ProcessObservedTx(w)
             \/ \E a \in attested : \E x \in deck[a.key] : HandleObservedTxCommitted(a, x)
      PROVE  UNCHANGED <<prefetch, txIn, pc>> /\ work' \subseteq work
  BY <1>3 DEF Chain, SendDeckStatus, SendDeck, ProcessErrataTx, Churn, vars,
              ProcessObservedTx, HandleObservedTxCommitted, scannerVars, deckVars
<1>4. CASE Crash \/ \E h \in Heights : FetchPanics(h)
  BY <1>4, RestartLoads DEF Crash, FetchPanics
<1> QED
  BY <1>2, <1>3, <1>4, FetchLoads, ScanLoads, ProcessTxInsLoads DEF Next

(* What ProcessObservedTx puts on a deck. *)
LEMMA MergedIs ==
  ASSUME NEW w, Load(w), NEW old \in SUBSET DeckItem
  PROVE  /\ Merged(old, w.items) \subseteq DeckItem /\ old \subseteq Merged(old, w.items)
         /\ TxsOf(Merged(old, w.items)) = TxsOf(old) \cup TxsOf(w.items)
         /\ \A x \in Merged(old, w.items) :
              x \in old \/ \E y \in w.items :
                             x = [tx |-> y.tx, height |-> y.height, committed |-> FALSE]
<1> DEFINE fresh == {y \in w.items : \A o \in old : o.tx # y.tx \/ o.height # y.height}
<1>1. Merged(old, w.items) =
        old \cup {[tx |-> x.tx, height |-> x.height, committed |-> FALSE] : x \in fresh}
  BY DEF Merged
<1>2. w.items \subseteq Item
  BY DEF Load, TxIn
<1>3. \A y \in w.items :
        [tx |-> y.tx, height |-> y.height, committed |-> FALSE] \in DeckItem
  BY <1>2 DEF Item, DeckItem
<1>4. \A y \in w.items : y.tx \in TxsOf(Merged(old, w.items))
  <2>1. SUFFICES ASSUME NEW y \in w.items
                 PROVE  \E x \in Merged(old, w.items) : x.tx = y.tx
    BY DEF TxsOf
  <2>2. CASE y \in fresh
    <3>1. [tx |-> y.tx, height |-> y.height, committed |-> FALSE] \in Merged(old, w.items)
      BY <1>1, <2>2
    <3>2. [tx |-> y.tx, height |-> y.height, committed |-> FALSE].tx = y.tx
      OBVIOUS
    <3> QED
      BY <3>1, <3>2
  <2>3. CASE y \notin fresh
    BY <1>1, <2>3
  <2> QED
    BY <2>2, <2>3
<1>5. \A x \in Merged(old, w.items) :
        x \in old \/ \E y \in w.items :
                       x = [tx |-> y.tx, height |-> y.height, committed |-> FALSE]
  BY <1>1
<1>6. \A x \in Merged(old, w.items) : x.tx \in TxsOf(old) \cup TxsOf(w.items)
  BY <1>5 DEF TxsOf
<1>7. old \subseteq Merged(old, w.items) /\ Merged(old, w.items) \subseteq DeckItem
  BY <1>1, <1>3, <1>5
<1> HIDE DEF fresh
<1>8. TxsOf(Merged(old, w.items)) = TxsOf(old) \cup TxsOf(w.items)
  BY <1>4, <1>6, <1>7 DEF TxsOf
<1> QED
  BY <1>5, <1>7, <1>8

LEMMA WorkKey ==
  ASSUME PipeInv, NEW w \in work
  PROVE  w.first + Conf \in Keys /\ Load(w)
<1>1. w.first \in Heights /\ Load(w)
  BY DEF PipeInv, LoadInv, Load
<1> QED
  BY <1>1, ScannerAssumption, ObserverAssumption DEF Heights, Keys

LEMMA ProcessObservedTxIs ==
  ASSUME PipeInv, NEW w \in work, ProcessObservedTx(w)
  PROVE  LET k == w.first + Conf
             new == Merged(deck[k], w.items)
         IN  /\ deck' = [deck EXCEPT ![k] = new]
             /\ store' \in {store, [store EXCEPT ![k] = new]}
             /\ work' = work \ {w}
             /\ UNCHANGED <<chainVars, clientVars, scannerVars, historyVars>>
  BY DEF ProcessObservedTx

LEMMA DeckTypesStep ==
  ASSUME PipeInv, [Next]_vars
  PROVE  DeckTypes'
<1>1. DeckTypes
  BY DEF PipeInv
<1>2. ASSUME UNCHANGED <<deck, store, attested>>, tracked' \subseteq Txs
      PROVE  DeckTypes'
  BY <1>1, <1>2 DEF DeckTypes
<1>3. ASSUME NEW w \in work, ProcessObservedTx(w)
      PROVE  DeckTypes'
  <2> DEFINE k == w.first + Conf
             new == Merged(deck[k], w.items)
  <2>1. k \in Keys /\ Load(w)
    BY WorkKey
  <2>2. new \subseteq DeckItem
    <3>1. deck[k] \in SUBSET DeckItem
      BY <1>1, <2>1 DEF DeckTypes
    <3> QED
      BY <2>1, <3>1, MergedIs
  <2>3. /\ deck' = [deck EXCEPT ![k] = new] /\ store' \in {store, [store EXCEPT ![k] = new]}
        /\ UNCHANGED <<attested, tracked>>
    BY <1>3, ProcessObservedTxIs DEF historyVars, clientVars
  <2> HIDE DEF k, new
  <2> QED
    BY <1>1, <2>1, <2>2, <2>3 DEF DeckTypes
<1>4. ASSUME SendDeckStatus
      PROVE  DeckTypes'
  <2>1. UNCHANGED <<attested, tracked>>
    BY <1>4 DEF SendDeckStatus, clientVars
  <2>2. \/ UNCHANGED <<deck, store>>
        \/ deck' = [k \in Keys |-> {}] /\ store' = deck'
    BY <1>4 DEF SendDeckStatus
  <2> QED
    BY <1>1, <2>1, <2>2 DEF DeckTypes
<1>5. ASSUME SendDeck
      PROVE  DeckTypes'
  <2>1. UNCHANGED <<deck, store, tracked>>
    BY <1>5 DEF SendDeck, deckVars, clientVars
  <2>2. ASSUME NEW k \in Keys, NEW x \in deck[k]
        PROVE  [tx |-> x.tx, key |-> k, final |-> Ready(k)] \in
                 [tx : Txs, key : Keys, final : BOOLEAN]
    BY <1>1 DEF DeckTypes, DeckItem, Ready
  <2>3. attested' \subseteq [tx : Txs, key : Keys, final : BOOLEAN]
    BY <1>1, <1>5, <2>2 DEF SendDeck, DeckTypes
  <2> QED
    BY <1>1, <2>1, <2>3 DEF DeckTypes
<1>6. ASSUME NEW a \in attested, NEW x \in deck[a.key], HandleObservedTxCommitted(a, x)
      PROVE  DeckTypes'
  <2> DEFINE y == [x EXCEPT !.committed = TRUE]
             new == (deck[a.key] \ {x}) \cup IF a.final THEN {} ELSE {y}
  <2>1. a.key \in Keys /\ x \in DeckItem /\ x.tx \in Txs
    BY <1>1 DEF DeckTypes, DeckItem
  <2>2. y \in DeckItem
    BY <2>1 DEF DeckItem
  <2>3. new \subseteq DeckItem
    BY <1>1, <2>1, <2>2 DEF DeckTypes
  <2>4. /\ deck' = [deck EXCEPT ![a.key] = new] /\ store' = [store EXCEPT ![a.key] = deck'[a.key]]
        /\ attested' \subseteq attested /\ tracked' = tracked \cup {x.tx}
    BY <1>6 DEF HandleObservedTxCommitted, Stored
  <2> HIDE DEF new
  <2>5. deck'[a.key] = new
    BY <1>1, <2>1, <2>4 DEF DeckTypes
  <2> QED
    BY <1>1, <2>1, <2>3, <2>4, <2>5 DEF DeckTypes
<1>7. ASSUME ProcessErrataTx
      PROVE  DeckTypes'
  <2>1. UNCHANGED <<attested, tracked>>
    BY <1>7 DEF ProcessErrataTx
  <2>2. deck' \in [Keys -> SUBSET DeckItem]
    BY <1>1, <1>7 DEF ProcessErrataTx, DeckTypes
  <2>3. store' \in [Keys -> SUBSET DeckItem]
    BY <1>1, <1>7, <2>2 DEF ProcessErrataTx, DeckTypes
  <2> QED
    BY <1>1, <2>1, <2>2, <2>3 DEF DeckTypes
<1>8. ASSUME Restart
      PROVE  DeckTypes'
  BY <1>1, <1>8 DEF Restart, ScannerRestart, DeckTypes
<1>9. ASSUME \/ Chain \/ Scan \/ ProcessTxIns \/ Churn \/ UNCHANGED vars
      PROVE  UNCHANGED <<deck, store, attested, tracked>>
  BY <1>9, ScanLoads DEF Chain, Scan, ProcessTxIns, Sent, Churn, vars, deckVars, historyVars,
                         clientVars
<1>10. ASSUME NEW h \in Heights, NEW failed \in SUBSET Heights, Fetch(h, failed)
       PROVE  UNCHANGED <<deck, store, attested>> /\ tracked' \subseteq Txs
  BY <1>10, FetchLoads DEF Fetch, deckVars
<1>11. CASE Crash \/ \E h \in Heights : FetchPanics(h)
  BY <1>8, <1>11 DEF Crash, FetchPanics
<1> QED
  BY <1>1, <1>2, <1>3, <1>4, <1>5, <1>6, <1>7, <1>9, <1>10, <1>11 DEF Next, DeckTypes

LEMMA PipeStep == PipeInv /\ [Next]_vars => PipeInv'
  BY ChainStep, MinedOnceStep, LoadStep, DeckTypesStep DEF PipeInv

LEMMA InitPipe == Init => PipeInv
<1> SUFFICES ASSUME Init
             PROVE  PipeInv
  OBVIOUS
<1>1. ChainTypes
  BY InitHanded DEF HandedInv
<1>2. MinedOnce
  <2>1. \A i \in DOMAIN chain : chain[i].txs = {}
    BY DEF Init, ScannerInit
  <2> QED
    BY <2>1 DEF MinedOnce
<1>3. Entries(prefetch)
  BY NoEntryOK, NoEntryIs DEF Init, ScannerInit, Entries
<1>4. LoadInv
  BY <1>3, EmptyLoad DEF LoadInv, Init, ScannerInit
<1>5. DeckTypes
  BY DEF DeckTypes, Init, ScannerInit
<1> QED
  BY <1>1, <1>2, <1>4, <1>5 DEF PipeInv

-----------------------------------------------------------------------------
(* Nothing is dropped                                                      *)

InTxs == TxsOf(txIn.items)
FetchedTxs(h) == TxsOf(prefetch[h].in.items)

\* Where the transactions of the pipeline are.
OnTheWay(tx) ==
  \/ tx \in InTxs
  \/ \E h \in Heights : tx \in FetchedTxs(h)
  \/ \E w \in work : tx \in TxsOf(w.items)
  \/ \E k \in Keys : tx \in TxsOf(deck[k])
  \/ tx \in final \/ tx \in lost

LEMMA NothingDroppedIs ==
  /\ NothingDropped <=> \A tx \in tracked : OnTheWay(tx)
  /\ NothingDropped' <=> \A tx \in tracked' : OnTheWay(tx)'
<1>1. \A tx : tx \in TxsOf(txIn.items) \cup Prefetches \cup InWork \cup OnDeck \cup final \cup lost
                <=> OnTheWay(tx)
  BY DEF OnTheWay, InTxs, FetchedTxs, Prefetches, InWork, OnDeck
<1>2. \A tx : tx \in (TxsOf(txIn.items) \cup Prefetches \cup InWork \cup OnDeck \cup final \cup lost)'
                <=> OnTheWay(tx)'
  BY DEF OnTheWay, InTxs, FetchedTxs, Prefetches, InWork, OnDeck
<1> QED
  BY <1>1, <1>2 DEF NothingDropped

(* The transactions a fetch returns are tracked and on the way; nothing     *)
(* else changes.                                                            *)
LEMMA FetchMoves ==
  ASSUME PipeInv, NEW h \in Heights, NEW failed \in SUBSET Heights, Fetch(h, failed)
  PROVE  \E N \in SUBSET Txs :
           /\ N \cap tracked = {} /\ tracked' = tracked \cup N
           /\ \/ /\ InTxs' = N /\ InTxs = {}
                 /\ \A i \in Heights : FetchedTxs(i)' = FetchedTxs(i)
              \/ /\ UNCHANGED InTxs /\ FetchedTxs(h) = {} /\ FetchedTxs(h)' = N
                 /\ \A i \in Heights : i # h => FetchedTxs(i)' = FetchedTxs(i)
<1>1. /\ ChainTypes /\ MinedOnce /\ Entries(prefetch)
      /\ prefetch \in [Heights -> [state : EntryStates, in : TxIn]]
  BY DEF PipeInv, LoadInv, Entries
<1>2. h \in DOMAIN chain
  <2>1. CASE ReadyToScan(h)
    BY <1>1, <2>1, ChainIs DEF ReadyToScan, Heights
  <2>2. CASE prefetch[h].state = "pending"
    BY <1>1, <2>2 DEF Entries, EntryOK
  <2> QED
    BY <2>1, <2>2 DEF Fetch, ScanFetch, Prefetched
<1> DEFINE N == TxsOf(Result(h, failed).items)
<1>3. N \subseteq Txs /\ N \cap tracked = {}
  <2>1. Load(Result(h, failed)) /\ \A x \in Result(h, failed).items : x.tx \notin tracked
    BY <1>1, <1>2, ResultIs
  <2> QED
    BY <2>1, LoadTxs DEF TxsOf
<1>4. FetchTxs(h, failed) => tracked' = tracked \cup N
  BY DEF FetchTxs, TxsOf
<1>5. TxsOf({}) = {}
  BY DEF TxsOf
<1>6. CASE ScanFetch(h, failed)
  <2>1. /\ FetchTxs(h, failed) /\ Scanned(h, Result(h, failed)) /\ pc = "idle"
        /\ prefetch' = Prefetching(h, prefetch)
    BY <1>6 DEF ScanFetch, ReadyToScan
  <2>2. txIn.items = {}
    BY <2>1 DEF PipeInv, LoadInv
  <2>3. InTxs = {} /\ InTxs' = N
    BY <1>5, <2>1, <2>2 DEF InTxs, Scanned
  <2>4. \A i \in Heights : FetchedTxs(i)' = FetchedTxs(i)
    BY <1>1, <2>1, PrefetchingIs DEF FetchedTxs
  <2> QED
    BY <1>3, <1>4, <2>1, <2>3, <2>4
<1>7. CASE Prefetched(h, failed)
  <2>1. UNCHANGED txIn /\ prefetch[h].state = "pending"
    BY <1>7 DEF Prefetched
  <2>2. prefetch[h].in.items = {}
    BY <1>1, <2>1 DEF Entries, EntryOK
  <2>3. InTxs' = InTxs /\ FetchedTxs(h) = {}
    BY <1>5, <2>1, <2>2 DEF InTxs, FetchedTxs
  <2>4. CASE FetchTxs(h, failed)
             /\ prefetch' = [prefetch EXCEPT ![h] = Entry("ready", Result(h, failed))]
    <3>1. /\ prefetch'[h] = Entry("ready", Result(h, failed))
          /\ \A i \in Heights : i # h => prefetch'[i] = prefetch[i]
      BY <1>1, <2>4
    <3>2. prefetch'[h].in = Result(h, failed)
      BY <3>1 DEF Entry
    <3>3. FetchedTxs(h)' = N /\ \A i \in Heights : i # h => FetchedTxs(i)' = FetchedTxs(i)
      BY <3>1, <3>2 DEF FetchedTxs
    <3> QED
      BY <1>3, <1>4, <2>3, <2>4, <3>3
  <2>5. CASE prefetch' = [prefetch EXCEPT ![h] = Entry("error", Empty)] /\ UNCHANGED clientVars
    <3>1. /\ prefetch'[h] = Entry("error", Empty) /\ UNCHANGED tracked
          /\ \A i \in Heights : i # h => prefetch'[i] = prefetch[i]
      BY <1>1, <2>5 DEF clientVars
    <3>2. prefetch'[h].in.items = {}
      BY <3>1 DEF Entry, Empty
    <3>3. FetchedTxs(h)' = {} /\ \A i \in Heights : i # h => FetchedTxs(i)' = FetchedTxs(i)
      BY <1>5, <3>1, <3>2 DEF FetchedTxs
    <3>4. tracked' = tracked \cup {} /\ {} \in SUBSET Txs
      BY <3>1
    <3> QED
      BY <2>3, <3>3, <3>4
  <2> QED
    BY <1>7, <2>4, <2>5 DEF Prefetched
<1> QED
  BY <1>6, <1>7 DEF Fetch

(* A scanned block takes its transactions out of its entry. *)
LEMMA ScanMoves ==
  ASSUME PipeInv, Scan
  PROVE  \/ \E h \in Heights :
              /\ InTxs = {} /\ InTxs' = FetchedTxs(h) /\ FetchedTxs(h)' = {}
              /\ \A i \in Heights : i # h => FetchedTxs(i)' = FetchedTxs(i)
         \/ UNCHANGED InTxs /\ \A i \in Heights : FetchedTxs(i)' = FetchedTxs(i)
<1>1. /\ ChainTypes /\ Entries(prefetch)
      /\ prefetch \in [Heights -> [state : EntryStates, in : TxIn]]
  BY DEF PipeInv, LoadInv, Entries
<1>2. TxsOf({}) = {} /\ NoEntry.in.items = {}
  BY NoEntryIs, EmptyLoad DEF TxsOf
<1>3. ASSUME NEW h \in Heights, ScanPrefetched(h)
      PROVE  /\ InTxs = {} /\ InTxs' = FetchedTxs(h) /\ FetchedTxs(h)' = {}
             /\ \A i \in Heights : i # h => FetchedTxs(i)' = FetchedTxs(i)
  <2> DEFINE f == [prefetch EXCEPT ![h] = NoEntry]
  <2>1. Scanned(h, prefetch[h].in) /\ prefetch' = Prefetching(h, f) /\ pc = "idle"
    BY <1>3 DEF ScanPrefetched, ReadyToScan
  <2>2. Entries(f) /\ \A i \in Heights : f[i] = IF i = h THEN NoEntry ELSE prefetch[i]
    BY <1>1, NoEntryOK, EntrySet
  <2> HIDE DEF f
  <2>3. \A i \in Heights : prefetch'[i].in.items = f[i].in.items
    BY <1>1, <2>1, <2>2, PrefetchingIs
  <2>4. txIn.items = {} /\ txIn' = prefetch[h].in
    BY <2>1 DEF PipeInv, LoadInv, Scanned
  <2> QED
    BY <1>2, <2>2, <2>3, <2>4 DEF InTxs, FetchedTxs
<1>4. ASSUME NEW h \in Heights, ScanPrefetchError(h)
      PROVE  UNCHANGED InTxs /\ \A i \in Heights : FetchedTxs(i)' = FetchedTxs(i)
  <2>1. UNCHANGED txIn /\ prefetch' = [prefetch EXCEPT ![h] = NoEntry]
        /\ prefetch[h].state = "error"
    BY <1>4 DEF ScanPrefetchError, ErrorRemoved
  <2>2. \A i \in Heights : prefetch'[i] = IF i = h THEN NoEntry ELSE prefetch[i]
    BY <1>1, <2>1, NoEntryOK, EntrySet
  <2>3. prefetch[h].in.items = {}
    BY <1>1, <2>1 DEF Entries, EntryOK
  <2> QED
    BY <1>2, <2>1, <2>2, <2>3 DEF InTxs, FetchedTxs
<1>5. ASSUME SetScanPos \/ Rollback
      PROVE  UNCHANGED InTxs /\ \A i \in Heights : FetchedTxs(i)' = FetchedTxs(i)
  BY <1>5 DEF SetScanPos, Rollback, PrefetchKept, InTxs, FetchedTxs
<1> QED
  BY <1>3, <1>4, <1>5 DEF Scan

(* The steps that leave the scanner's side of the pipeline alone. *)
LEMMA DeckSideOnly ==
  ASSUME \/ Chain \/ SendDeckStatus \/ SendDeck \/ ProcessErrataTx \/ Churn \/ UNCHANGED vars
         \/ \E w \in work : ProcessObservedTx(w)
         \/ \E a \in attested : \E x \in deck[a.key] : HandleObservedTxCommitted(a, x)
  PROVE  UNCHANGED <<InTxs, prefetch>> /\ \A h \in Heights : FetchedTxs(h)' = FetchedTxs(h)
<1>1. UNCHANGED <<txIn, prefetch>>
  BY DEF Chain, SendDeckStatus, SendDeck, ProcessErrataTx, Churn, vars,
         ProcessObservedTx, HandleObservedTxCommitted, scannerVars
<1> QED
  BY <1>1 DEF InTxs, FetchedTxs

LEMMA RestartMoves ==
  ASSUME Restart
  PROVE  /\ InTxs' = {} /\ \A h \in Heights : FetchedTxs(h)' = {}
         /\ work' = {} /\ deck' = store /\ UNCHANGED <<tracked, store, final>>
         /\ lost \subseteq lost'
         /\ \A tx : OnTheWay(tx) => OnTheWay(tx)'
<1>1. /\ txIn' = Empty /\ prefetch' = [h \in Heights |-> NoEntry]
      /\ work' = {} /\ deck' = store /\ UNCHANGED <<tracked, store, final>>
      /\ lost' = lost \cup TxsOf(txIn.items) \cup Prefetches \cup InWork
                   \cup (OnDeck \ UNION {TxsOf(store[k]) : k \in Keys})
  BY DEF Restart, ScannerRestart
<1>2. TxsOf({}) = {} /\ Empty.items = {} /\ NoEntry.in.items = {}
  BY DEF TxsOf, Empty, NoEntry, Entry
<1>3. InTxs' = {} /\ \A h \in Heights : FetchedTxs(h)' = {}
  BY <1>1, <1>2 DEF InTxs, FetchedTxs
<1>4. ASSUME NEW tx, OnTheWay(tx)
      PROVE  OnTheWay(tx)'
  <2>1. CASE tx \in InTxs \/ \E h \in Heights : tx \in FetchedTxs(h)
    <3>1. tx \in TxsOf(txIn.items) \/ tx \in Prefetches
      BY <2>1 DEF InTxs, FetchedTxs, Prefetches
    <3> QED
      BY <1>1, <3>1 DEF OnTheWay
  <2>2. CASE \E w \in work : tx \in TxsOf(w.items)
    <3>1. tx \in InWork
      BY <2>2 DEF InWork
    <3> QED
      BY <1>1, <3>1 DEF OnTheWay
  <2>3. CASE \E k \in Keys : tx \in TxsOf(deck[k])
    <3>1. tx \in OnDeck
      BY <2>3 DEF OnDeck
    <3>2. CASE \E k \in Keys : tx \in TxsOf(store[k])
      <4>1. \E k \in Keys : tx \in TxsOf(deck'[k])
        BY <1>1, <3>2
      <4>2. \E k \in Keys : tx \in TxsOf(deck[k])'
        BY <4>1 DEF TxsOf
      <4> QED
        BY <4>2 DEF OnTheWay
    <3>3. CASE ~ \E k \in Keys : tx \in TxsOf(store[k])
      <4>1. tx \in lost'
        BY <1>1, <3>1, <3>3
      <4> QED
        BY <4>1 DEF OnTheWay
    <3> QED
      BY <3>2, <3>3
  <2>4. CASE tx \in final \/ tx \in lost
    BY <1>1, <2>4 DEF OnTheWay
  <2> QED
    BY <1>4, <2>1, <2>2, <2>3, <2>4 DEF OnTheWay
<1> QED
  BY <1>1, <1>3, <1>4

LEMMA DroppedStep ==
  ASSUME PipeInv, NothingDropped, [Next]_vars
  PROVE  NothingDropped'
<1>1. \A tx \in tracked : OnTheWay(tx)
  BY NothingDroppedIs
<1>2. DeckTypes /\ LoadInv
  BY DEF PipeInv
<1>3. SUFFICES \A tx \in tracked' : OnTheWay(tx)'
  BY NothingDroppedIs
<1>4. \A k : TxsOf(deck[k])' = TxsOf(deck'[k])
  BY DEF TxsOf
<1>5. ASSUME UNCHANGED <<tracked, InTxs, work, deck, final, lost>>,
             \A h \in Heights : FetchedTxs(h)' = FetchedTxs(h)
      PROVE  \A tx \in tracked' : OnTheWay(tx)'
  BY <1>1, <1>5 DEF OnTheWay, TxsOf
<1>6. ASSUME NEW h \in Heights, NEW failed \in SUBSET Heights, Fetch(h, failed)
      PROVE  \A tx \in tracked' : OnTheWay(tx)'
  <2>1. UNCHANGED <<work, deck, final, lost>>
    BY <1>6 DEF Fetch, deckVars
  <2>2. PICK N \in SUBSET Txs :
           /\ N \cap tracked = {} /\ tracked' = tracked \cup N
           /\ \/ /\ InTxs' = N /\ InTxs = {}
                 /\ \A i \in Heights : FetchedTxs(i)' = FetchedTxs(i)
              \/ /\ UNCHANGED InTxs /\ FetchedTxs(h) = {} /\ FetchedTxs(h)' = N
                 /\ \A i \in Heights : i # h => FetchedTxs(i)' = FetchedTxs(i)
    BY <1>6, FetchMoves
  <2>3. \A tx \in N : OnTheWay(tx)'
    BY <2>2 DEF OnTheWay
  <2>4. \A tx \in tracked : OnTheWay(tx)'
    BY <1>1, <1>4, <2>1, <2>2 DEF OnTheWay
  <2> QED
    BY <2>2, <2>3, <2>4
<1>7. CASE Scan
  <2>1. UNCHANGED <<tracked, work, deck, final, lost>>
    BY <1>7, ScanLoads DEF Scan, deckVars, historyVars
  <2>2. ASSUME NEW h \in Heights, InTxs = {}, InTxs' = FetchedTxs(h),
               \A i \in Heights : i # h => FetchedTxs(i)' = FetchedTxs(i)
        PROVE  \A tx \in tracked' : OnTheWay(tx)'
    BY <1>1, <1>4, <2>1, <2>2 DEF OnTheWay
  <2> QED
    BY <1>5, <1>7, <2>1, <2>2, ScanMoves
<1>8. CASE ProcessTxIns
  <2>1. UNCHANGED <<tracked, deck, final>> /\ lost \subseteq lost' /\ work \subseteq work'
    BY <1>8 DEF ProcessTxIns, Sent, clientVars
  <2>2. UNCHANGED prefetch
    BY <1>8 DEF ProcessTxIns, Sent
  <2>3. \A i \in Heights : FetchedTxs(i)' = FetchedTxs(i)
    BY <2>2 DEF FetchedTxs
  <2>4. txIn.items = {} \/ InTxs \subseteq lost' \/ txIn \in work'
    BY <1>8 DEF ProcessTxIns, InTxs
  <2>5. \A tx \in InTxs : OnTheWay(tx)'
    <3>1. txIn.items = {} => InTxs = {}
      BY DEF InTxs, TxsOf
    <3> QED
      BY <2>4, <3>1 DEF OnTheWay, InTxs, TxsOf
  <2> QED
    BY <1>1, <1>4, <2>1, <2>3, <2>5 DEF OnTheWay
<1>9. ASSUME NEW w \in work, ProcessObservedTx(w)
      PROVE  \A tx \in tracked' : OnTheWay(tx)'
  <2> DEFINE k == w.first + Conf
             new == Merged(deck[k], w.items)
  <2>1. k \in Keys /\ Load(w) /\ deck[k] \in SUBSET DeckItem
    BY <1>2, WorkKey DEF DeckTypes
  <2>2. deck' = [deck EXCEPT ![k] = new] /\ work' = work \ {w} /\ UNCHANGED <<tracked, final, lost>>
    BY <1>9, ProcessObservedTxIs DEF historyVars, clientVars
  <2>3. TxsOf(new) = TxsOf(deck[k]) \cup TxsOf(w.items)
    BY <2>1, MergedIs
  <2> HIDE DEF k, new
  <2>4. deck'[k] = new /\ \A j \in Keys : j # k => deck'[j] = deck[j]
    BY <1>2, <2>1, <2>2 DEF DeckTypes
  <2>5. UNCHANGED InTxs /\ \A i \in Heights : FetchedTxs(i)' = FetchedTxs(i)
    BY <1>9, DeckSideOnly
  <2>6. ASSUME NEW tx, tx \in TxsOf(w.items) \/ \E j \in Keys : tx \in TxsOf(deck[j])
        PROVE  \E j \in Keys : tx \in TxsOf(deck'[j])
    BY <2>1, <2>3, <2>4, <2>6
  <2>7. ASSUME NEW tx \in tracked
        PROVE  OnTheWay(tx)'
    <3>1. CASE \E j \in Keys : tx \in TxsOf(deck'[j])
      BY <1>4, <3>1 DEF OnTheWay
    <3>2. CASE ~ \E j \in Keys : tx \in TxsOf(deck'[j])
      <4>1. tx \notin TxsOf(w.items) /\ ~ \E j \in Keys : tx \in TxsOf(deck[j])
        BY <2>6, <3>2
      <4>2. \A v \in work : tx \in TxsOf(v.items) => v \in work'
        BY <2>2, <4>1
      <4> QED
        BY <1>1, <2>2, <2>5, <4>1, <4>2 DEF OnTheWay
    <3> QED
      BY <3>1, <3>2
  <2> QED
    BY <2>2, <2>7
<1>10. CASE SendDeckStatus
  <2>1. UNCHANGED <<tracked, work, final, InTxs>>
        /\ \A i \in Heights : FetchedTxs(i)' = FetchedTxs(i)
    BY <1>10, DeckSideOnly DEF SendDeckStatus, clientVars
  <2>2. \/ UNCHANGED <<deck, lost>>
        \/ lost' = lost \cup OnDeck
    BY <1>10 DEF SendDeckStatus
  <2>3. \A k \in Keys : TxsOf(deck[k]) \subseteq OnDeck
    BY DEF OnDeck
  <2> QED
    BY <1>1, <1>4, <2>1, <2>2, <2>3 DEF OnTheWay
<1>11. ASSUME NEW a \in attested, NEW x \in deck[a.key], HandleObservedTxCommitted(a, x)
       PROVE  \A tx \in tracked' : OnTheWay(tx)'
  <2> DEFINE y == [x EXCEPT !.committed = TRUE]
             new == (deck[a.key] \ {x}) \cup IF a.final THEN {} ELSE {y}
  <2>1. a.key \in Keys /\ x \in DeckItem
    BY <1>2 DEF DeckTypes
  <2>2. y.tx = x.tx
    BY <2>1 DEF DeckItem
  <2>3. /\ deck' = [deck EXCEPT ![a.key] = new] /\ x.tx = a.tx
        /\ final' = (IF a.final THEN final \cup {a.tx} ELSE final)
        /\ tracked' = tracked \cup {x.tx} /\ UNCHANGED <<work, lost>>
    BY <1>11 DEF HandleObservedTxCommitted
  <2>4. UNCHANGED InTxs /\ \A i \in Heights : FetchedTxs(i)' = FetchedTxs(i)
    BY <1>11, DeckSideOnly
  <2>5. \A z \in deck[a.key] : (\E u \in new : u.tx = z.tx) \/ (z.tx = x.tx /\ a.final)
    BY <2>2
  <2> HIDE DEF new
  <2>6. deck'[a.key] = new /\ \A j \in Keys : j # a.key => deck'[j] = deck[j]
    BY <1>2, <2>1, <2>3 DEF DeckTypes
  <2>7. ASSUME NEW j \in Keys, NEW tx \in TxsOf(deck[j])
        PROVE  OnTheWay(tx)'
    <3>1. CASE j # a.key
      BY <1>4, <2>6, <2>7, <3>1 DEF OnTheWay
    <3>2. CASE j = a.key
      <4>1. PICK z \in deck[a.key] : z.tx = tx
        BY <3>2 DEF TxsOf
      <4>2. CASE \E u \in new : u.tx = tx
        <5>1. tx \in TxsOf(deck'[a.key])
          BY <2>6, <4>2 DEF TxsOf
        <5> QED
          BY <1>4, <2>1, <5>1 DEF OnTheWay
      <4>3. CASE tx = x.tx /\ a.final
        BY <2>3, <4>3 DEF OnTheWay
      <4> QED
        BY <2>5, <4>1, <4>2, <4>3
    <3> QED
      BY <3>1, <3>2
  <2>8. x.tx \in TxsOf(deck[a.key])
    BY DEF TxsOf
  <2>9. final \subseteq final'
    BY <2>3
  <2>10. \A tx \in tracked : OnTheWay(tx)'
    BY <1>1, <2>3, <2>4, <2>7, <2>9 DEF OnTheWay
  <2> QED
    BY <2>1, <2>3, <2>7, <2>8, <2>10
<1>12. CASE ProcessErrataTx
  <2>1. UNCHANGED <<tracked, work, final, InTxs>>
        /\ \A i \in Heights : FetchedTxs(i)' = FetchedTxs(i)
    BY <1>12, DeckSideOnly DEF ProcessErrataTx
  <2>2. CASE UNCHANGED <<deck, lost>>
    BY <1>5, <2>1, <2>2
  <2>3. ASSUME NEW k \in Keys, NEW x \in deck[k], deck' = [deck EXCEPT ![k] = @ \ {x}],
               lost' = lost \cup {x.tx}
        PROVE  \A tx \in tracked' : OnTheWay(tx)'
    <3>1. /\ deck'[k] = deck[k] \ {x} /\ \A j \in Keys : j # k => deck'[j] = deck[j]
      BY <1>2, <2>3 DEF DeckTypes
    <3>2. \A j \in Keys : \A tx \in TxsOf(deck[j]) : tx \in TxsOf(deck'[j]) \/ tx = x.tx
      BY <3>1 DEF TxsOf
    <3> QED
      BY <1>1, <1>4, <2>1, <2>3, <3>2 DEF OnTheWay
  <2> QED
    BY <1>12, <2>2, <2>3 DEF ProcessErrataTx
<1>13. CASE Crash \/ \E h \in Heights : FetchPanics(h)
  <2>1. Restart
    BY <1>13 DEF Crash, FetchPanics
  <2> QED
    BY <1>1, <2>1, RestartMoves
<1>14. CASE Chain \/ SendDeck \/ Churn \/ UNCHANGED vars
  <2>1. UNCHANGED <<tracked, work, deck, final, lost>>
    BY <1>14 DEF Chain, SendDeck, Churn, vars, deckVars, historyVars, clientVars
  <2> QED
    BY <1>5, <1>14, <2>1, DeckSideOnly
<1> QED
  BY <1>6, <1>7, <1>8, <1>9, <1>10, <1>11, <1>12, <1>13, <1>14 DEF Next

(* A transaction that was reported once is on its way until it is final: it *)
(* leaves the pipeline only through a restart, an inactive node or an       *)
(* errata, whatever the chain, the prefetches and the workers do.           *)
THEOREM NoTransactionIsDropped == Spec => []NothingDropped
<1>1. Init => NothingDropped
  BY DEF Init, ScannerInit, NothingDropped
<1>2. PipeInv /\ NothingDropped /\ [Next]_vars => PipeInv' /\ NothingDropped'
  BY PipeStep, DroppedStep
<1> QED
  BY <1>1, <1>2, InitPipe, PTL DEF Spec

-----------------------------------------------------------------------------
(* One item per transaction                                                *)

\* What is on a deck or in its storage: a restart reads the storage again.
Shelf(k) == TxsOf(deck[k]) \cup TxsOf(store[k])

\* The places where a transaction can be.
InPlace == <<"txIn", 0>>
FetchPlace(h) == <<"prefetch", h>>
WorkPlace(w) == <<"work", w>>
DeckPlace(k) == <<"deck", k>>

Places == {InPlace} \cup {FetchPlace(h) : h \in Heights}
            \cup {WorkPlace(w) : w \in TxIn} \cup {DeckPlace(k) : k \in Keys}

Holds(s) ==
  IF s[1] = "txIn" THEN InTxs
  ELSE IF s[1] = "prefetch" THEN FetchedTxs(s[2])
  ELSE IF s[1] = "work" THEN (IF s[2] \in work THEN TxsOf(s[2].items) ELSE {})
  ELSE Shelf(s[2])

Apart == \A s, r \in Places : Holds(s) \cap Holds(r) # {} => s = r

AllTracked == \A s \in Places : Holds(s) \subseteq tracked

OnePerDeck == \A k \in Keys : Single(deck[k]) /\ Single(store[k])

PlaceInv == Apart /\ AllTracked /\ OnePerDeck

LEMMA HoldsIs ==
  /\ Holds(InPlace) = InTxs
  /\ \A h : Holds(FetchPlace(h)) = FetchedTxs(h)
  /\ \A w : Holds(WorkPlace(w)) = IF w \in work THEN TxsOf(w.items) ELSE {}
  /\ \A k : Holds(DeckPlace(k)) = Shelf(k)
  /\ InPlace \in Places
  /\ \A h \in Heights : FetchPlace(h) \in Places
  /\ \A w \in TxIn : WorkPlace(w) \in Places
  /\ \A k \in Keys : DeckPlace(k) \in Places
  BY DEF Holds, InPlace, FetchPlace, WorkPlace, DeckPlace, Places

LEMMA HoldsNext ==
  /\ Holds(InPlace)' = InTxs'
  /\ \A h : Holds(FetchPlace(h))' = FetchedTxs(h)'
  /\ \A w : Holds(WorkPlace(w))' = IF w \in work' THEN TxsOf(w.items) ELSE {}
  /\ \A k : Holds(DeckPlace(k))' = Shelf(k)'
  BY DEF Holds, InPlace, FetchPlace, WorkPlace, DeckPlace, TxsOf

\* A step that brings the transactions N to place r, and takes them away from
\* every other one.
Gains(r, N) ==
  /\ \A s \in Places : s # r => Holds(s)' \subseteq Holds(s) \ N
  /\ Holds(r)' \subseteq Holds(r) \cup N

LEMMA GainsKeeps ==
  ASSUME Apart, AllTracked, NEW r \in Places, NEW N, Gains(r, N),
         N \subseteq tracked', tracked \subseteq tracked'
  PROVE  Apart' /\ AllTracked'
<1>1. ASSUME NEW s \in Places, NEW q \in Places, NEW tx, tx \in Holds(s)', tx \in Holds(q)'
      PROVE  s = q
  <2>1. CASE s # r /\ q # r
    BY <1>1, <2>1 DEF Gains, Apart
  <2>2. CASE s = r /\ q # r
    BY <1>1, <2>2 DEF Gains, Apart
  <2>3. CASE s # r /\ q = r
    BY <1>1, <2>3 DEF Gains, Apart
  <2> QED
    BY <2>1, <2>2, <2>3
<1>2. AllTracked'
  BY DEF AllTracked, Gains
<1> QED
  BY <1>1, <1>2 DEF Apart

(* The places are those of one of the four kinds. *)
LEMMA PlaceCases ==
  ASSUME NEW s \in Places
  PROVE  \/ s = InPlace
         \/ \E h \in Heights : s = FetchPlace(h)
         \/ \E w \in TxIn : s = WorkPlace(w)
         \/ \E k \in Keys : s = DeckPlace(k)
  BY DEF Places

LEMMA DifferentPlaces ==
  /\ \A h, w, k : /\ InPlace # FetchPlace(h) /\ InPlace # WorkPlace(w) /\ InPlace # DeckPlace(k)
                  /\ FetchPlace(h) # WorkPlace(w) /\ FetchPlace(h) # DeckPlace(k)
                  /\ WorkPlace(w) # DeckPlace(k)
  /\ \A h, i : FetchPlace(h) = FetchPlace(i) => h = i
  /\ \A w, v : WorkPlace(w) = WorkPlace(v) => w = v
  /\ \A k, l : DeckPlace(k) = DeckPlace(l) => k = l
  BY DEF InPlace, FetchPlace, WorkPlace, DeckPlace

\* No place gains anything.
Shrinks ==
  /\ InTxs' \subseteq InTxs
  /\ \A h \in Heights : FetchedTxs(h)' \subseteq FetchedTxs(h)
  /\ work' \subseteq work
  /\ \A k \in Keys : Shelf(k)' \subseteq Shelf(k)

LEMMA ShrinksKeeps ==
  ASSUME Apart, AllTracked, Shrinks, tracked \subseteq tracked'
  PROVE  Apart' /\ AllTracked'
<1>1. ASSUME NEW s \in Places
      PROVE  Holds(s)' \subseteq Holds(s)
  <2>1. CASE s = InPlace
    BY <2>1, HoldsIs, HoldsNext DEF Shrinks
  <2>2. CASE \E h \in Heights : s = FetchPlace(h)
    BY <2>2, HoldsIs, HoldsNext DEF Shrinks
  <2>3. CASE \E w \in TxIn : s = WorkPlace(w)
    BY <2>3, HoldsIs, HoldsNext DEF Shrinks
  <2>4. CASE \E k \in Keys : s = DeckPlace(k)
    BY <2>4, HoldsIs, HoldsNext DEF Shrinks
  <2> QED
    BY <2>1, <2>2, <2>3, <2>4, PlaceCases
<1>2. Gains(InPlace, {})
  BY <1>1, HoldsIs DEF Gains
<1> QED
  BY <1>2, HoldsIs, GainsKeeps

\* The transactions N go from place p to place r.
Moves(p, r, N) ==
  /\ N \subseteq Holds(p) /\ Holds(p)' \cap N = {}
  /\ \A s \in Places : s # r => Holds(s)' \subseteq Holds(s)
  /\ Holds(r)' \subseteq Holds(r) \cup N

LEMMA MovesKeeps ==
  ASSUME Apart, AllTracked, NEW p \in Places, NEW r \in Places, NEW N, Moves(p, r, N),
         tracked \subseteq tracked'
  PROVE  Apart' /\ AllTracked'
<1>1. ASSUME NEW s \in Places, s # r
      PROVE  Holds(s)' \subseteq Holds(s) \ N
  BY <1>1 DEF Moves, Apart
<1>2. Gains(r, N)
  BY <1>1 DEF Moves, Gains
<1>3. N \subseteq tracked'
  BY DEF Moves, AllTracked
<1> QED
  BY <1>2, <1>3, GainsKeeps

LEMMA FetchPlaces ==
  ASSUME PipeInv, PlaceInv, NEW h \in Heights, NEW failed \in SUBSET Heights, Fetch(h, failed)
  PROVE  Apart' /\ AllTracked'
<1>1. UNCHANGED <<work, deck, store>> /\ Apart /\ AllTracked
  BY DEF Fetch, deckVars, PlaceInv
<1>2. PICK N \in SUBSET Txs :
        /\ N \cap tracked = {} /\ tracked' = tracked \cup N
        /\ \/ /\ InTxs' = N /\ InTxs = {}
              /\ \A i \in Heights : FetchedTxs(i)' = FetchedTxs(i)
           \/ /\ UNCHANGED InTxs /\ FetchedTxs(h) = {} /\ FetchedTxs(h)' = N
              /\ \A i \in Heights : i # h => FetchedTxs(i)' = FetchedTxs(i)
  BY FetchMoves
<1>3. \A k : Shelf(k)' = Shelf(k)
  BY <1>1 DEF Shelf, TxsOf
<1>4. \A s \in Places : Holds(s) \ N = Holds(s)
  BY <1>1, <1>2 DEF AllTracked
<1>5. CASE /\ InTxs' = N /\ InTxs = {}
           /\ \A i \in Heights : FetchedTxs(i)' = FetchedTxs(i)
  <2>1. ASSUME NEW s \in Places, s # InPlace
        PROVE  Holds(s)' = Holds(s)
    BY <1>1, <1>3, <1>5, <2>1, PlaceCases, HoldsIs, HoldsNext
  <2>2. Gains(InPlace, N)
    BY <1>4, <1>5, <2>1, HoldsIs, HoldsNext DEF Gains
  <2> QED
    BY <1>1, <1>2, <2>2, HoldsIs, GainsKeeps
<1>6. CASE /\ UNCHANGED InTxs /\ FetchedTxs(h) = {} /\ FetchedTxs(h)' = N
           /\ \A i \in Heights : i # h => FetchedTxs(i)' = FetchedTxs(i)
  <2>1. ASSUME NEW s \in Places, s # FetchPlace(h)
        PROVE  Holds(s)' = Holds(s)
    BY <1>1, <1>3, <1>6, <2>1, PlaceCases, HoldsIs, HoldsNext
  <2>2. Gains(FetchPlace(h), N)
    BY <1>4, <1>6, <2>1, HoldsIs, HoldsNext DEF Gains
  <2> QED
    BY <1>1, <1>2, <2>2, HoldsIs, GainsKeeps
<1> QED
  BY <1>2, <1>5, <1>6

LEMMA ScanPlaces ==
  ASSUME PipeInv, PlaceInv, Scan
  PROVE  Apart' /\ AllTracked'
<1>1. UNCHANGED <<work, deck, store, tracked>> /\ Apart /\ AllTracked
  BY ScanLoads DEF Scan, deckVars, PlaceInv
<1>2. \A k : Shelf(k)' = Shelf(k)
  BY <1>1 DEF Shelf, TxsOf
<1>3. ASSUME NEW h \in Heights, InTxs = {}, InTxs' = FetchedTxs(h), FetchedTxs(h)' = {},
             \A i \in Heights : i # h => FetchedTxs(i)' = FetchedTxs(i)
      PROVE  Apart' /\ AllTracked'
  <2>1. ASSUME NEW s \in Places, s # InPlace
        PROVE  Holds(s)' \subseteq Holds(s)
    BY <1>1, <1>2, <1>3, <2>1, PlaceCases, HoldsIs, HoldsNext
  <2>2. Moves(FetchPlace(h), InPlace, FetchedTxs(h))
    BY <1>3, <2>1, HoldsIs, HoldsNext DEF Moves
  <2> QED
    BY <1>1, <2>2, HoldsIs, MovesKeeps
<1>4. ASSUME UNCHANGED InTxs, \A i \in Heights : FetchedTxs(i)' = FetchedTxs(i)
      PROVE  Apart' /\ AllTracked'
  BY <1>1, <1>2, <1>4, ShrinksKeeps DEF Shrinks
<1> QED
  BY <1>3, <1>4, ScanMoves

LEMMA ProcessTxInsPlaces ==
  ASSUME PipeInv, PlaceInv, ProcessTxIns
  PROVE  Apart' /\ AllTracked'
<1>1. /\ UNCHANGED <<prefetch, deck, store, tracked>> /\ Apart /\ AllTracked
      /\ txIn' = Empty /\ txIn \in TxIn
  BY DEF ProcessTxIns, Sent, clientVars, PlaceInv, PipeInv, LoadInv, Load
<1>2. InTxs' = {}
  BY <1>1 DEF InTxs, TxsOf, Empty
<1>3. /\ \A k : Shelf(k)' = Shelf(k)
      /\ \A h : FetchedTxs(h)' = FetchedTxs(h)
  BY <1>1 DEF Shelf, FetchedTxs, TxsOf
<1>4. CASE work' = work
  BY <1>1, <1>2, <1>3, <1>4, ShrinksKeeps DEF Shrinks
<1>5. CASE work' = work \cup {txIn}
  <2>1. ASSUME NEW s \in Places, s # WorkPlace(txIn)
        PROVE  Holds(s)' \subseteq Holds(s)
    BY <1>2, <1>3, <1>5, <2>1, PlaceCases, HoldsIs, HoldsNext
  <2>2. Moves(InPlace, WorkPlace(txIn), InTxs)
    BY <1>2, <1>5, <2>1, HoldsIs, HoldsNext DEF Moves, InTxs
  <2> QED
    BY <1>1, <2>2, HoldsIs, MovesKeeps
<1> QED
  BY <1>4, <1>5 DEF ProcessTxIns

LEMMA ProcessObservedTxPlaces ==
  ASSUME PipeInv, PlaceInv, NEW w \in work, ProcessObservedTx(w)
  PROVE  PlaceInv'
<1> DEFINE k == w.first + Conf
           new == Merged(deck[k], w.items)
<1>1. k \in Keys /\ Load(w) /\ deck[k] \in SUBSET DeckItem /\ w \in TxIn
  BY WorkKey DEF PipeInv, DeckTypes, Load
<1>2. /\ deck' = [deck EXCEPT ![k] = new] /\ store' \in {store, [store EXCEPT ![k] = new]}
      /\ work' = work \ {w} /\ UNCHANGED tracked
  BY ProcessObservedTxIs DEF clientVars
<1>3. /\ TxsOf(new) = TxsOf(deck[k]) \cup TxsOf(w.items)
      /\ \A x \in new : x \in deck[k] \/ \E y \in w.items :
                          x = [tx |-> y.tx, height |-> y.height, committed |-> FALSE]
  BY <1>1, MergedIs
<1> HIDE DEF k, new
<1>4. /\ deck'[k] = new /\ \A j \in Keys : j # k => deck'[j] = deck[j]
      /\ store'[k] \in {store[k], new} /\ \A j \in Keys : j # k => store'[j] = store[j]
  BY <1>1, <1>2 DEF PipeInv, DeckTypes
<1>5. UNCHANGED InTxs /\ \A i \in Heights : FetchedTxs(i)' = FetchedTxs(i)
  BY DeckSideOnly
<1>6. /\ Shelf(k)' \subseteq Shelf(k) \cup TxsOf(w.items)
      /\ \A j \in Keys : j # k => Shelf(j)' = Shelf(j)
  <2>1. \A j \in Keys : Shelf(j)' = TxsOf(deck'[j]) \cup TxsOf(store'[j])
    BY DEF Shelf, TxsOf
  <2> QED
    BY <1>1, <1>3, <1>4, <2>1 DEF Shelf
<1>7. ASSUME NEW s \in Places, s # DeckPlace(k)
      PROVE  Holds(s)' \subseteq Holds(s)
  BY <1>2, <1>5, <1>6, <1>7, PlaceCases, HoldsIs, HoldsNext
<1>8. Moves(WorkPlace(w), DeckPlace(k), TxsOf(w.items))
  BY <1>2, <1>6, <1>7, HoldsIs, HoldsNext DEF Moves
<1>9. Apart' /\ AllTracked'
  BY <1>1, <1>2, <1>8, HoldsIs, MovesKeeps DEF PlaceInv
<1>10. Single(new)
  <2>1. TxsOf(w.items) \cap TxsOf(deck[k]) = {}
    <3>1. Holds(WorkPlace(w)) = TxsOf(w.items) /\ TxsOf(deck[k]) \subseteq Holds(DeckPlace(k))
      BY HoldsIs DEF Shelf
    <3>2. WorkPlace(w) # DeckPlace(k)
      BY DifferentPlaces
    <3> QED
      BY <1>1, <3>1, <3>2, HoldsIs DEF PlaceInv, Apart
  <2>2. Single(w.items) /\ Single(deck[k])
    BY <1>1 DEF Load, PlaceInv, OnePerDeck
  <2>3. ASSUME NEW x \in new, NEW y \in new, x.tx = y.tx
        PROVE  x = y
    <3>1. CASE x \in deck[k] /\ y \in deck[k]
      BY <2>2, <2>3, <3>1 DEF Single
    <3>2. ASSUME NEW z, z \in w.items,
                 NEW u, u = [tx |-> z.tx, height |-> z.height, committed |-> FALSE]
          PROVE  u.tx \in TxsOf(w.items)
      BY <3>2 DEF TxsOf
    <3>3. CASE x \in deck[k] /\ y \notin deck[k]
      BY <1>3, <2>1, <2>3, <3>2, <3>3 DEF TxsOf
    <3>4. CASE x \notin deck[k] /\ y \in deck[k]
      BY <1>3, <2>1, <2>3, <3>2, <3>4 DEF TxsOf
    <3>5. CASE x \notin deck[k] /\ y \notin deck[k]
      <4>1. PICK z \in w.items : x = [tx |-> z.tx, height |-> z.height, committed |-> FALSE]
        BY <1>3, <3>5
      <4>2. PICK u \in w.items : y = [tx |-> u.tx, height |-> u.height, committed |-> FALSE]
        BY <1>3, <3>5
      <4>3. z = u
        BY <2>2, <2>3, <4>1, <4>2 DEF Single
      <4> QED
        BY <4>1, <4>2, <4>3
    <3> QED
      BY <3>1, <3>3, <3>4, <3>5
  <2> QED
    BY <2>3 DEF Single
<1>11. OnePerDeck'
  <2>1. \A j \in Keys : Single(deck'[j]) /\ Single(store'[j])
    BY <1>4, <1>10 DEF PlaceInv, OnePerDeck
  <2> QED
    BY <2>1 DEF OnePerDeck, Single
<1> QED
  BY <1>9, <1>11 DEF PlaceInv

\* The shelf at key k keeps transactions it had, each once.
KeepsShelf(k) ==
  /\ TxsOf(deck'[k]) \subseteq Shelf(k) /\ TxsOf(store'[k]) \subseteq Shelf(k)
  /\ Single(deck'[k]) /\ Single(store'[k])

LEMMA ShelfKeeps ==
  ASSUME PlaceInv, \A k \in Keys : KeepsShelf(k), tracked \subseteq tracked',
         InTxs' \subseteq InTxs, \A h \in Heights : FetchedTxs(h)' \subseteq FetchedTxs(h),
         work' \subseteq work
  PROVE  PlaceInv'
<1>1. \A k \in Keys : Shelf(k)' \subseteq Shelf(k)
  <2>1. \A k \in Keys : Shelf(k)' = TxsOf(deck'[k]) \cup TxsOf(store'[k])
    BY DEF Shelf, TxsOf
  <2> QED
    BY <2>1 DEF KeepsShelf
<1>2. Apart' /\ AllTracked'
  BY <1>1, ShrinksKeeps DEF Shrinks, PlaceInv
<1>3. OnePerDeck'
  BY DEF KeepsShelf, OnePerDeck, Single
<1> QED
  BY <1>2, <1>3 DEF PlaceInv

LEMMA SameShelf ==
  ASSUME PlaceInv, NEW k \in Keys, deck'[k] \subseteq deck[k],
         store'[k] = {} \/ store'[k] = store[k] \/ store'[k] = deck'[k]
  PROVE  KeepsShelf(k)
<1>1. TxsOf(deck'[k]) \subseteq Shelf(k) /\ TxsOf(store'[k]) \subseteq Shelf(k)
  BY DEF Shelf, TxsOf
<1>2. Single(deck'[k]) /\ Single(store'[k])
  BY DEF PlaceInv, OnePerDeck, Single
<1> QED
  BY <1>1, <1>2 DEF KeepsShelf

LEMMA CommittedPlaces ==
  ASSUME PipeInv, PlaceInv, NEW a \in attested, NEW x \in deck[a.key],
         HandleObservedTxCommitted(a, x)
  PROVE  PlaceInv'
<1> DEFINE y == [x EXCEPT !.committed = TRUE]
           new == (deck[a.key] \ {x}) \cup IF a.final THEN {} ELSE {y}
<1>1. DeckTypes /\ a.key \in Keys /\ x \in DeckItem
  BY DEF PipeInv, DeckTypes
<1>2. y.tx = x.tx
  BY <1>1 DEF DeckItem
<1>3. /\ deck' = [deck EXCEPT ![a.key] = new] /\ store' = [store EXCEPT ![a.key] = deck'[a.key]]
      /\ tracked' = tracked \cup {x.tx} /\ UNCHANGED work
  BY DEF HandleObservedTxCommitted, Stored
<1>4. Single(deck[a.key])
  BY <1>1 DEF PlaceInv, OnePerDeck
<1>5. Single(new)
  BY <1>2, <1>4 DEF Single
<1>6. TxsOf(new) \subseteq TxsOf(deck[a.key])
  BY <1>2 DEF TxsOf
<1> HIDE DEF new
<1>7. /\ deck'[a.key] = new /\ store'[a.key] = new
      /\ \A j \in Keys : j # a.key => deck'[j] = deck[j] /\ store'[j] = store[j]
  BY <1>1, <1>3 DEF DeckTypes
<1>8. ASSUME NEW j \in Keys
      PROVE  KeepsShelf(j)
  <2>1. CASE j = a.key
    BY <1>5, <1>6, <1>7, <2>1 DEF KeepsShelf, Shelf
  <2>2. CASE j # a.key
    BY <1>7, <2>2, SameShelf
  <2> QED
    BY <2>1, <2>2
<1> QED
  BY <1>3, <1>8, DeckSideOnly, ShelfKeeps

LEMMA ErrataPlaces ==
  ASSUME PipeInv, PlaceInv, ProcessErrataTx
  PROVE  PlaceInv'
<1>1. DeckTypes /\ UNCHANGED <<work, tracked>>
  BY DEF PipeInv, ProcessErrataTx
<1>2. ASSUME UNCHANGED <<deck, store>>, NEW k \in Keys
      PROVE  KeepsShelf(k)
  BY <1>2, SameShelf
<1>3. ASSUME NEW k \in Keys, NEW x \in deck[k], NEW h,
             deck' = [deck EXCEPT ![k] = @ \ {x}],
             store' = IF deck'[k] = {} THEN [store EXCEPT ![h] = {}]
                      ELSE [store EXCEPT ![k] = deck'[k]],
             NEW j \in Keys
      PROVE  KeepsShelf(j)
  <2>1. deck'[j] \subseteq deck[j]
    BY <1>1, <1>3 DEF DeckTypes
  <2>2. store'[j] = {} \/ store'[j] = store[j] \/ store'[j] = deck'[j]
    BY <1>1, <1>3 DEF DeckTypes
  <2> QED
    BY <2>1, <2>2, SameShelf
<1>4. \A k \in Keys : KeepsShelf(k)
  BY <1>2, <1>3 DEF ProcessErrataTx
<1> QED
  BY <1>1, <1>4, DeckSideOnly, ShelfKeeps

LEMMA PlaceStep ==
  ASSUME PipeInv, PlaceInv, [Next]_vars
  PROVE  PlaceInv'
<1>1. OnePerDeck
  BY DEF PlaceInv
<1>2. ASSUME UNCHANGED <<deck, store>>
      PROVE  OnePerDeck'
  BY <1>1, <1>2 DEF OnePerDeck, Single
<1>3. ASSUME NEW h \in Heights, NEW failed \in SUBSET Heights, Fetch(h, failed)
      PROVE  PlaceInv'
  BY <1>2, <1>3, FetchPlaces DEF Fetch, deckVars, PlaceInv
<1>4. CASE Scan
  BY <1>2, <1>4, ScanPlaces DEF Scan, deckVars, PlaceInv
<1>5. CASE ProcessTxIns
  BY <1>2, <1>5, ProcessTxInsPlaces DEF ProcessTxIns, PlaceInv
<1>6. CASE SendDeckStatus
  <2>1. UNCHANGED <<work, tracked>>
    BY <1>6 DEF SendDeckStatus, clientVars
  <2>2. \/ UNCHANGED <<deck, store>>
        \/ deck' = [k \in Keys |-> {}] /\ store' = deck'
    BY <1>6 DEF SendDeckStatus
  <2>3. \A k \in Keys : KeepsShelf(k)
    BY <2>2, SameShelf
  <2> QED
    BY <1>6, <2>1, <2>3, DeckSideOnly, ShelfKeeps
<1>7. CASE Crash \/ \E h \in Heights : FetchPanics(h)
  <2>1. Restart
    BY <1>7 DEF Crash, FetchPanics
  <2>2. /\ InTxs' = {} /\ \A h \in Heights : FetchedTxs(h)' = {}
        /\ work' = {} /\ deck' = store /\ UNCHANGED <<tracked, store>>
    BY <2>1, RestartMoves
  <2>3. \A k \in Keys : KeepsShelf(k)
    BY <1>1, <2>2 DEF KeepsShelf, Shelf, OnePerDeck
  <2> QED
    BY <2>2, <2>3, ShelfKeeps
<1>8. CASE Chain \/ SendDeck \/ Churn \/ UNCHANGED vars
  <2>1. UNCHANGED <<tracked, work, deck, store>>
    BY <1>8 DEF Chain, SendDeck, Churn, vars, deckVars, clientVars
  <2>2. \A k \in Keys : KeepsShelf(k)
    BY <2>1, SameShelf
  <2> QED
    BY <1>8, <2>1, <2>2, DeckSideOnly, ShelfKeeps
<1> QED
  BY <1>3, <1>4, <1>5, <1>6, <1>7, <1>8, ProcessObservedTxPlaces, CommittedPlaces,
     ErrataPlaces DEF Next

LEMMA InitPlaces == Init => PlaceInv
<1> SUFFICES ASSUME Init
             PROVE  PlaceInv
  OBVIOUS
<1>1. TxsOf({}) = {} /\ Empty.items = {} /\ NoEntry.in.items = {}
  BY DEF TxsOf, Empty, NoEntry, Entry
<1>2. InTxs = {} /\ \A h \in Heights : FetchedTxs(h) = {}
  BY <1>1 DEF InTxs, FetchedTxs, Init, ScannerInit
<1>3. \A k \in Keys : deck[k] = {} /\ store[k] = {}
  BY DEF Init
<1>4. \A k \in Keys : Shelf(k) = {}
  BY <1>1, <1>3 DEF Shelf
<1>5. work = {}
  BY DEF Init
<1>6. \A s \in Places : Holds(s) = {}
  BY <1>2, <1>4, <1>5, PlaceCases, HoldsIs
<1>7. OnePerDeck
  BY <1>3 DEF OnePerDeck, Single
<1> QED
  BY <1>6, <1>7 DEF PlaceInv, Apart, AllTracked

(* A set any two elements of which are equal has at most one. *)
LEMMA AtMostOne ==
  ASSUME NEW S, \A x, y \in S : x = y
  PROVE  Cardinality(S) \in Nat /\ Cardinality(S) <= 1 /\ (S = {} => Cardinality(S) = 0)
<1>1. CASE S = {}
  BY <1>1, FS_EmptySet
<1>2. CASE S # {}
  <2>1. PICK x \in S : TRUE
    BY <1>2
  <2>2. S = {x}
    BY <2>1
  <2> QED
    BY <1>2, <2>2, FS_Singleton
<1> QED
  BY <1>1, <1>2

LEMMA PlacesAreOne == PipeInv /\ PlaceInv => OneItemPerTx
<1> SUFFICES ASSUME PipeInv, PlaceInv, NEW tx \in Txs
             PROVE  Cardinality({x \in Keys \X DeckItem : x[2] \in deck[x[1]] /\ x[2].tx = tx})
                      + Cardinality({w \in work : tx \in TxsOf(w.items)}) <= 1
  BY DEF OneItemPerTx
<1> DEFINE D == {x \in Keys \X DeckItem : x[2] \in deck[x[1]] /\ x[2].tx = tx}
           W == {w \in work : tx \in TxsOf(w.items)}
<1>1. Apart /\ OnePerDeck /\ \A w \in work : w \in TxIn
  BY DEF PlaceInv, PipeInv, LoadInv, Load
<1>2. \A x \in D : /\ x = <<x[1], x[2]>> /\ x[1] \in Keys /\ x[2] \in deck[x[1]] /\ x[2].tx = tx
                   /\ tx \in Holds(DeckPlace(x[1])) /\ DeckPlace(x[1]) \in Places
  BY HoldsIs DEF Shelf, TxsOf
<1>3. \A w \in W : w \in work /\ tx \in Holds(WorkPlace(w)) /\ WorkPlace(w) \in Places
  BY <1>1, HoldsIs
<1> HIDE DEF D, W
<1>4. \A x, y \in D : x = y
  <2>1. SUFFICES ASSUME NEW x \in D, NEW y \in D
                 PROVE  x = y
    OBVIOUS
  <2>2. DeckPlace(x[1]) = DeckPlace(y[1])
    BY <1>1, <1>2 DEF Apart
  <2>3. x[1] = y[1]
    BY <2>2, DifferentPlaces
  <2>4. x[2] = y[2]
    BY <1>1, <1>2, <2>3 DEF OnePerDeck, Single
  <2> QED
    BY <1>2, <2>3, <2>4
<1>5. \A w, v \in W : w = v
  BY <1>1, <1>3, DifferentPlaces DEF Apart
<1>6. D = {} \/ W = {}
  BY <1>1, <1>2, <1>3, DifferentPlaces DEF Apart
<1>7. Cardinality(D) + Cardinality(W) <= 1
  BY <1>4, <1>5, <1>6, AtMostOne
<1> QED
  BY <1>7 DEF D, W

(* A transaction reaches the observer once: it is in one deck or with one   *)
(* worker, whatever the reorganisations, rollbacks, prefetches and          *)
(* restarts; a deck that a restart reads from the storage holds nothing the *)
(* scanner reports again.                                                   *)
THEOREM TransactionIsObservedOnce == Spec => []OneItemPerTx
<1>1. PipeInv /\ PlaceInv /\ [Next]_vars => PipeInv' /\ PlaceInv'
  BY PipeStep, PlaceStep
<1> QED
  BY <1>1, InitPipe, InitPlaces, PlacesAreOne, PTL DEF Spec

-----------------------------------------------------------------------------
(* A reorganisation is followed all the way down                           *)

\* No reorganisation is deeper than the blocks that are scanned again.
DeepRescan == MaxHeight <= MaxReorgRescanBlocks + 1

Metas == [v : -1 .. MaxReorgs, customers : SUBSET Txs]

\* A meta is of a block of the chain or of one that was there before.
MetaInv ==
  /\ meta \in [Heights -> Metas]
  /\ \A h \in Heights : /\ meta[h].v <= reorgs
                        /\ meta[h].v >= 0 => h \in DOMAIN chain
                        /\ meta[h].v < 0 => meta[h] = NoMeta
  /\ \A i \in DOMAIN chain : chain[i].v <= reorgs

\* The blocks of the items have a meta.
Met(items) == \A x \in items : x.height \in Heights /\ meta[x.height].v >= 0

MetInv ==
  /\ Met(txIn.items)
  /\ \A h \in Heights : Met(prefetch[h].in.items)
  /\ \A w \in work : Met(w.items)
  /\ \A k \in Keys : Met(deck[k]) /\ Met(store[k])

RecordInv == MetaInv /\ MetInv /\ RecordedIsKnown

MetaGrows == \A h \in Heights : meta[h].v >= 0 => meta'[h].v >= 0

\* The hashes of the blocks at heights C are recorded.
Records(C) ==
  /\ meta' \in [Heights -> Metas]
  /\ \A i \in C : meta'[i].v = chain[i].v
  /\ \A i \in Heights \ C : meta'[i] = meta[i]

LEMMA NoMetaIs == NoMeta.v = -1
  BY DEF NoMeta

LEMMA ConfirmedIs ==
  ASSUME ChainTypes, MetaInv, NEW h \in DOMAIN chain
  PROVE  /\ ConfirmedMeta(h) \in [Heights -> Metas]
         /\ \A i \in ReConfirmed(h) : ConfirmedMeta(h)[i].v = chain[i].v
         /\ \A i \in Heights \ ReConfirmed(h) : ConfirmedMeta(h)[i] = meta[i]
<1>1. ReConfirmed(h) \subseteq DOMAIN chain /\ DOMAIN chain \subseteq Heights
  BY ReConfirmedIs, ChainIs
<1>2. ASSUME NEW i \in ReConfirmed(h)
      PROVE  [v |-> chain[i].v, customers |-> meta[i].customers \ Gone(i)] \in Metas
  <2>1. chain[i] \in Block /\ meta[i] \in Metas
    BY <1>1, ChainIs DEF MetaInv
  <2> QED
    BY <2>1, ScannerAssumption DEF Block, Metas
<1>3. \A i \in Heights : meta[i] \in Metas
  BY DEF MetaInv
<1> QED
  BY <1>1, <1>2, <1>3 DEF ConfirmedMeta

LEMMA FetchRecords ==
  ASSUME ChainTypes, MetaInv, NEW h \in DOMAIN chain,
         meta' = [ConfirmedMeta(h) EXCEPT ![h].v = chain[h].v]
  PROVE  Records(ReConfirmed(h) \cup {h})
<1>1. h \in Heights /\ h \notin ReConfirmed(h) /\ chain[h] \in Block
  BY ReConfirmedIs, ChainIs
<1>2. /\ ConfirmedMeta(h) \in [Heights -> Metas]
      /\ \A i \in ReConfirmed(h) : ConfirmedMeta(h)[i].v = chain[i].v
      /\ \A i \in Heights \ ReConfirmed(h) : ConfirmedMeta(h)[i] = meta[i]
  BY ConfirmedIs
<1> DEFINE m == ConfirmedMeta(h)
           b == [m[h] EXCEPT !.v = chain[h].v]
<1>3. b.v = chain[h].v /\ b \in Metas
  <2>1. m[h] \in Metas /\ chain[h].v \in -1 .. MaxReorgs
    BY <1>1, <1>2, ScannerAssumption DEF Block
  <2> HIDE DEF m
  <2> QED
    BY <2>1 DEF Metas
<1>4. meta' = [m EXCEPT ![h] = b]
  OBVIOUS
<1> HIDE DEF m, b
<1>5. /\ meta' \in [Heights -> Metas] /\ meta'[h] = b
      /\ \A i \in Heights : i # h => meta'[i] = m[i]
  BY <1>1, <1>2, <1>3, <1>4 DEF m
<1>6. ReConfirmed(h) \subseteq Heights
  BY ReConfirmedIs, ChainIs
<1> QED
  BY <1>1, <1>2, <1>3, <1>5, <1>6 DEF Records, m

LEMMA RecordsMeta ==
  ASSUME ChainTypes, MetaInv, NEW C \in SUBSET DOMAIN chain, Records(C), UNCHANGED chainVars
  PROVE  MetaInv' /\ MetaGrows
<1>1. UNCHANGED <<chain, reorgs>> /\ DOMAIN chain \subseteq Heights
  BY ChainIs DEF chainVars
<1>2. \A i \in DOMAIN chain : chain[i].v \in Nat /\ chain[i].v <= reorgs
  BY ChainIs DEF Block, MetaInv
<1>3. ASSUME NEW h \in Heights
      PROVE  /\ meta'[h].v <= reorgs
             /\ meta'[h].v >= 0 => h \in DOMAIN chain
             /\ meta'[h].v < 0 => meta'[h] = NoMeta
             /\ meta[h].v >= 0 => meta'[h].v >= 0
  <2>1. CASE h \in C
    BY <1>2, <2>1 DEF Records
  <2>2. CASE h \notin C
    BY <2>2 DEF Records, MetaInv
  <2> QED
    BY <2>1, <2>2
<1> QED
  BY <1>1, <1>2, <1>3 DEF MetaInv, MetaGrows, Records

(* Below the lowest block that was confirmed again, the hash is the chain's *)
(* or the block was never scanned.                                          *)
LEMMA StopsAtKnown ==
  ASSUME ChainTypes, DeepRescan, NEW h \in DOMAIN chain, NEW j \in DOMAIN chain,
         j \in ReConfirmed(h) \cup {h}, j > 1, j - 1 \notin ReConfirmed(h)
  PROVE  meta[j - 1] = NoMeta \/ meta[j - 1].v = chain[j - 1].v
<1>1. Earliest(h) = 1 /\ h \in Nat /\ j \in Nat
  BY ChainIs, ScannerAssumption DEF Earliest, DeepRescan, ChainTypes
<1>2. j <= h /\ \A k \in j .. h - 1 : Differs(k)
  BY <1>1 DEF ReConfirmed
<1>3. SUFFICES ASSUME Differs(j - 1)
               PROVE  FALSE
  BY DEF Differs
<1>4. \A k \in j - 1 .. h - 1 : k = j - 1 \/ k \in j .. h - 1
  BY <1>1
<1>5. \A k \in j - 1 .. h - 1 : Differs(k)
  BY <1>2, <1>3, <1>4
<1>6. j - 1 \in Earliest(h) .. h - 1
  BY <1>1, <1>2
<1> QED
  BY <1>5, <1>6 DEF ReConfirmed

LEMMA RecordsKnown ==
  ASSUME ChainTypes, DeepRescan, RecordedIsKnown, UNCHANGED chain,
         NEW h \in DOMAIN chain, NEW C \in {ReConfirmed(h), ReConfirmed(h) \cup {h}}, Records(C),
         unscanned \subseteq unscanned', tracked \subseteq tracked',
         \A i \in C : i \notin unscanned' => chain[i].txs \subseteq tracked'
  PROVE  RecordedIsKnown'
<1>1. C \subseteq DOMAIN chain /\ DOMAIN chain \subseteq Heights
  BY ReConfirmedIs, ChainIs
<1>2. ASSUME NEW j \in DOMAIN chain, meta'[j].v = chain[j].v
      PROVE  /\ j > 1 /\ meta'[j - 1] # NoMeta => meta'[j - 1].v = chain[j - 1].v
             /\ j \notin unscanned' => chain[j].txs \subseteq tracked'
  <2>1. ASSUME j > 1, meta'[j - 1] # NoMeta
        PROVE  meta'[j - 1].v = chain[j - 1].v
    <3>1. j - 1 \in Heights
      BY <2>1, ChainIs
    <3>2. CASE j - 1 \in C
      BY <3>2 DEF Records
    <3>3. CASE j - 1 \notin C
      <4>1. meta'[j - 1] = meta[j - 1]
        BY <3>1, <3>3 DEF Records
      <4>2. CASE j \in C
        BY <2>1, <3>3, <4>1, <4>2, StopsAtKnown
      <4>3. CASE j \notin C
        <5>1. meta'[j] = meta[j]
          BY <1>1, <4>3 DEF Records
        <5> QED
          BY <1>2, <2>1, <4>1, <5>1 DEF RecordedIsKnown
      <4> QED
        BY <4>2, <4>3
    <3> QED
      BY <3>2, <3>3
  <2>2. ASSUME j \notin unscanned'
        PROVE  chain[j].txs \subseteq tracked'
    <3>1. CASE j \in C
      BY <2>2, <3>1
    <3>2. CASE j \notin C
      <4>1. meta'[j] = meta[j] /\ j \notin unscanned
        BY <1>1, <2>2, <3>2 DEF Records
      <4> QED
        BY <1>2, <4>1 DEF RecordedIsKnown
    <3> QED
      BY <3>1, <3>2
  <2> QED
    BY <2>1, <2>2
<1> QED
  BY <1>2 DEF RecordedIsKnown

LEMMA MetLater ==
  ASSUME MetaGrows, NEW S, Met(S)
  PROVE  \A x \in S : x.height \in Heights /\ meta'[x.height].v >= 0
  BY DEF Met, MetaGrows

\* The items of a step are items there were before.
OldItems ==
  /\ txIn'.items = {} \/ txIn' = txIn
  /\ \A h \in Heights : prefetch'[h].in.items = {} \/ prefetch'[h] = prefetch[h]
  /\ work' \subseteq work
  /\ \A k \in Keys : /\ deck'[k] \in {{}, deck[k], store[k]}
                     /\ store'[k] \in {{}, store[k]}

LEMMA MetOld ==
  ASSUME MetInv, MetaGrows, OldItems
  PROVE  MetInv'
<1>1. \A S : Met(S) => Met(S)'
  BY DEF Met, MetaGrows
<1>2. ASSUME NEW S, \A x \in S : x.height \in Heights /\ meta'[x.height].v >= 0
      PROVE  Met(S)'
  BY <1>2 DEF Met
<1>3. Met(txIn.items)'
  BY MetLater DEF MetInv, OldItems, Met
<1>4. \A h \in Heights : Met(prefetch[h].in.items)'
  BY MetLater DEF MetInv, OldItems, Met
<1>5. \A w \in work' : Met(w.items)'
  BY <1>1 DEF MetInv, OldItems
<1>6. ASSUME NEW k \in Keys
      PROVE  Met(deck[k])' /\ Met(store[k])'
  <2>1. \A x \in deck[k] : x.height \in Heights /\ meta'[x.height].v >= 0
    BY MetLater DEF MetInv
  <2>2. \A x \in store[k] : x.height \in Heights /\ meta'[x.height].v >= 0
    BY MetLater DEF MetInv
  <2> QED
    BY <2>1, <2>2 DEF OldItems, Met
<1> QED
  BY <1>3, <1>4, <1>5, <1>6 DEF MetInv

LEMMA RecordedLater ==
  ASSUME RecordedIsKnown, UNCHANGED <<chain, meta>>, unscanned \subseteq unscanned',
         tracked \subseteq tracked'
  PROVE  RecordedIsKnown'
  BY DEF RecordedIsKnown

(* The step of a fetch. *)
LEMMA FetchStep ==
  ASSUME PipeInv, RecordInv, DeepRescan, NEW h \in Heights, NEW failed \in SUBSET Heights,
         Fetch(h, failed)
  PROVE  RecordInv'
<1>1. /\ ChainTypes /\ MinedOnce /\ MetaInv /\ MetInv /\ RecordedIsKnown /\ Entries(prefetch)
      /\ UNCHANGED <<chainVars, work, deck, store>> /\ unscanned' = unscanned \cup failed
  BY DEF PipeInv, RecordInv, Fetch, deckVars, LoadInv
<1>2. h \in DOMAIN chain
  <2>1. CASE ReadyToScan(h)
    BY <1>1, <2>1, ChainIs DEF ReadyToScan, Heights
  <2>2. CASE prefetch[h].state = "pending"
    BY <1>1, <2>2 DEF Entries, EntryOK
  <2> QED
    BY <2>1, <2>2 DEF Fetch, ScanFetch, Prefetched
<1>3. ASSUME FetchTxs(h, failed)
      PROVE  /\ MetaInv' /\ MetaGrows /\ RecordedIsKnown'
             /\ \A x \in Result(h, failed).items :
                  x.height \in Heights /\ meta'[x.height].v >= 0
  <2> DEFINE C == ReConfirmed(h) \cup {h}
             r == Result(h, failed)
  <2>1. C \subseteq DOMAIN chain
    BY <1>1, <1>2, ReConfirmedIs
  <2>2. Records(C)
    BY <1>1, <1>2, <1>3, FetchRecords DEF FetchTxs
  <2>3. MetaInv' /\ MetaGrows
    BY <1>1, <2>1, <2>2, RecordsMeta
  <2>4. tracked' = tracked \cup TxsOf(r.items)
    BY <1>3 DEF FetchTxs, TxsOf
  <2>5. ASSUME NEW i \in C, i \notin unscanned'
        PROVE  chain[i].txs \subseteq tracked'
    <3>1. i \in (ReConfirmed(h) \ failed) \cup {h}
      BY <1>1, <2>5
    <3>2. NewAt(i) \subseteq r.items
      BY <3>1 DEF Result
    <3>3. ASSUME NEW tx \in chain[i].txs \ tracked
          PROVE  tx \in TxsOf(r.items)
      <4>1. [tx |-> tx, height |-> i] \in NewAt(i)
        BY DEF NewAt
      <4>2. [tx |-> tx, height |-> i] \in r.items
        BY <3>2, <4>1
      <4>3. [tx |-> tx, height |-> i].tx = tx
        OBVIOUS
      <4> HIDE DEF r
      <4> QED
        BY <4>2, <4>3 DEF TxsOf
    <3> QED
      BY <2>4, <3>3
  <2>6. RecordedIsKnown'
    BY <1>1, <1>2, <2>2, <2>4, <2>5, RecordsKnown DEF chainVars
  <2>7. \A x \in r.items : x.height \in C
    BY <1>1, <1>2, ResultIs
  <2>8. \A i \in C : i \in Heights /\ meta'[i].v >= 0
    <3>1. \A i \in DOMAIN chain : i \in Heights /\ chain[i].v >= 0
      BY <1>1, ChainIs DEF Block
    <3> QED
      BY <2>1, <2>2, <3>1 DEF Records
  <2> HIDE DEF C
  <2>9. \A x \in r.items : x.height \in Heights /\ meta'[x.height].v >= 0
    BY <2>7, <2>8
  <2> QED
    BY <2>3, <2>6, <2>9
<1>4. ASSUME MetaGrows
      PROVE  /\ \A w \in work' : Met(w.items)'
             /\ \A k \in Keys : Met(deck[k])' /\ Met(store[k])'
  BY <1>1, <1>4 DEF MetInv, Met, MetaGrows
<1>5. CASE ScanFetch(h, failed)
  <2>1. /\ FetchTxs(h, failed) /\ Scanned(h, Result(h, failed))
        /\ prefetch' = Prefetching(h, prefetch)
    BY <1>5 DEF ScanFetch
  <2>2. \A i \in Heights : prefetch'[i].in.items = prefetch[i].in.items
    BY <1>1, <2>1, PrefetchingIs
  <2>3. \A i \in Heights : Met(prefetch[i].in.items)'
    BY <1>1, <1>3, <2>1, <2>2 DEF MetInv, Met, MetaGrows
  <2>4. Met(txIn.items)'
    BY <1>3, <2>1 DEF Scanned, Met
  <2> QED
    BY <1>3, <1>4, <2>1, <2>3, <2>4 DEF RecordInv, MetInv
<1>6. CASE Prefetched(h, failed)
  <2>1. UNCHANGED txIn /\ prefetch \in [Heights -> [state : EntryStates, in : TxIn]]
    BY <1>1, <1>6 DEF Prefetched, Entries
  <2>2. CASE FetchTxs(h, failed)
             /\ prefetch' = [prefetch EXCEPT ![h] = Entry("ready", Result(h, failed))]
    <3>1. /\ prefetch'[h] = Entry("ready", Result(h, failed))
          /\ \A i \in Heights : i # h => prefetch'[i] = prefetch[i]
      BY <2>1, <2>2
    <3>2. prefetch'[h].in = Result(h, failed)
      BY <3>1 DEF Entry
    <3>3. \A i \in Heights : Met(prefetch[i].in.items)'
      BY <1>1, <1>3, <2>2, <3>1, <3>2 DEF MetInv, Met, MetaGrows
    <3>4. Met(txIn.items)'
      BY <1>1, <1>3, <2>1, <2>2 DEF MetInv, Met, MetaGrows
    <3> QED
      BY <1>3, <1>4, <2>2, <3>3, <3>4 DEF RecordInv, MetInv
  <2>3. CASE prefetch' = [prefetch EXCEPT ![h] = Entry("error", Empty)] /\ UNCHANGED clientVars
    <3>1. /\ prefetch'[h] = Entry("error", Empty) /\ UNCHANGED <<meta, tracked>>
          /\ \A i \in Heights : i # h => prefetch'[i] = prefetch[i]
      BY <2>1, <2>3 DEF clientVars
    <3>2. prefetch'[h].in.items = {}
      BY <3>1 DEF Entry, Empty
    <3>3. MetaGrows /\ MetaInv'
      BY <1>1, <3>1 DEF MetaGrows, MetaInv, chainVars
    <3>4. OldItems
      BY <1>1, <2>1, <3>1, <3>2 DEF OldItems
    <3>5. RecordedIsKnown'
      BY <1>1, <3>1, RecordedLater DEF chainVars
    <3> QED
      BY <1>1, <3>3, <3>4, <3>5, MetOld DEF RecordInv
  <2> QED
    BY <1>6, <2>2, <2>3 DEF Prefetched
<1> QED
  BY <1>5, <1>6 DEF Fetch

(* A restart, after a panic of reConfirmTx or without one. *)
LEMMA RestartStep ==
  ASSUME PipeInv, RecordInv, DeepRescan, Crash \/ \E h \in Heights : FetchPanics(h)
  PROVE  RecordInv'
<1>1. /\ ChainTypes /\ MetaInv /\ MetInv /\ RecordedIsKnown /\ Entries(prefetch)
      /\ Restart
  BY DEF PipeInv, RecordInv, LoadInv, Crash, FetchPanics
<1>2. /\ txIn' = Empty /\ prefetch' = [h \in Heights |-> NoEntry]
      /\ work' = {} /\ deck' = store /\ UNCHANGED <<chainVars, tracked, store>>
  BY <1>1 DEF Restart, ScannerRestart
<1>3. OldItems
  BY <1>2, NoEntryIs, EmptyLoad DEF OldItems
<1>4. CASE Crash
  <2>1. UNCHANGED <<meta, unscanned>>
    BY <1>4 DEF Crash
  <2>2. MetaGrows /\ MetaInv'
    BY <1>1, <1>2, <2>1 DEF MetaGrows, MetaInv, chainVars
  <2>3. RecordedIsKnown'
    BY <1>1, <1>2, <2>1, RecordedLater DEF chainVars
  <2> QED
    BY <1>1, <1>3, <2>2, <2>3, MetOld DEF RecordInv
<1>5. ASSUME NEW h \in Heights, FetchPanics(h)
      PROVE  RecordInv'
  <2>1. h \in DOMAIN chain
    <3>1. CASE ReadyToScan(h)
      BY <1>1, <3>1, ChainIs DEF ReadyToScan, Heights
    <3>2. CASE prefetch[h].state = "pending"
      BY <1>1, <3>2 DEF Entries, EntryOK
    <3> QED
      BY <1>5, <3>1, <3>2 DEF FetchPanics
  <2>2. meta' = ConfirmedMeta(h) /\ unscanned' = unscanned \cup ReConfirmed(h)
    BY <1>5 DEF FetchPanics
  <2>3. Records(ReConfirmed(h)) /\ ReConfirmed(h) \subseteq DOMAIN chain
    BY <1>1, <2>1, <2>2, ConfirmedIs, ReConfirmedIs DEF Records
  <2>4. MetaInv' /\ MetaGrows
    BY <1>1, <1>2, <2>3, RecordsMeta
  <2>5. RecordedIsKnown'
    BY <1>1, <1>2, <2>1, <2>2, <2>3, RecordsKnown DEF chainVars
  <2> QED
    BY <1>1, <1>3, <2>4, <2>5, MetOld DEF RecordInv
<1> QED
  BY <1>4, <1>5

(* A new block has no meta, a replaced one another version. *)
LEMMA ChainRecord ==
  ASSUME PipeInv, RecordInv, Chain
  PROVE  RecordInv'
<1>1. /\ ChainTypes /\ MetaInv /\ MetInv /\ RecordedIsKnown
      /\ UNCHANGED <<clientVars, scannerVars, deckVars, historyVars>>
  BY DEF PipeInv, RecordInv, Chain
<1>2. UNCHANGED <<meta, tracked, unscanned, txIn, prefetch, work, deck, store>>
  BY <1>1 DEF clientVars, scannerVars, deckVars, historyVars
<1>3. MetInv'
  <2>1. MetaGrows /\ OldItems
    BY <1>2 DEF MetaGrows, OldItems
  <2> QED
    BY <1>1, <2>1, MetOld
<1>4. /\ DOMAIN chain = 1 .. Len(chain) /\ Len(chain) \in Nat /\ DOMAIN chain \subseteq Heights
      /\ \A i \in DOMAIN chain : chain[i] \in Block /\ chain[i].v \in Nat
  BY <1>1, ChainIs DEF Block
<1>5. reorgs \in Nat /\ \A h \in Heights : meta[h].v \in Int /\ meta[h] \in Metas
  BY <1>1 DEF ChainTypes, MetaInv, Metas
<1>6. ASSUME NEW S \in SUBSET pending, Mine(S)
      PROVE  MetaInv' /\ RecordedIsKnown'
  <2> DEFINE b == [v |-> reorgs, txs |-> S]
  <2>1. b \in Block /\ b.v = reorgs
    BY <1>1 DEF ChainTypes, Block
  <2>2. chain' = Append(chain, b) /\ reorgs' = reorgs
    BY <1>6 DEF Mine
  <2> HIDE DEF b
  <2>3. /\ Len(chain') = Len(chain) + 1 /\ chain' \in Seq(Block)
        /\ \A i \in 1 .. Len(chain) : chain'[i] = chain[i]
        /\ chain'[Len(chain) + 1] = b
    BY <1>1, <2>1, <2>2, AppendProperties DEF ChainTypes
  <2>4. DOMAIN chain' = 1 .. Len(chain) + 1
    BY <2>3, LenProperties
  <2>5. \A i \in DOMAIN chain' :
          \/ i \in DOMAIN chain /\ chain'[i] = chain[i]
          \/ i = Len(chain) + 1 /\ i \notin DOMAIN chain /\ chain'[i].v = reorgs
    BY <1>4, <2>1, <2>3, <2>4
  <2>6. MetaInv'
    <3>1. DOMAIN chain \subseteq DOMAIN chain'
      BY <1>4, <2>4
    <3>2. \A i \in DOMAIN chain' : chain'[i].v <= reorgs'
      BY <1>1, <1>5, <2>2, <2>5 DEF MetaInv
    <3> QED
      BY <1>1, <1>2, <2>2, <3>1, <3>2 DEF MetaInv
  <2>7. ASSUME NEW j \in DOMAIN chain', meta[j].v = chain'[j].v
        PROVE  j \in DOMAIN chain
    <3>1. SUFFICES ASSUME j \notin DOMAIN chain
                   PROVE  FALSE
      OBVIOUS
    <3>2. meta[j].v = reorgs
      BY <2>5, <2>7, <3>1
    <3>3. j \in Heights
      <4>1. Len(chain) < MaxHeight /\ MaxHeight \in Nat
        BY <1>6, ScannerAssumption DEF Mine
      <4> QED
        BY <1>4, <2>4, <4>1 DEF Heights
    <3> QED
      BY <1>1, <1>5, <3>1, <3>2, <3>3 DEF MetaInv
  <2>8. \A j \in DOMAIN chain : chain'[j] = chain[j] /\ (j > 1 => chain'[j - 1] = chain[j - 1])
    BY <1>4, <2>3
  <2>9. RecordedIsKnown'
    BY <1>1, <1>2, <2>7, <2>8 DEF RecordedIsKnown
  <2> QED
    BY <2>6, <2>9
<1>7. ASSUME NEW r \in DOMAIN chain, Reorg(r)
      PROVE  MetaInv' /\ RecordedIsKnown'
  <2> DEFINE loose == pending \cup UNION {chain[i].txs : i \in r .. Len(chain)}
  <2>1. PICK to \in [loose -> {0, MaxHeight + 1} \cup r .. Len(chain)] :
          chain' = [i \in DOMAIN chain |->
                      IF i < r THEN chain[i]
                      ELSE [v |-> reorgs', txs |-> {tx \in loose : to[tx] = i}]]
    BY <1>7 DEF Reorg
  <2> HIDE DEF loose
  <2>2. /\ DOMAIN chain' = DOMAIN chain /\ reorgs' = reorgs + 1
        /\ \A i \in DOMAIN chain : i < r => chain'[i] = chain[i]
        /\ \A i \in DOMAIN chain : ~ (i < r) => chain'[i].v = reorgs + 1
    BY <1>7, <2>1 DEF Reorg
  <2>3. MetaInv'
    <3>1. \A i \in DOMAIN chain' : chain'[i].v <= reorgs'
      BY <1>1, <1>4, <1>5, <2>2 DEF MetaInv
    <3>2. \A h \in Heights : meta[h].v <= reorgs'
      BY <1>1, <1>5, <2>2 DEF MetaInv
    <3> QED
      BY <1>1, <1>2, <2>2, <3>1, <3>2 DEF MetaInv
  <2>4. ASSUME NEW j \in DOMAIN chain, meta[j].v = chain'[j].v
        PROVE  j < r
    <3>1. meta[j].v <= reorgs /\ meta[j].v \in Int
      BY <1>1, <1>4, <1>5 DEF MetaInv
    <3> QED
      BY <1>5, <2>2, <2>4, <3>1
  <2>5. \A j \in DOMAIN chain : j < r => /\ chain'[j] = chain[j]
                                         /\ (j > 1 => chain'[j - 1] = chain[j - 1])
    BY <1>4, <2>2
  <2>6. RecordedIsKnown'
    BY <1>1, <1>2, <2>2, <2>4, <2>5 DEF RecordedIsKnown
  <2> QED
    BY <2>3, <2>6
<1> QED
  BY <1>3, <1>6, <1>7 DEF Chain, RecordInv

(* The steps that leave the metas and the chain alone. *)
LEMMA SameMeta ==
  ASSUME RecordInv, UNCHANGED <<chainVars, meta>>, unscanned \subseteq unscanned',
         tracked \subseteq tracked'
  PROVE  MetaInv' /\ MetaGrows /\ RecordedIsKnown'
  BY RecordedLater DEF RecordInv, MetaInv, MetaGrows, chainVars

LEMMA ScanRecord ==
  ASSUME PipeInv, RecordInv, Scan
  PROVE  RecordInv'
<1>1. UNCHANGED <<chainVars, meta, tracked, unscanned, work, deck, store>>
  BY DEF Scan, ScanPrefetched, ScanPrefetchError, SetScanPos, Rollback, clientVars, deckVars,
         historyVars
<1>2. MetaInv' /\ MetaGrows /\ RecordedIsKnown' /\ MetInv
  BY <1>1, SameMeta DEF RecordInv
<1>3. /\ ChainTypes /\ Entries(prefetch) /\ NoEntry.in.items = {}
      /\ prefetch \in [Heights -> [state : EntryStates, in : TxIn]]
  BY NoEntryIs, EmptyLoad DEF PipeInv, LoadInv, Entries
<1>4. ASSUME NEW h \in Heights, ScanPrefetched(h)
      PROVE  Met(txIn.items)' /\ \A i \in Heights : Met(prefetch[i].in.items)'
  <2> DEFINE f == [prefetch EXCEPT ![h] = NoEntry]
  <2>1. Scanned(h, prefetch[h].in) /\ prefetch' = Prefetching(h, f)
    BY <1>4 DEF ScanPrefetched
  <2>2. Entries(f) /\ \A i \in Heights : f[i] = IF i = h THEN NoEntry ELSE prefetch[i]
    BY <1>3, NoEntryOK, EntrySet
  <2> HIDE DEF f
  <2>3. \A i \in Heights : prefetch'[i].in.items = f[i].in.items
    BY <1>3, <2>1, <2>2, PrefetchingIs
  <2>4. Met(txIn.items)'
    BY <1>1, <1>2, <2>1 DEF Scanned, MetInv, Met
  <2>5. ASSUME NEW i \in Heights
        PROVE  Met(prefetch[i].in.items)'
    BY <1>1, <1>2, <1>3, <2>2, <2>3 DEF MetInv, Met
  <2> QED
    BY <2>4, <2>5
<1>5. ASSUME NEW h \in Heights, ScanPrefetchError(h)
      PROVE  Met(txIn.items)' /\ \A i \in Heights : Met(prefetch[i].in.items)'
  <2>1. UNCHANGED txIn /\ prefetch' = [prefetch EXCEPT ![h] = NoEntry]
    BY <1>5 DEF ScanPrefetchError, ErrorRemoved
  <2>2. \A i \in Heights : prefetch'[i] = IF i = h THEN NoEntry ELSE prefetch[i]
    BY <1>3, <2>1, NoEntryOK, EntrySet
  <2> QED
    BY <1>1, <1>2, <1>3, <2>1, <2>2 DEF MetInv, Met
<1>6. ASSUME SetScanPos \/ Rollback
      PROVE  Met(txIn.items)' /\ \A i \in Heights : Met(prefetch[i].in.items)'
  BY <1>1, <1>2, <1>6 DEF SetScanPos, Rollback, PrefetchKept, MetInv, Met
<1>7. /\ \A w \in work' : Met(w.items)'
      /\ \A k \in Keys : Met(deck[k])' /\ Met(store[k])'
  BY <1>1, <1>2 DEF MetInv, Met
<1> QED
  BY <1>2, <1>4, <1>5, <1>6, <1>7 DEF Scan, RecordInv, MetInv

LEMMA ProcessRecord ==
  ASSUME PipeInv, RecordInv, ProcessTxIns
  PROVE  RecordInv'
<1>1. UNCHANGED <<chainVars, meta, tracked, unscanned, prefetch, deck, store>> /\ txIn' = Empty
  BY DEF ProcessTxIns, Sent, clientVars
<1>2. MetaInv' /\ MetaGrows /\ RecordedIsKnown' /\ MetInv
  BY <1>1, SameMeta DEF RecordInv
<1>3. work' = work \/ work' = work \cup {txIn}
  BY DEF ProcessTxIns
<1>4. \A w \in work' : Met(w.items)'
  BY <1>1, <1>2, <1>3 DEF MetInv, Met
<1>5. Met(txIn.items)'
  BY <1>1, EmptyLoad DEF Met
<1>6. /\ \A i \in Heights : Met(prefetch[i].in.items)'
      /\ \A k \in Keys : Met(deck[k])' /\ Met(store[k])'
  BY <1>1, <1>2 DEF MetInv, Met
<1> QED
  BY <1>2, <1>4, <1>5, <1>6 DEF RecordInv, MetInv

LEMMA WorkRecord ==
  ASSUME PipeInv, RecordInv, NEW w \in work, ProcessObservedTx(w)
  PROVE  RecordInv'
<1> DEFINE k == w.first + Conf
           new == Merged(deck[k], w.items)
<1>1. k \in Keys /\ Load(w) /\ deck[k] \in SUBSET DeckItem /\ DeckTypes
  BY WorkKey DEF PipeInv, DeckTypes
<1>2. /\ deck' = [deck EXCEPT ![k] = new] /\ store' \in {store, [store EXCEPT ![k] = new]}
      /\ work' = work \ {w}
      /\ UNCHANGED <<chainVars, meta, tracked, unscanned, txIn, prefetch>>
  BY ProcessObservedTxIs DEF clientVars, scannerVars, historyVars
<1>3. MetaInv' /\ MetaGrows /\ RecordedIsKnown' /\ MetInv
  BY <1>2, SameMeta DEF RecordInv
<1>4. \A x \in new : x \in deck[k] \/ \E y \in w.items :
                       x = [tx |-> y.tx, height |-> y.height, committed |-> FALSE]
  BY <1>1, MergedIs
<1> HIDE DEF k, new
<1>5. Met(new)
  <2>1. Met(deck[k]) /\ Met(w.items)
    BY <1>1, <1>3 DEF MetInv
  <2>2. ASSUME NEW x \in new
        PROVE  x.height \in Heights /\ meta[x.height].v >= 0
    <3>1. CASE x \in deck[k]
      BY <2>1, <3>1 DEF Met
    <3>2. ASSUME NEW y \in w.items,
                 x = [tx |-> y.tx, height |-> y.height, committed |-> FALSE]
          PROVE  x.height \in Heights /\ meta[x.height].v >= 0
      BY <2>1, <3>2 DEF Met
    <3> QED
      BY <1>4, <3>1, <3>2
  <2> QED
    BY <2>2 DEF Met
<1>6. /\ deck'[k] = new /\ \A j \in Keys : j # k => deck'[j] = deck[j]
      /\ store'[k] \in {store[k], new} /\ \A j \in Keys : j # k => store'[j] = store[j]
  BY <1>1, <1>2 DEF DeckTypes
<1>7. \A j \in Keys : Met(deck'[j]) /\ Met(store'[j])
  BY <1>3, <1>5, <1>6 DEF MetInv
<1>8. \A j \in Keys : Met(deck[j])' /\ Met(store[j])'
  BY <1>2, <1>7 DEF Met
<1>9. /\ Met(txIn.items)' /\ \A i \in Heights : Met(prefetch[i].in.items)'
      /\ \A v \in work' : Met(v.items)'
  BY <1>2, <1>3 DEF MetInv, Met
<1> QED
  BY <1>3, <1>8, <1>9 DEF RecordInv, MetInv

(* OnObservedTxIn finds the meta of the item's block. *)
LEMMA CommittedRecord ==
  ASSUME PipeInv, RecordInv, NEW a \in attested, NEW x \in deck[a.key],
         HandleObservedTxCommitted(a, x)
  PROVE  RecordInv'
<1> DEFINE y == [x EXCEPT !.committed = TRUE]
           new == (deck[a.key] \ {x}) \cup IF a.final THEN {} ELSE {y}
           b == [meta[x.height] EXCEPT !.customers = meta[x.height].customers \cup {x.tx}]
<1>1. /\ DeckTypes /\ a.key \in Keys /\ x \in DeckItem /\ x.tx \in Txs
      /\ MetaInv /\ MetInv /\ RecordedIsKnown
  BY DEF PipeInv, DeckTypes, DeckItem, RecordInv
<1>2. /\ deck' = [deck EXCEPT ![a.key] = new] /\ store' = [store EXCEPT ![a.key] = deck'[a.key]]
      /\ tracked \subseteq tracked' /\ UNCHANGED <<chainVars, unscanned, txIn, prefetch, work>>
      /\ meta' = [meta EXCEPT ![x.height] = b]
  BY DEF HandleObservedTxCommitted, Stored, scannerVars
<1>3. x.height \in Heights /\ meta[x.height].v >= 0 /\ meta[x.height] \in Metas
  BY <1>1 DEF MetInv, Met, MetaInv
<1>4. b.v = meta[x.height].v /\ b \in Metas
  BY <1>1, <1>3 DEF Metas
<1>5. y.height = x.height
  BY <1>1 DEF DeckItem
<1> HIDE DEF b
<1>6. /\ meta' \in [Heights -> Metas]
      /\ \A h \in Heights : meta'[h].v = meta[h].v /\ (meta[h].v < 0 => meta'[h] = meta[h])
  <2>1. meta \in [Heights -> Metas]
    BY <1>1 DEF MetaInv
  <2>2. meta'[x.height] = b /\ \A h \in Heights : h # x.height => meta'[h] = meta[h]
    BY <1>2, <1>3, <2>1
  <2>3. meta' \in [Heights -> Metas]
    BY <1>2, <1>3, <1>4, <2>1
  <2>4. meta[x.height].v \in Int
    BY <1>3 DEF Metas
  <2>5. ASSUME NEW h \in Heights
        PROVE  meta'[h].v = meta[h].v /\ (meta[h].v < 0 => meta'[h] = meta[h])
    <3>1. CASE h = x.height
      BY <1>3, <1>4, <2>2, <2>4, <3>1
    <3>2. CASE h # x.height
      BY <2>2, <3>2
    <3> QED
      BY <3>1, <3>2
  <2> QED
    BY <2>3, <2>5
<1>7. MetaInv' /\ MetaGrows
  <2>1. MetaInv'
    BY <1>1, <1>2, <1>6 DEF MetaInv, chainVars
  <2>2. MetaGrows
    BY <1>6 DEF MetaGrows
  <2> QED
    BY <2>1, <2>2
<1>8. RecordedIsKnown'
  <2>1. ChainTypes /\ UNCHANGED chain
    BY <1>2 DEF PipeInv, chainVars
  <2>2. ASSUME NEW j \in DOMAIN chain, meta'[j].v = chain[j].v
        PROVE  /\ j > 1 /\ meta'[j - 1] # NoMeta => meta'[j - 1].v = chain[j - 1].v
               /\ j \notin unscanned' => chain[j].txs \subseteq tracked'
    <3>1. j \in Heights /\ (j > 1 => j - 1 \in Heights)
      BY <2>1, ChainIs
    <3>2. meta[j].v = chain[j].v
      BY <1>6, <2>2, <3>1
    <3>3. ASSUME j > 1, meta'[j - 1] # NoMeta
          PROVE  meta'[j - 1].v = chain[j - 1].v
      <4>1. meta[j - 1] # NoMeta
        <5>1. SUFFICES ASSUME meta[j - 1] = NoMeta
                       PROVE  FALSE
          OBVIOUS
        <5>2. meta[j - 1].v < 0
          BY <5>1, NoMetaIs
        <5> QED
          BY <1>6, <3>1, <3>3, <5>1, <5>2
      <4> QED
        BY <1>1, <1>6, <3>1, <3>2, <3>3, <4>1 DEF RecordedIsKnown
    <3> QED
      BY <1>1, <1>2, <3>2, <3>3 DEF RecordedIsKnown
  <2> QED
    BY <2>1, <2>2 DEF RecordedIsKnown
<1>9. Met(new)
  BY <1>1, <1>3, <1>5 DEF MetInv, Met
<1> HIDE DEF new
<1>10. /\ deck'[a.key] = new /\ store'[a.key] = new
       /\ \A j \in Keys : j # a.key => deck'[j] = deck[j] /\ store'[j] = store[j]
  BY <1>1, <1>2 DEF DeckTypes
<1>11. \A j \in Keys : Met(deck'[j]) /\ Met(store'[j])
  BY <1>1, <1>9, <1>10 DEF MetInv
<1>12. \A j \in Keys : Met(deck[j])' /\ Met(store[j])'
  BY <1>7, <1>11 DEF Met, MetaGrows
<1>13. /\ Met(txIn.items)' /\ \A i \in Heights : Met(prefetch[i].in.items)'
       /\ \A v \in work' : Met(v.items)'
  BY <1>1, <1>2, <1>7 DEF MetInv, Met, MetaGrows
<1> QED
  BY <1>7, <1>8, <1>12, <1>13 DEF RecordInv, MetInv

LEMMA DeckRecord ==
  ASSUME PipeInv, RecordInv,
         ProcessErrataTx \/ SendDeckStatus \/ SendDeck \/ Churn \/ UNCHANGED vars
  PROVE  RecordInv'
<1>1. /\ UNCHANGED <<chainVars, meta, tracked, unscanned, txIn, prefetch, work>>
      /\ DeckTypes
  BY DEF ProcessErrataTx, SendDeckStatus, SendDeck, Churn, vars, clientVars, scannerVars,
         historyVars, deckVars, PipeInv
<1>2. MetaInv' /\ MetaGrows /\ RecordedIsKnown' /\ MetInv
  BY <1>1, SameMeta DEF RecordInv
<1>3. ASSUME NEW k \in Keys
      PROVE  /\ deck'[k] \subseteq deck[k]
             /\ store'[k] = {} \/ store'[k] = store[k] \/ store'[k] = deck'[k]
  <2>1. CASE ProcessErrataTx
    <3>1. CASE UNCHANGED <<deck, store>>
      BY <3>1
    <3>2. ASSUME NEW l \in Keys, NEW x \in deck[l], NEW h,
                 deck' = [deck EXCEPT ![l] = @ \ {x}],
                 store' = IF deck'[l] = {} THEN [store EXCEPT ![h] = {}]
                          ELSE [store EXCEPT ![l] = deck'[l]]
          PROVE  /\ deck'[k] \subseteq deck[k]
                 /\ store'[k] = {} \/ store'[k] = store[k] \/ store'[k] = deck'[k]
      <4>1. deck'[k] \subseteq deck[k]
        BY <1>1, <3>2 DEF DeckTypes
      <4>2. store'[k] = {} \/ store'[k] = store[k] \/ store'[k] = deck'[k]
        BY <1>1, <3>2 DEF DeckTypes
      <4> QED
        BY <4>1, <4>2
    <3> QED
      BY <2>1, <3>1, <3>2 DEF ProcessErrataTx
  <2>2. CASE SendDeckStatus
    <3>1. \/ UNCHANGED <<deck, store>>
          \/ deck' = [j \in Keys |-> {}] /\ store' = deck'
      BY <2>2 DEF SendDeckStatus
    <3> QED
      BY <3>1
  <2>3. CASE SendDeck \/ Churn \/ UNCHANGED vars
    BY <2>3 DEF SendDeck, Churn, vars, deckVars
  <2> QED
    BY <2>1, <2>2, <2>3
<1>4. \A k \in Keys : Met(deck'[k]) /\ Met(store'[k])
  BY <1>2, <1>3 DEF MetInv, Met
<1>5. \A k \in Keys : Met(deck[k])' /\ Met(store[k])'
  BY <1>1, <1>4 DEF Met
<1>6. /\ Met(txIn.items)' /\ \A i \in Heights : Met(prefetch[i].in.items)'
      /\ \A v \in work' : Met(v.items)'
  BY <1>1, <1>2 DEF MetInv, Met
<1> QED
  BY <1>2, <1>5, <1>6 DEF RecordInv, MetInv

LEMMA InitRecord == Init => RecordInv
<1> SUFFICES ASSUME Init
             PROVE  RecordInv
  OBVIOUS
<1>1. \A h \in Heights : meta[h] = NoMeta
  BY DEF Init, ScannerInit
<1>2. NoMeta \in Metas
  BY ScannerAssumption DEF NoMeta, Metas
<1>3. \A i \in DOMAIN chain : chain[i].v = 0
  BY DEF Init, ScannerInit
<1>4. MetaInv
  BY <1>1, <1>2, <1>3, NoMetaIs DEF MetaInv, Init, ScannerInit
<1>5. MetInv
  BY EmptyLoad, NoEntryIs DEF MetInv, Met, Init, ScannerInit
<1>6. RecordedIsKnown
  <2>1. DOMAIN chain \subseteq Heights
    BY InitPipe, ChainIs DEF PipeInv
  <2> QED
    BY <1>1, <1>3, <2>1, NoMetaIs DEF RecordedIsKnown
<1> QED
  BY <1>4, <1>5, <1>6 DEF RecordInv

(* A reorganisation is followed all the way down, through prefetches,       *)
(* failed rescans, panics and restarts: below a block whose hash is         *)
(* recorded the recorded hashes are the chain's, and its transactions are   *)
(* known unless a block could not be fetched again (reConfirmTx).  The      *)
(* hypothesis says that the blocks scanned again are enough.                *)
THEOREM ReorganisationIsFollowed ==
  ASSUME DeepRescan
  PROVE  Spec => []RecordedIsKnown
<1>1. PipeInv /\ RecordInv /\ [Next]_vars => PipeInv' /\ RecordInv'
  <2>1. ASSUME PipeInv, RecordInv, Next
        PROVE  RecordInv'
    BY <2>1, FetchStep, RestartStep, ChainRecord, ScanRecord, ProcessRecord, WorkRecord,
       CommittedRecord, DeckRecord DEF Next
  <2> QED
    BY <2>1, PipeStep, DeckRecord
<1>2. RecordInv => RecordedIsKnown
  BY DEF RecordInv
<1> QED
  BY <1>1, <1>2, InitPipe, InitRecord, PTL DEF Spec

=============================================================================
