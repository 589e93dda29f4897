------------------------------- MODULE Signer -------------------------------
(***************************************************************************)
(* The signer of one bifrost node: TxOut items taken from THORChain into a *)
(* persistent store (bifrost/signer/storage.go), the pipeline that spawns  *)
(* a goroutine per item with semaphores and a lock per vault and chain     *)
(* (pipeline.go), signing and broadcasting with a timeout after which the  *)
(* goroutine runs on unattended (sign.go), and the part of the UTXO client *)
(* that takes the vault lock, keeps the cache of signed items and talks to *)
(* the chain (chainclients/utxo/signer.go, shared/signercache).            *)
(*                                                                         *)
(* The node crashes and restarts, signing fails in round 7 or before,      *)
(* broadcasts fail with or without effect, and a block of TxOut items may  *)
(* be fetched again.  The other parties of the signing, the chain and      *)
(* THORChain are the environment.                                          *)
(***************************************************************************)
EXTENDS Integers, Sequences, FiniteSets

CONSTANTS
  Items,              \* TxOut items, numbered in the order of the store's list
  VaultChains,        \* pairs of a vault and a chain
  VaultChain,         \* the vault/chain of an item
  TxIds,              \* the transactions the client may build for an item
  NoTx,               \* no transaction
  Workers,            \* bound: goroutines, live or abandoned
  Concurrency,        \* mimir SignerConcurrency
  Period,             \* SigningTransactionPeriod
  Buffer,             \* RescheduleBufferBlocks
  MaxAttempts,        \* mimir MAXOUTBOUNDATTEMPTS
  Timeouts,           \* whether signing may take more than five minutes
  ListRaces,          \* whether a signing may end after SpawnSignings has read
                      \* the list and before it has read the locks
  Churned,            \* the vault/chains whose vault is retired
  Others,             \* whether another party may broadcast what is signed
  MaxCrashes,         \* bound: crashes
  MaxFaults,          \* bound: failed queries
  MaxDeliveries,      \* bound: how often an item is fetched
  MaxHeight           \* bound: THORChain height

Status == {"Active", "Retiring", "Inactive"}

ASSUME SignerAssumption ==
  /\ IsFiniteSet(Items) /\ Items \subseteq Nat
  /\ VaultChain \in [Items -> VaultChains]
  /\ IsFiniteSet(TxIds) /\ NoTx \notin TxIds
  /\ IsFiniteSet(Workers)
  /\ Concurrency \in Nat \ {0} /\ Period \in Nat \ {0}
  /\ Buffer \in Nat /\ MaxAttempts \in Nat
  /\ Timeouts \in BOOLEAN /\ ListRaces \in BOOLEAN /\ Others \in BOOLEAN
  /\ Churned \subseteq VaultChains
  /\ MaxCrashes \in Nat /\ MaxFaults \in Nat /\ MaxDeliveries \in Nat /\ MaxHeight \in Nat

Tx == TxIds \cup {NoTx}

\* a TxOutStoreItem; Height is that of the first block
StoreItem == [round7 : BOOLEAN, checkpoint : Tx, signed : Tx]
NewStoreItem == [round7 |-> FALSE, checkpoint |-> NoTx, signed |-> NoTx]
ItemHeight == 1

\* how far the signing of a transaction has come in any attempt: with the
\* seventh round the parties can put the signature together
Progress == {"none", "tried", "complete"}

VARIABLES
  height, crashes, faults, deliveries,
  stored, store,        \* the items in the store and their values (persistent)
  cache,                \* the signer cache: items broadcast by this node (persistent)
  onChain,              \* per item, the transactions the chain has accepted
  progress,             \* per item and transaction, the progress of signing it
  vaultStatus,
  spawn,                \* SpawnSignings
  worker,               \* the goroutines
  lock,                 \* vaultChainLock: taken or not
  used,                 \* tokens taken of the semaphore of each vault status
  vaultLock             \* the workers that hold the client's lock of a vault

vars == <<height, crashes, faults, deliveries, stored, store, cache, onChain,
          progress, vaultStatus, spawn, worker, lock, used, vaultLock>>
disk  == <<stored, store, cache>>
world == <<height, crashes, faults, deliveries, vaultStatus>>
pipe  == <<spawn, lock, used>>

\* inactive vaults have half the concurrency, but at least one
Capacity == [s \in Status |->
  IF s # "Inactive" THEN Concurrency
  ELSE IF Concurrency \div 2 < 1 THEN 1 ELSE Concurrency \div 2]

NoneAvailable == [s \in Status |-> 0]
IdleSpawn == [pc |-> "idle", todo |-> <<>>, avail |-> NoneAvailable, locked |-> {}]
FreeWorker == [pc |-> "free", item |-> 0, item0 |-> NewStoreItem, tx |-> NoTx,
               res |-> "err", checkpoint |-> NoTx, live |-> FALSE, status |-> "Active"]

Init ==
  /\ height = ItemHeight /\ crashes = 0 /\ faults = 0
  /\ deliveries = [i \in Items |-> 0]
  /\ stored = {}
  /\ store = [i \in Items |-> NewStoreItem]
  /\ cache = {}
  /\ onChain = [i \in Items |-> {}]
  /\ progress = [i \in Items |-> [t \in TxIds |-> "none"]]
  /\ vaultStatus = [c \in VaultChains |-> "Active"]
  /\ spawn = IdleSpawn
  /\ worker = [w \in Workers |-> FreeWorker]
  /\ lock = [c \in VaultChains |-> FALSE]
  /\ used = NoneAvailable
  /\ vaultLock = [c \in VaultChains |-> {}]

-----------------------------------------------------------------------------
(***************************************************************************)
(* processTxnOut: the items of a block go to the store.  A block whose     *)
(* keygens cannot be fetched, or whose position is not saved before a      *)
(* crash, is fetched again and overwrites its items.                       *)
(***************************************************************************)

Set(i, value) == stored' = stored \cup {i} /\ store' = [store EXCEPT ![i] = value]

Deliver(i) ==
  /\ deliveries[i] < MaxDeliveries
  /\ deliveries' = [deliveries EXCEPT ![i] = @ + 1]
  /\ Set(i, NewStoreItem)
  /\ UNCHANGED <<height, crashes, faults, cache, onChain, progress, vaultStatus, pipe, worker,
                 vaultLock>>

-----------------------------------------------------------------------------
(***************************************************************************)
(* SpawnSignings.  The list is read first and the locks later, so the      *)
(* items in todo may be stale.                                             *)
(***************************************************************************)

InRetry(value) == value.round7 \/ value.signed # NoTx

Retrying(c) == {i \in stored : VaultChain[i] = c /\ InRetry(store[i])}

\* one item in retry blocks the others of its vault/chain, two block it
ToSign == {i \in stored : LET r == Retrying(VaultChain[i]) IN r = {} \/ r = {i}}

\* the orders SpawnSignings may go through S: by number within a vault/chain,
\* items in retry first
Orders(S) ==
  {q \in [1..Cardinality(S) -> S] :
     /\ \A i \in S : \E k \in DOMAIN q : q[k] = i
     /\ \A k, l \in DOMAIN q : k < l =>
          \/ InRetry(store[q[k]])
          \/ ~InRetry(store[q[l]]) /\ q[k] < q[l]}

\* mutant: items in retry block nothing
SpawnListAll ==
  /\ spawn.pc = "idle"
  /\ \E q \in [1..Cardinality(stored) -> stored] :
       /\ \A k, l \in DOMAIN q : k < l => q[k] < q[l]
       /\ spawn' = [spawn EXCEPT !.pc = "list",
                      !.todo = [k \in DOMAIN q |-> [item |-> q[k], item0 |-> store[q[k]]]]]
  /\ UNCHANGED <<world, disk, onChain, progress, worker, lock, used, vaultLock>>

SpawnList ==
  /\ spawn.pc = "idle"
  /\ \E q \in Orders(ToSign) :
       spawn' = [spawn EXCEPT !.pc = "list",
                   !.todo = [k \in DOMAIN q |-> [item |-> q[k], item0 |-> store[q[k]]]]]
  /\ UNCHANGED <<world, disk, onChain, progress, worker, lock, used, vaultLock>>

\* acquire all capacity that is left ...
SpawnAcquire ==
  /\ spawn.pc = "list"
  /\ spawn' = [spawn EXCEPT !.pc = "locks",
                            !.avail = [s \in Status |-> Capacity[s] - used[s]]]
  /\ used' = Capacity
  /\ UNCHANGED <<world, disk, onChain, progress, worker, lock, vaultLock>>

\* ... and then look at the locks
SpawnLocks ==
  /\ spawn.pc = "locks"
  /\ spawn' = [spawn EXCEPT !.pc = "pick", !.locked = {c \in VaultChains : lock[c]}]
  /\ UNCHANGED <<world, disk, onChain, progress, worker, lock, used, vaultLock>>

Picked == Head(spawn.todo)
PickedChain == VaultChain[Picked.item]
PickedStatus == vaultStatus[PickedChain]

SpawnSkip ==
  /\ spawn.pc = "pick" /\ spawn.todo # <<>>
  /\ PickedChain \in spawn.locked \/ spawn.avail[PickedStatus] = 0
  /\ spawn' = [spawn EXCEPT !.todo = Tail(@)]
  /\ UNCHANGED <<world, disk, onChain, progress, worker, lock, used, vaultLock>>

SpawnGo(w) ==
  /\ spawn.pc = "pick" /\ spawn.todo # <<>>
  /\ PickedChain \notin spawn.locked /\ spawn.avail[PickedStatus] > 0
  /\ worker[w].pc = "free"
  /\ lock' = [lock EXCEPT ![PickedChain] = TRUE]
  /\ spawn' = [spawn EXCEPT !.todo = Tail(@), !.avail[PickedStatus] = @ - 1,
                            !.locked = @ \cup {PickedChain}]
  /\ worker' = [worker EXCEPT ![w] =
       [FreeWorker EXCEPT !.pc = "check", !.item = Picked.item, !.item0 = Picked.item0,
                          !.live = TRUE, !.status = PickedStatus]]
  /\ UNCHANGED <<world, disk, onChain, progress, used, vaultLock>>

\* mutant: the rest of the capacity is not released
SpawnEndKeeps ==
  /\ spawn.pc = "pick"
  /\ spawn' = IdleSpawn
  /\ UNCHANGED <<world, disk, onChain, progress, worker, lock, used, vaultLock>>

\* the end of the loop, or the vault cannot be queried: the rest of the
\* capacity is released
SpawnEnd ==
  /\ spawn.pc = "pick"
  /\ \/ spawn.todo = <<>> /\ UNCHANGED faults
     \/ spawn.todo # <<>> /\ faults < MaxFaults /\ faults' = faults + 1
  /\ used' = [s \in Status |-> used[s] - spawn.avail[s]]
  /\ spawn' = IdleSpawn
  /\ UNCHANGED <<height, crashes, deliveries, vaultStatus, disk, onChain, progress, worker,
                 lock, vaultLock>>

-----------------------------------------------------------------------------
(***************************************************************************)
(* signAndBroadcast, on the worker's own copy item0 of the item            *)
(***************************************************************************)

ChainOf(w) == VaultChain[worker[w].item]

TooOld(value, status) ==
  \/ value.round7 /\ (height - ItemHeight) \div Period > MaxAttempts
  \/ /\ ~value.round7 \/ status = "Inactive"
     /\ height - Period > ItemHeight - Buffer

At(w, pc) == worker[w].pc = pc

Goto(w, pc) == worker' = [worker EXCEPT ![w].pc = pc]

\* signAndBroadcast returns res and releases the vault's lock
Returns(w, res) ==
  /\ worker' = [worker EXCEPT ![w].pc = "return", ![w].res = res]
  /\ vaultLock' = [vaultLock EXCEPT ![ChainOf(w)] = @ \ {w}]

\* a query of THORChain fails or the block scanner is unhealthy
CheckFails(w) ==
  /\ At(w, "check")
  /\ faults < MaxFaults /\ faults' = faults + 1
  /\ Returns(w, "err")
  /\ UNCHANGED <<height, crashes, deliveries, vaultStatus, disk, onChain, progress, pipe>>

\* too old, signing halted, not our vault, already signed: the item goes
CheckDiscards(w) ==
  /\ At(w, "check")
  /\ Returns(w, "ok")
  /\ UNCHANGED <<world, disk, onChain, progress, pipe>>

CheckPasses(w) ==
  /\ At(w, "check")
  /\ ~TooOld(worker[w].item0, vaultStatus[ChainOf(w)])
  /\ Goto(w, "lock")
  /\ UNCHANGED <<world, disk, onChain, progress, pipe, vaultLock>>

\* mutants: the lock is not waited for; SignedTx is not looked at
TakeVaultLockAnyway(w) ==
  /\ At(w, "lock")
  /\ vaultLock' = [vaultLock EXCEPT ![ChainOf(w)] = @ \cup {w}]
  /\ IF worker[w].item0.signed # NoTx
     THEN worker' = [worker EXCEPT ![w].pc = "send", ![w].tx = worker[w].item0.signed]
     ELSE Goto(w, "build")
  /\ UNCHANGED <<world, disk, onChain, progress, pipe>>

\* an item that is already signed is only broadcast
TakeVaultLock(w) ==
  /\ At(w, "lock")
  /\ vaultLock[ChainOf(w)] = {}
  /\ vaultLock' = [vaultLock EXCEPT ![ChainOf(w)] = {w}]
  /\ IF worker[w].item0.signed # NoTx
     THEN worker' = [worker EXCEPT ![w].pc = "send", ![w].tx = worker[w].item0.signed]
     ELSE Goto(w, "build")
  /\ UNCHANGED <<world, disk, onChain, progress, pipe>>

\* SignTx: an item in the cache, one without coins or with an address that
\* does not round-trip, or a checkpoint whose inputs are spent gives no
\* transaction and no error
BuildNothing(w) ==
  /\ At(w, "build")
  /\ Goto(w, "persist")
  /\ UNCHANGED <<world, disk, onChain, progress, pipe, vaultLock>>

BuildFails(w) ==
  /\ At(w, "build")
  /\ worker[w].item \notin cache
  /\ Returns(w, "err")
  /\ UNCHANGED <<world, disk, onChain, progress, pipe>>

Build(w) ==
  LET i  == worker[w].item
      cp == worker[w].item0.checkpoint
  IN /\ At(w, "build")
     /\ i \notin cache
     /\ cp # NoTx => cp \notin onChain[i]
     /\ \E t \in IF cp # NoTx THEN {cp} ELSE TxIds \ onChain[i] :
          /\ worker' = [worker EXCEPT ![w].pc = "keysign", ![w].tx = t]
          /\ progress' = [progress EXCEPT ![i][t] = IF @ = "none" THEN "tried" ELSE @]
     /\ UNCHANGED <<world, disk, onChain, pipe, vaultLock>>

Completes(w) == progress' = [progress EXCEPT ![worker[w].item][worker[w].tx] = "complete"]

KeysignDone(w) ==
  /\ At(w, "keysign")
  /\ Goto(w, "persist")
  /\ Completes(w)
  /\ UNCHANGED <<world, disk, onChain, pipe, vaultLock>>

\* The built transaction comes back as checkpoint.  After a failure in round
\* 7 other parties may have the signature.
KeysignFails(w) ==
  /\ At(w, "keysign")
  /\ \E res \in {"err", "round7"} :
       /\ worker' = [worker EXCEPT ![w].pc = "return", ![w].res = res,
                                   ![w].checkpoint = worker[w].tx]
       /\ IF res = "round7" THEN Completes(w) ELSE UNCHANGED progress
  /\ vaultLock' = [vaultLock EXCEPT ![ChainOf(w)] = @ \ {w}]
  /\ UNCHANGED <<world, disk, onChain, pipe>>

Signed(w) == [worker[w].item0 EXCEPT !.signed = worker[w].tx]

\* mutants: broadcast first; an empty transaction is broadcast too
PersistLater(w) ==
  /\ At(w, "persist")
  /\ IF worker[w].tx = NoTx
     THEN Returns(w, "ok")
     ELSE Goto(w, "send") /\ UNCHANGED vaultLock
  /\ UNCHANGED <<world, disk, onChain, progress, pipe>>

PersistEmpty(w) ==
  /\ At(w, "persist")
  /\ Set(worker[w].item, Signed(w))
  /\ Goto(w, "send")
  /\ UNCHANGED <<world, cache, onChain, progress, pipe, vaultLock>>

\* the signed transaction is stored before it is broadcast
Persist(w) ==
  /\ At(w, "persist")
  /\ Set(worker[w].item, Signed(w))
  /\ IF worker[w].tx = NoTx
     THEN Returns(w, "ok")
     ELSE Goto(w, "send") /\ UNCHANGED vaultLock
  /\ UNCHANGED <<world, cache, onChain, progress, pipe>>

\* BroadcastTx: the chain accepts the transaction or already has it ...
SendAccepted(w) ==
  /\ At(w, "send")
  /\ onChain' = [onChain EXCEPT ![worker[w].item] = @ \cup {worker[w].tx}]
  /\ Goto(w, "setSigned")
  /\ UNCHANGED <<world, disk, progress, pipe, vaultLock>>

\* ... or an error comes back (OthersBroadcast: perhaps after it took effect)
SendFails(w) ==
  /\ At(w, "send")
  /\ Goto(w, "storeRetry")
  /\ UNCHANGED <<world, disk, onChain, progress, pipe, vaultLock>>

SetSigned(w) ==
  /\ At(w, "setSigned")
  /\ cache' = cache \cup {worker[w].item}
  /\ Returns(w, "ok")
  /\ UNCHANGED <<world, stored, store, onChain, progress, pipe>>

StoreRetry(w) ==
  /\ At(w, "storeRetry")
  /\ Set(worker[w].item, Signed(w))
  /\ Returns(w, "err")
  /\ UNCHANGED <<world, cache, onChain, progress, pipe>>

-----------------------------------------------------------------------------
(***************************************************************************)
(* processTransaction                                                      *)
(***************************************************************************)

\* mutant: the token of the status the vault has now
ReleaseSlotNow(w) ==
  /\ ListRaces \/ spawn.pc \notin {"list", "locks"}
  /\ lock' = [lock EXCEPT ![ChainOf(w)] = FALSE]
  /\ used' = [used EXCEPT ![vaultStatus[ChainOf(w)]] = @ - 1]

ReleaseSlot(w) ==
  /\ ListRaces \/ spawn.pc \notin {"list", "locks"}
  /\ lock' = [lock EXCEPT ![ChainOf(w)] = FALSE]
  /\ used' = [used EXCEPT ![worker[w].status] = @ - 1]

\* mutant: the checkpoint is lost
ApplyResultOnly(w) ==
  LET i == worker[w].item IN
  CASE worker[w].res = "ok"     -> stored' = stored \ {i} /\ UNCHANGED store
    [] worker[w].res = "round7" -> Set(i, [worker[w].item0 EXCEPT !.round7 = TRUE])
    [] worker[w].res = "err"    -> UNCHANGED <<stored, store>>

\* what the goroutine does with the result: remove the item, mark it for
\* retry after a round 7 failure, or leave it
ApplyResult(w) ==
  LET i == worker[w].item IN
  CASE worker[w].res = "ok"     -> stored' = stored \ {i} /\ UNCHANGED store
    [] worker[w].res = "round7" ->
         Set(i, [worker[w].item0 EXCEPT !.round7 = TRUE,
                                        !.checkpoint = worker[w].checkpoint])
    [] worker[w].res = "err"    -> UNCHANGED <<stored, store>>

Return(w) ==
  /\ At(w, "return")
  /\ worker' = [worker EXCEPT ![w] = FreeWorker]
  /\ IF worker[w].live
     THEN ApplyResult(w) /\ ReleaseSlot(w)
     ELSE UNCHANGED <<stored, store, lock, used>>
  /\ UNCHANGED <<world, cache, onChain, progress, spawn, vaultLock>>

\* After five minutes the caller gives up; signAndBroadcast runs on.
Timeout(w) ==
  /\ Timeouts /\ worker[w].live
  /\ worker' = [worker EXCEPT ![w].live = FALSE]
  /\ ReleaseSlot(w)
  /\ UNCHANGED <<world, disk, onChain, progress, spawn, vaultLock>>

Step(w) ==
  \/ CheckFails(w) \/ CheckDiscards(w) \/ CheckPasses(w)
  \/ TakeVaultLock(w) \/ BuildNothing(w) \/ BuildFails(w) \/ Build(w)
  \/ KeysignDone(w) \/ KeysignFails(w) \/ Persist(w) \/ SendAccepted(w)
  \/ SendFails(w) \/ SetSigned(w) \/ StoreRetry(w) \/ Return(w)

-----------------------------------------------------------------------------
(***************************************************************************)
(* The environment                                                         *)
(***************************************************************************)

\* another party has the signature as well and broadcasts the transaction
OthersBroadcast(i, t) ==
  /\ Others
  /\ progress[i][t] = "complete" /\ t \notin onChain[i]
  /\ onChain' = [onChain EXCEPT ![i] = @ \cup {t}]
  /\ UNCHANGED <<world, disk, progress, pipe, worker, vaultLock>>

Crash ==
  /\ crashes < MaxCrashes /\ crashes' = crashes + 1
  /\ spawn' = IdleSpawn
  /\ worker' = [w \in Workers |-> FreeWorker]
  /\ lock' = [c \in VaultChains |-> FALSE]
  /\ used' = NoneAvailable
  /\ vaultLock' = [c \in VaultChains |-> {}]
  /\ UNCHANGED <<height, faults, deliveries, vaultStatus, disk, onChain, progress>>

Tick ==
  /\ height < MaxHeight
  /\ height' = height + 1
  /\ UNCHANGED <<crashes, faults, deliveries, vaultStatus, disk, onChain, progress, pipe, worker,
                 vaultLock>>

\* a churn retires a vault, a later one makes it inactive
ChangeStatus(c) ==
  /\ c \in Churned /\ vaultStatus[c] # "Inactive"
  /\ vaultStatus' = [vaultStatus EXCEPT ![c] =
                       IF @ = "Active" THEN "Retiring" ELSE "Inactive"]
  /\ UNCHANGED <<height, crashes, faults, deliveries, disk, onChain, progress, pipe, worker,
                 vaultLock>>

SpawnStep ==
  \/ SpawnList \/ SpawnAcquire \/ SpawnLocks \/ SpawnSkip \/ SpawnEnd
  \/ \E w \in Workers : SpawnGo(w)

Next == \/ \E i \in Items : Deliver(i)
        \/ SpawnStep
        \/ \E w \in Workers : Step(w) \/ Timeout(w)
        \/ \E i \in Items, t \in TxIds : OthersBroadcast(i, t)
        \/ Crash \/ Tick
        \/ \E c \in VaultChains : ChangeStatus(c)

Spec == Init /\ [][Next]_vars

\* The signing loop runs again and again, goroutines are scheduled, blocks
\* are made.  A goroutine that ends is not held up for ever by the windows of
\* SpawnSignings that ~ListRaces keeps it out of.
FairSpec == /\ Spec
            /\ WF_vars(SpawnStep)
            /\ \A w \in Workers : WF_vars(Step(w)) /\ SF_vars(Return(w))
            /\ WF_vars(Tick)

-----------------------------------------------------------------------------
(***************************************************************************)
(* Correctness                                                             *)
(***************************************************************************)

SpawnType ==
  [pc : {"idle", "list", "locks", "pick"}, todo : Seq([item : Items, item0 : StoreItem]),
   avail : [Status -> Int], locked : SUBSET VaultChains]

WorkerType ==
  [pc : {"free", "check", "lock", "build", "keysign", "persist", "send", "setSigned",
         "storeRetry", "return"},
   item : Items \cup {0}, item0 : StoreItem, tx : Tx,
   res : {"ok", "err", "round7"}, checkpoint : Tx, live : BOOLEAN,
   status : Status]

\* The types of the variables.
TypeOK ==
  /\ height \in Nat /\ crashes \in Nat /\ faults \in Nat
  /\ deliveries \in [Items -> Nat]
  /\ stored \subseteq Items /\ store \in [Items -> StoreItem]
  /\ cache \subseteq Items
  /\ onChain \in [Items -> SUBSET TxIds]
  /\ progress \in [Items -> [TxIds -> Progress]]
  /\ vaultStatus \in [VaultChains -> Status]
  /\ spawn \in SpawnType
  /\ worker \in [Workers -> WorkerType]
  /\ lock \in [VaultChains -> BOOLEAN]
  /\ used \in [Status -> Int]
  /\ vaultLock \in [VaultChains -> SUBSET Workers]

LiveOf(s) == {w \in Workers : worker[w].live /\ worker[w].status = s}
LiveOn(c) == {w \in Workers : worker[w].live /\ ChainOf(w) = c}

\* The tokens of a semaphore are those of running signings, counted by the
\* status the vault had when they were spawned, and those SpawnSignings
\* holds; a vault/chain is locked exactly while one signing runs for it, and
\* SpawnSignings never takes a lock it would have to wait for.
SlotsBalanced ==
  /\ \A s \in Status :
       /\ used[s] = Cardinality(LiveOf(s)) + spawn.avail[s]
       /\ used[s] <= Capacity[s] /\ spawn.avail[s] >= 0
  /\ \A c \in VaultChains :
       /\ Cardinality(LiveOn(c)) = IF lock[c] THEN 1 ELSE 0
       /\ spawn.pc = "pick" /\ lock[c] => c \in spawn.locked

\* No item is signed once its broadcast is in the signer cache, although a
\* signing that timed out still runs beside its successor.
SigningIsFresh ==
  \A w \in Workers : At(w, "keysign") => worker[w].item \notin cache

\* One item is paid by at most one transaction.
OnePayment == \A i \in Items : Cardinality(onChain[i]) <= 1

\* "there should be no vault/chain with more than 1 item in retry"
\* (pipeline.go): such a vault/chain would never be signed for again.
OneRetry == \A c \in VaultChains : Cardinality(Retrying(c)) <= 1

\* Every item leaves the store in the end: it is signed or it gets too old.
Drains == \A i \in Items : i \in stored ~> i \notin stored

=============================================================================
