---------------------------- MODULE SignerProofs ----------------------------
(***************************************************************************)
(* Theorems about Signer for every set of items, vault/chains and          *)
(* goroutines, with crashes, timeouts and stale lists.                     *)
(***************************************************************************)
EXTENDS Signer, TLAPS, FiniteSetTheorems, SequenceTheorems

\* A goroutine that runs has an item, and from signing on a transaction.
WorkerInv ==
  \A w \in Workers :
    /\ worker[w].pc # "free" => worker[w].item \in Items
    /\ worker[w].live => worker[w].pc # "free"
    /\ worker[w].pc \in {"keysign", "send", "setSigned", "storeRetry"}
         => worker[w].tx \in TxIds

TypeInv == TypeOK /\ WorkerInv

-----------------------------------------------------------------------------
(***************************************************************************)
(* Types                                                                   *)
(***************************************************************************)

LEMMA CapacityType == Capacity \in [Status -> Nat]
BY SignerAssumption DEF Capacity

LEMMA NewStoreItemType == NewStoreItem \in StoreItem
BY DEF NewStoreItem, StoreItem, Tx

LEMMA FreeWorkerType == FreeWorker \in WorkerType
BY NewStoreItemType DEF FreeWorker, WorkerType, Tx, Status

LEMMA IdleSpawnType == IdleSpawn \in SpawnType
BY EmptySeq DEF IdleSpawn, SpawnType, NoneAvailable

\* What Set leaves in the store.
LEMMA SetType ==
  ASSUME TypeOK, NEW i \in Items, NEW value \in StoreItem, Set(i, value)
  PROVE  stored' \subseteq Items /\ store' \in [Items -> StoreItem]
BY DEF TypeOK, Set

LEMMA InitType == Init => TypeInv
<1> SUFFICES ASSUME Init PROVE TypeInv
  OBVIOUS
<1>1. worker \in [Workers -> WorkerType] /\ spawn \in SpawnType
  BY FreeWorkerType, IdleSpawnType DEF Init
<1>2. store \in [Items -> StoreItem]
  BY NewStoreItemType DEF Init
<1>3. TypeOK
  BY <1>1, <1>2 DEF Init, TypeOK, Progress, Status, NoneAvailable, ItemHeight
<1>4. WorkerInv
  BY DEF Init, WorkerInv, FreeWorker
<1>5. QED
  BY <1>3, <1>4 DEF TypeInv

\* The steps that put a goroutine elsewhere, with its result.
LEMMA ReturnsType ==
  ASSUME TypeInv, NEW w \in Workers, worker[w].pc # "free",
         NEW res \in {"ok", "err"}, Returns(w, res)
  PROVE  /\ worker' \in [Workers -> WorkerType]
         /\ vaultLock' \in [VaultChains -> SUBSET Workers]
         /\ WorkerInv'
<1>1. worker' = [worker EXCEPT ![w].pc = "return", ![w].res = res]
  BY DEF Returns
<1>2. worker' \in [Workers -> WorkerType]
  <2> DEFINE new == [worker[w] EXCEPT !.pc = "return", !.res = res]
  <2>1. worker[w] \in WorkerType
    BY DEF TypeInv, TypeOK
  <2>2. new \in WorkerType
    BY <2>1 DEF WorkerType
  <2>3. worker' = [worker EXCEPT ![w] = new]
    BY <1>1 DEF TypeInv, TypeOK
  <2>4. QED
    BY <2>2, <2>3 DEF TypeInv, TypeOK
<1>3. vaultLock' \in [VaultChains -> SUBSET Workers]
  BY DEF TypeInv, TypeOK, Returns
<1>4. \A v \in Workers : /\ worker'[v].item = worker[v].item
                         /\ worker'[v].pc = IF v = w THEN "return" ELSE worker[v].pc
                         /\ worker'[v].live = worker[v].live
                         /\ worker'[v].tx = worker[v].tx
  BY <1>1 DEF TypeInv, TypeOK, WorkerType
<1>5. WorkerInv'
  BY <1>4 DEF TypeInv, WorkerInv
<1>6. QED
  BY <1>2, <1>3, <1>5

LEMMA GotoType ==
  ASSUME TypeInv, NEW w \in Workers, worker[w].pc # "free",
         NEW pc \in {"lock", "build", "persist", "send", "setSigned", "storeRetry"},
         pc \in {"send", "setSigned", "storeRetry"} => worker[w].tx \in TxIds,
         Goto(w, pc)
  PROVE  worker' \in [Workers -> WorkerType] /\ WorkerInv'
<1>1. worker' = [worker EXCEPT ![w].pc = pc]
  BY DEF Goto
<1>2. worker' \in [Workers -> WorkerType]
  <2> DEFINE new == [worker[w] EXCEPT !.pc = pc]
  <2>1. worker[w] \in WorkerType
    BY DEF TypeInv, TypeOK
  <2>2. new \in WorkerType
    BY <2>1 DEF WorkerType
  <2>3. worker' = [worker EXCEPT ![w] = new]
    BY <1>1 DEF TypeInv, TypeOK
  <2>4. QED
    BY <2>2, <2>3 DEF TypeInv, TypeOK
<1>3. \A v \in Workers : /\ worker'[v].item = worker[v].item
                         /\ worker'[v].pc = IF v = w THEN pc ELSE worker[v].pc
                         /\ worker'[v].live = worker[v].live
                         /\ worker'[v].tx = worker[v].tx
  BY <1>1 DEF TypeInv, TypeOK, WorkerType
<1>4. WorkerInv'
  BY <1>3 DEF TypeInv, WorkerInv
<1>5. QED
  BY <1>2, <1>4

LEMMA SpawnListType ==
  ASSUME TypeInv, SpawnList
  PROVE  spawn' \in SpawnType
<1> DEFINE R == [item : Items, item0 : StoreItem]
<1>1. PICK q \in Orders(ToSign) :
        spawn' = [spawn EXCEPT !.pc = "list",
                   !.todo = [k \in DOMAIN q |-> [item |-> q[k], item0 |-> store[q[k]]]]]
  BY DEF SpawnList
<1>2. ToSign \subseteq Items
  BY DEF TypeInv, TypeOK, ToSign
<1>3. Cardinality(ToSign) \in Nat
  BY <1>2, SignerAssumption, FS_Subset, FS_CardinalityType
<1>4. q \in [1..Cardinality(ToSign) -> ToSign]
  BY DEF Orders
<1>5. DOMAIN q = 1..Cardinality(ToSign)
  BY <1>4
<1>6. \A k \in DOMAIN q : q[k] \in Items
  BY <1>2, <1>4
<1> HIDE DEF R
<1>7. \A k \in DOMAIN q : [item |-> q[k], item0 |-> store[q[k]]] \in R
  BY <1>6 DEF TypeInv, TypeOK, R
<1>8. [k \in DOMAIN q |-> [item |-> q[k], item0 |-> store[q[k]]]] \in Seq(R)
  BY <1>3, <1>5, <1>7
<1>9. QED
  BY <1>1, <1>8 DEF TypeInv, TypeOK, SpawnType, R

LEMMA TailType ==
  ASSUME TypeInv, spawn.todo # <<>>
  PROVE  /\ Tail(spawn.todo) \in Seq([item : Items, item0 : StoreItem])
         /\ Picked.item \in Items /\ Picked.item0 \in StoreItem
         /\ PickedChain \in VaultChains /\ PickedStatus \in Status
<1> DEFINE R == [item : Items, item0 : StoreItem]
<1>1. spawn.todo \in Seq(R)
  BY DEF TypeInv, TypeOK, SpawnType
<1>2. Tail(spawn.todo) \in Seq(R) /\ Head(spawn.todo) \in R
  BY <1>1, HeadTailProperties
<1>3. QED
  BY <1>2, SignerAssumption DEF Picked, PickedChain, PickedStatus, TypeInv, TypeOK

LEMMA SpawnGoType ==
  ASSUME TypeInv, NEW w \in Workers, SpawnGo(w)
  PROVE  /\ worker' \in [Workers -> WorkerType] /\ spawn' \in SpawnType
         /\ lock' \in [VaultChains -> BOOLEAN] /\ WorkerInv'
<1> DEFINE new == [FreeWorker EXCEPT !.pc = "check", !.item = Picked.item,
                     !.item0 = Picked.item0, !.live = TRUE, !.status = PickedStatus]
<1>1. new \in WorkerType /\ new.item \in Items /\ new.pc = "check"
  BY TailType, FreeWorkerType DEF WorkerType, SpawnGo
<1>2. worker' = [worker EXCEPT ![w] = new]
  BY DEF SpawnGo
<1>3. worker' \in [Workers -> WorkerType]
  BY <1>1, <1>2 DEF TypeInv, TypeOK
<1>4. WorkerInv'
  BY <1>1, <1>2 DEF TypeInv, TypeOK, WorkerInv
<1>5. spawn' \in SpawnType
  <2> DEFINE avail == [spawn.avail EXCEPT ![PickedStatus] = @ - 1]
  <2>1. spawn \in SpawnType /\ spawn.todo # <<>>
    BY DEF TypeInv, TypeOK, SpawnGo
  <2>2. avail \in [Status -> Int]
    BY <2>1, TailType DEF SpawnType
  <2>3. spawn' = [spawn EXCEPT !.todo = Tail(spawn.todo), !.avail = avail,
                               !.locked = spawn.locked \cup {PickedChain}]
    BY <2>1 DEF SpawnGo, SpawnType
  <2>4. spawn.locked \cup {PickedChain} \in SUBSET VaultChains
    BY <2>1, TailType DEF SpawnType
  <2> HIDE DEF avail
  <2>5. QED
    BY <2>1, <2>2, <2>3, <2>4, TailType DEF SpawnType
<1>6. lock' \in [VaultChains -> BOOLEAN]
  BY TailType DEF TypeInv, TypeOK, SpawnGo
<1>7. QED
  BY <1>3, <1>4, <1>5, <1>6

\* A goroutine that gets any other value of its type.
LEMMA MoveType ==
  ASSUME TypeInv, NEW w \in Workers, NEW new \in WorkerType,
         new.pc # "free" => new.item \in Items,
         new.live => new.pc # "free",
         new.pc \in {"keysign", "send", "setSigned", "storeRetry"} => new.tx \in TxIds,
         worker' = [worker EXCEPT ![w] = new]
  PROVE  worker' \in [Workers -> WorkerType] /\ WorkerInv'
<1>1. worker' \in [Workers -> WorkerType]
  BY DEF TypeInv, TypeOK
<1>2. \A v \in Workers : worker'[v] = IF v = w THEN new ELSE worker[v]
  BY DEF TypeInv, TypeOK
<1>3. QED
  BY <1>1, <1>2 DEF TypeInv, WorkerInv

LEMMA ReleaseSlotType ==
  ASSUME TypeInv, NEW w \in Workers, ReleaseSlot(w)
  PROVE  lock' \in [VaultChains -> BOOLEAN] /\ used' \in [Status -> Int]
<1>1. worker[w].status \in Status
  BY DEF TypeInv, TypeOK, WorkerType
<1>2. lock' \in [VaultChains -> BOOLEAN]
  BY DEF TypeInv, TypeOK, ReleaseSlot
<1>3. used[worker[w].status] - 1 \in Int
  BY <1>1 DEF TypeInv, TypeOK
<1>4. used' \in [Status -> Int]
  BY <1>3 DEF TypeInv, TypeOK, ReleaseSlot
<1>5. QED
  BY <1>2, <1>4

\* The variables that say where SpawnSignings is, and the goroutines.
LEMMA SpawnType1 ==
  ASSUME TypeInv, SpawnStep
  PROVE  TypeInv'
<1>1. CASE SpawnList
  <2>1. spawn' \in SpawnType
    BY <1>1, SpawnListType
  <2>2. QED
    BY <1>1, <2>1 DEF SpawnList, TypeInv, TypeOK, WorkerInv, world, disk
<1>2. CASE SpawnAcquire
  <2> DEFINE avail == [s \in Status |-> Capacity[s] - used[s]]
  <2>1. avail \in [Status -> Int] /\ used' \in [Status -> Int]
    BY <1>2, CapacityType DEF SpawnAcquire, TypeInv, TypeOK
  <2>2. spawn' = [spawn EXCEPT !.pc = "locks", !.avail = avail]
    BY <1>2 DEF SpawnAcquire
  <2> HIDE DEF avail
  <2>3. spawn' \in SpawnType
    BY <2>1, <2>2 DEF TypeInv, TypeOK, SpawnType
  <2>4. QED
    BY <1>2, <2>1, <2>3 DEF SpawnAcquire, TypeInv, TypeOK, WorkerInv, world, disk
<1>3. CASE SpawnLocks
  <2>1. spawn' \in SpawnType
    BY <1>3 DEF SpawnLocks, TypeInv, TypeOK, SpawnType
  <2>2. QED
    BY <1>3, <2>1 DEF SpawnLocks, TypeInv, TypeOK, WorkerInv, world, disk
<1>4. CASE SpawnSkip
  <2>1. spawn' \in SpawnType
    BY <1>4, TailType DEF SpawnSkip, TypeInv, TypeOK, SpawnType
  <2>2. QED
    BY <1>4, <2>1 DEF SpawnSkip, TypeInv, TypeOK, WorkerInv, world, disk
<1>5. CASE SpawnEnd
  <2>1. spawn' \in SpawnType /\ used' \in [Status -> Int]
    BY <1>5, IdleSpawnType DEF SpawnEnd, TypeInv, TypeOK, SpawnType
  <2>2. faults' \in Nat
    BY <1>5 DEF SpawnEnd, TypeInv, TypeOK
  <2>3. QED
    BY <1>5, <2>1, <2>2 DEF SpawnEnd, TypeInv, TypeOK, WorkerInv, disk
<1>6. CASE \E w \in Workers : SpawnGo(w)
  <2>1. PICK w \in Workers : SpawnGo(w)
    BY <1>6
  <2>2. QED
    BY <2>1, SpawnGoType DEF SpawnGo, TypeInv, TypeOK, world, disk
<1>7. QED
  BY <1>1, <1>2, <1>3, <1>4, <1>5, <1>6 DEF SpawnStep

LEMMA StepType ==
  ASSUME TypeInv, NEW w \in Workers, Step(w)
  PROVE  TypeInv'
<1>1. CASE CheckFails(w)
  <2>1. faults' \in Nat
    BY <1>1 DEF CheckFails, TypeInv, TypeOK
  <2>2. QED
    BY <1>1, <2>1, ReturnsType DEF CheckFails, At, TypeInv, TypeOK, disk, pipe
<1>2. CASE CheckDiscards(w)
  BY <1>2, ReturnsType DEF CheckDiscards, At, TypeInv, TypeOK, world, disk, pipe
<1>3. CASE CheckPasses(w)
  BY <1>3, GotoType DEF CheckPasses, At, TypeInv, TypeOK, world, disk, pipe
<1>4. CASE TakeVaultLock(w)
  <2> DEFINE new == [worker[w] EXCEPT !.pc = "send", !.tx = worker[w].item0.signed]
  <2>1. vaultLock' \in [VaultChains -> SUBSET Workers]
    BY <1>4 DEF TakeVaultLock, TypeInv, TypeOK
  <2>2. worker' \in [Workers -> WorkerType] /\ WorkerInv'
    <3>1. CASE worker[w].item0.signed = NoTx
      BY <1>4, <3>1, GotoType DEF TakeVaultLock, At
    <3>2. CASE worker[w].item0.signed # NoTx
      <4>1. worker[w] \in WorkerType /\ worker[w].pc = "lock"
        BY <1>4 DEF TakeVaultLock, At, TypeInv, TypeOK
      <4>2. worker[w].item0.signed \in TxIds
        BY <4>1, <3>2 DEF WorkerType, StoreItem, Tx
      <4>3. worker' = [worker EXCEPT ![w] = new]
        BY <1>4, <3>2 DEF TakeVaultLock, TypeInv, TypeOK
      <4>4. new \in WorkerType /\ new.pc = "send" /\ new.tx \in TxIds
            /\ new.item = worker[w].item
        BY <4>1, <4>2 DEF WorkerType, Tx
      <4>5. worker[w].item \in Items
        BY <4>1 DEF TypeInv, WorkerInv
      <4> HIDE DEF new
      <4>6. QED
        BY <4>3, <4>4, <4>5, MoveType
    <3>3. QED
      BY <3>1, <3>2
  <2>3. QED
    BY <1>4, <2>1, <2>2 DEF TakeVaultLock, TypeInv, TypeOK, world, disk, pipe
<1>5. CASE BuildNothing(w)
  BY <1>5, GotoType DEF BuildNothing, At, TypeInv, TypeOK, world, disk, pipe
<1>6. CASE BuildFails(w)
  BY <1>6, ReturnsType DEF BuildFails, At, TypeInv, TypeOK, world, disk, pipe
<1>7. CASE Build(w)
  <2>1. worker[w] \in WorkerType /\ worker[w].pc = "build" /\ worker[w].item \in Items
    BY <1>7 DEF Build, At, TypeInv, TypeOK, WorkerInv
  <2>2. PICK t \in TxIds :
          /\ worker' = [worker EXCEPT ![w].pc = "keysign", ![w].tx = t]
          /\ progress' = [progress EXCEPT ![worker[w].item][t] =
                            IF @ = "none" THEN "tried" ELSE @]
    BY <1>7, <2>1 DEF Build, WorkerType, StoreItem, Tx
  <2> DEFINE new == [worker[w] EXCEPT !.pc = "keysign", !.tx = t]
  <2>3. worker' = [worker EXCEPT ![w] = new]
    BY <2>2 DEF TypeInv, TypeOK
  <2>4. new \in WorkerType /\ new.pc = "keysign" /\ new.tx \in TxIds /\ new.item \in Items
    BY <2>1 DEF WorkerType, Tx
  <2>5. progress' \in [Items -> [TxIds -> Progress]]
    BY <2>1, <2>2 DEF TypeInv, TypeOK, Progress
  <2> HIDE DEF new
  <2>6. worker' \in [Workers -> WorkerType] /\ WorkerInv'
    BY <2>3, <2>4, MoveType
  <2>7. QED
    BY <1>7, <2>5, <2>6 DEF Build, TypeInv, TypeOK, world, disk, pipe
<1>8. CASE KeysignDone(w)
  <2>1. progress' \in [Items -> [TxIds -> Progress]]
    BY <1>8 DEF KeysignDone, Completes, TypeInv, TypeOK, Progress
  <2>2. QED
    BY <1>8, <2>1, GotoType DEF KeysignDone, At, TypeInv, TypeOK, world, disk, pipe
<1>9. CASE KeysignFails(w)
  <2>1. worker[w] \in WorkerType /\ worker[w].pc = "keysign" /\ worker[w].item \in Items
    BY <1>9 DEF KeysignFails, At, TypeInv, TypeOK, WorkerInv
  <2>2. PICK res \in {"err", "round7"} :
          worker' = [worker EXCEPT ![w].pc = "return", ![w].res = res,
                                   ![w].checkpoint = worker[w].tx]
    BY <1>9 DEF KeysignFails
  <2> DEFINE new == [worker[w] EXCEPT !.pc = "return", !.res = res,
                                      !.checkpoint = worker[w].tx]
  <2>3. worker' = [worker EXCEPT ![w] = new]
    BY <2>2 DEF TypeInv, TypeOK
  <2>4. new \in WorkerType /\ new.pc = "return" /\ new.item \in Items
    BY <2>1 DEF WorkerType
  <2>5. progress' \in [Items -> [TxIds -> Progress]]
    <3>1. Completes(w) \/ progress' = progress
      BY <1>9 DEF KeysignFails
    <3>2. CASE Completes(w)
      BY <3>2 DEF Completes, TypeInv, TypeOK, Progress
    <3>3. QED
      BY <3>1, <3>2 DEF TypeInv, TypeOK
  <2>6. vaultLock' \in [VaultChains -> SUBSET Workers]
    BY <1>9 DEF KeysignFails, TypeInv, TypeOK
  <2> HIDE DEF new
  <2>7. worker' \in [Workers -> WorkerType] /\ WorkerInv'
    BY <2>3, <2>4, MoveType
  <2>8. QED
    BY <1>9, <2>5, <2>6, <2>7 DEF KeysignFails, TypeInv, TypeOK, world, disk, pipe
<1>10. ASSUME worker[w].pc # "free" PROVE worker[w].item \in Items /\ Signed(w) \in StoreItem
  <2>1. worker[w].item \in Items /\ worker[w] \in WorkerType
    BY <1>10 DEF TypeInv, TypeOK, WorkerInv
  <2>2. worker[w].item0 \in StoreItem /\ worker[w].tx \in Tx
    BY <2>1 DEF WorkerType
  <2>3. Signed(w) \in StoreItem
    BY <2>2 DEF Signed, StoreItem
  <2>4. QED
    BY <2>1, <2>3
<1>11. CASE Persist(w)
  <2>1. stored' \subseteq Items /\ store' \in [Items -> StoreItem]
    BY <1>11, <1>10, SetType DEF Persist, At, TypeInv
  <2>2. worker' \in [Workers -> WorkerType] /\ WorkerInv'
        /\ vaultLock' \in [VaultChains -> SUBSET Workers]
    <3>1. CASE worker[w].tx = NoTx
      BY <1>11, <3>1, ReturnsType DEF Persist, At
    <3>2. CASE worker[w].tx # NoTx
      <4>1. worker[w].tx \in TxIds
        BY <3>2 DEF TypeInv, TypeOK, WorkerType, Tx
      <4>2. QED
        BY <1>11, <3>2, <4>1, GotoType DEF Persist, At, TypeInv, TypeOK
    <3>3. QED
      BY <3>1, <3>2
  <2>3. QED
    BY <1>11, <2>1, <2>2 DEF Persist, TypeInv, TypeOK, world, pipe
<1>12. CASE SendAccepted(w)
  <2>1. worker[w].tx \in TxIds /\ worker[w].pc = "send"
    BY <1>12 DEF SendAccepted, At, TypeInv, WorkerInv
  <2>2. onChain' \in [Items -> SUBSET TxIds]
    BY <1>12, <2>1 DEF SendAccepted, TypeInv, TypeOK
  <2>3. QED
    BY <1>12, <2>1, <2>2, GotoType DEF SendAccepted, TypeInv, TypeOK, world, disk, pipe
<1>13. CASE SendFails(w)
  <2>1. worker[w].tx \in TxIds /\ worker[w].pc = "send"
    BY <1>13 DEF SendFails, At, TypeInv, WorkerInv
  <2>2. QED
    BY <1>13, <2>1, GotoType DEF SendFails, TypeInv, TypeOK, world, disk, pipe
<1>14. CASE SetSigned(w)
  <2>1. cache' \subseteq Items
    BY <1>14, <1>10 DEF SetSigned, At, TypeInv, TypeOK
  <2>2. QED
    BY <1>14, <2>1, ReturnsType DEF SetSigned, At, TypeInv, TypeOK, world, pipe
<1>15. CASE StoreRetry(w)
  <2>1. stored' \subseteq Items /\ store' \in [Items -> StoreItem]
    BY <1>15, <1>10, SetType DEF StoreRetry, At, TypeInv
  <2>2. QED
    BY <1>15, <2>1, ReturnsType DEF StoreRetry, At, TypeInv, TypeOK, world, pipe
<1>16. CASE Return(w)
  <2>1. worker' \in [Workers -> WorkerType] /\ WorkerInv'
    BY <1>16, FreeWorkerType, MoveType DEF Return, FreeWorker
  <2>2. lock' \in [VaultChains -> BOOLEAN] /\ used' \in [Status -> Int]
    BY <1>16, ReleaseSlotType DEF Return, TypeInv, TypeOK
  <2>3. stored' \subseteq Items /\ store' \in [Items -> StoreItem]
    <3> DEFINE value == [worker[w].item0 EXCEPT !.round7 = TRUE,
                                                !.checkpoint = worker[w].checkpoint]
    <3>1. worker[w] \in WorkerType /\ worker[w].pc = "return" /\ worker[w].item \in Items
      BY <1>16 DEF Return, At, TypeInv, TypeOK, WorkerInv
    <3>2. value \in StoreItem
      BY <3>1 DEF WorkerType, StoreItem
    <3>3. \/ stored' = stored \ {worker[w].item} /\ store' = store
          \/ Set(worker[w].item, value)
          \/ stored' = stored /\ store' = store
      <4>1. CASE worker[w].live
        <5>1. worker[w].res \in {"ok", "err", "round7"}
          BY <3>1 DEF WorkerType
        <5>2. QED
          BY <1>16, <4>1, <5>1 DEF Return, ApplyResult
      <4>2. QED
        BY <1>16, <4>1 DEF Return
    <3>4. QED
      BY <3>1, <3>2, <3>3, SetType, <1>16 DEF TypeInv, TypeOK
  <2>4. QED
    BY <1>16, <2>1, <2>2, <2>3 DEF Return, TypeInv, TypeOK, world
<1>17. QED
  BY <1>1, <1>2, <1>3, <1>4, <1>5, <1>6, <1>7, <1>8, <1>9, <1>11, <1>12, <1>13, <1>14,
     <1>15, <1>16 DEF Step

LEMMA NextType == TypeInv /\ [Next]_vars => TypeInv'
<1> SUFFICES ASSUME TypeInv, [Next]_vars PROVE TypeInv'
  OBVIOUS
<1>1. CASE \E i \in Items : Deliver(i)
  <2>1. PICK i \in Items : Deliver(i)
    BY <1>1
  <2>2. stored' \subseteq Items /\ store' \in [Items -> StoreItem]
    BY <2>1, SetType, NewStoreItemType DEF Deliver, TypeInv
  <2>3. deliveries' \in [Items -> Nat]
    BY <2>1 DEF Deliver, TypeInv, TypeOK
  <2>4. QED
    BY <2>1, <2>2, <2>3 DEF Deliver, TypeInv, TypeOK, WorkerInv, pipe
<1>2. CASE SpawnStep
  BY <1>2, SpawnType1
<1>3. CASE \E w \in Workers : Step(w)
  BY <1>3, StepType
<1>4. CASE \E w \in Workers : Timeout(w)
  <2>1. PICK w \in Workers : Timeout(w)
    BY <1>4
  <2> DEFINE new == [worker[w] EXCEPT !.live = FALSE]
  <2>2. worker[w] \in WorkerType
    BY DEF TypeInv, TypeOK
  <2>3. worker' = [worker EXCEPT ![w] = new]
    BY <2>1 DEF Timeout, TypeInv, TypeOK
  <2>4. /\ new \in WorkerType /\ ~new.live
        /\ new.pc = worker[w].pc /\ new.item = worker[w].item /\ new.tx = worker[w].tx
    BY <2>2 DEF WorkerType
  <2> HIDE DEF new
  <2>5. worker' \in [Workers -> WorkerType] /\ WorkerInv'
    BY <2>3, <2>4, MoveType DEF TypeInv, WorkerInv
  <2>6. QED
    BY <2>1, <2>5, ReleaseSlotType DEF Timeout, TypeInv, TypeOK, world, disk
<1>5. CASE \E i \in Items, t \in TxIds : OthersBroadcast(i, t)
  BY <1>5 DEF OthersBroadcast, TypeInv, TypeOK, WorkerInv, world, disk, pipe
<1>6. CASE Crash
  <2>1. worker' \in [Workers -> WorkerType] /\ spawn' \in SpawnType
    BY <1>6, FreeWorkerType, IdleSpawnType DEF Crash
  <2>2. WorkerInv'
    BY <1>6 DEF Crash, WorkerInv, FreeWorker
  <2>3. QED
    BY <1>6, <2>1, <2>2 DEF Crash, TypeInv, TypeOK, NoneAvailable, disk
<1>7. CASE Tick
  BY <1>7 DEF Tick, TypeInv, TypeOK, WorkerInv, disk, pipe
<1>8. CASE \E c \in VaultChains : ChangeStatus(c)
  <2>1. vaultStatus' \in [VaultChains -> Status]
    BY <1>8 DEF ChangeStatus, TypeInv, TypeOK, Status
  <2>2. QED
    BY <1>8, <2>1 DEF ChangeStatus, TypeInv, TypeOK, WorkerInv, disk, pipe
<1>9. CASE UNCHANGED vars
  BY <1>9 DEF vars, TypeInv, TypeOK, WorkerInv
<1>10. QED
  BY <1>1, <1>2, <1>3, <1>4, <1>5, <1>6, <1>7, <1>8, <1>9 DEF Next

\* The signer's variables keep their types, and a goroutine that signs or
\* broadcasts has an item and a transaction to do it with.
THEOREM SignerTypeCorrect == Spec => []TypeOK
<1>1. Spec => []TypeInv
  BY InitType, NextType, PTL DEF Spec
<1>2. TypeInv => TypeOK
  BY DEF TypeInv
<1>3. QED
  BY <1>1, <1>2, PTL

-----------------------------------------------------------------------------
(***************************************************************************)
(* The vault's lock                                                        *)
(***************************************************************************)

Holding == {"build", "keysign", "persist", "send", "setSigned", "storeRetry"}

\* A goroutine between building and the end of the broadcast holds the
\* vault's lock, alone.
LockInv == \A w \in Workers : worker[w].pc \in Holding => vaultLock[ChainOf(w)] = {w}

FreshInv == TypeInv /\ LockInv /\ SigningIsFresh

\* Who does not move keeps what it has: goroutines other than w, locks other
\* than that of w's vault/chain, and, when w gave up the lock or never had it,
\* a lock that another holds.
LEMMA LockKept ==
  ASSUME FreshInv, TypeInv', NEW w \in Workers, worker[w].pc # "free",
         \A v \in Workers : worker'[v].item = worker[v].item,
         \A v \in Workers \ {w} : worker'[v] = worker[v],
         \/ /\ worker'[w].pc \in Holding => worker[w].pc \in Holding
            /\ vaultLock' = vaultLock
         \/ /\ worker'[w].pc \notin Holding
            /\ vaultLock' = [vaultLock EXCEPT ![ChainOf(w)] = @ \ {w}]
         \/ /\ vaultLock[ChainOf(w)] = {}
            /\ vaultLock' = [vaultLock EXCEPT ![ChainOf(w)] = {w}]
  PROVE  LockInv'
<1> SUFFICES ASSUME NEW v \in Workers, worker'[v].pc \in Holding
             PROVE  vaultLock'[VaultChain[worker'[v].item]] = {v}
  BY DEF LockInv, ChainOf
<1>1. worker'[v].item = worker[v].item /\ worker[v].item \in Items
  BY DEF FreshInv, TypeInv, WorkerInv, Holding
<1>2. VaultChain[worker[v].item] \in VaultChains /\ VaultChain[worker[w].item] \in VaultChains
  BY <1>1, SignerAssumption DEF FreshInv, TypeInv, WorkerInv
<1>3. vaultLock \in [VaultChains -> SUBSET Workers]
  BY DEF FreshInv, TypeInv, TypeOK
<1>4. CASE v = w
  BY <1>1, <1>2, <1>3, <1>4 DEF FreshInv, LockInv, ChainOf
<1>5. CASE v # w
  <2>1. vaultLock[VaultChain[worker[v].item]] = {v}
    BY <1>5 DEF FreshInv, LockInv, ChainOf
  <2>2. QED
    BY <1>1, <1>2, <1>3, <1>5, <2>1 DEF ChainOf
<1>6. QED
  BY <1>4, <1>5

\* When nothing enters the cache and nobody starts to sign.
LEMMA FreshKept ==
  ASSUME FreshInv, cache' = cache,
         \A v \in Workers : worker'[v].pc = "keysign" =>
           \/ worker[v].pc = "keysign" /\ worker'[v].item = worker[v].item
           \/ worker'[v].item \notin cache
  PROVE  SigningIsFresh'
BY DEF FreshInv, SigningIsFresh, At

\* A goroutine's own steps move it and leave the others where they are.
Moves(w, pc) ==
  /\ worker'[w].pc = pc
  /\ \A v \in Workers : /\ worker'[v].item = worker[v].item
                        /\ worker'[v].live = worker[v].live
                        /\ worker'[v].status = worker[v].status
  /\ \A v \in Workers \ {w} : worker'[v] = worker[v]

LEMMA GotoMoves ==
  ASSUME TypeOK, NEW w \in Workers, NEW pc, Goto(w, pc)
  PROVE  Moves(w, pc)
BY DEF TypeOK, Goto, Moves, WorkerType

LEMMA ReturnsMoves ==
  ASSUME TypeOK, NEW w \in Workers, NEW res, Returns(w, res)
  PROVE  /\ Moves(w, "return")
         /\ vaultLock' = [vaultLock EXCEPT ![ChainOf(w)] = @ \ {w}]
BY DEF TypeOK, Returns, Moves, WorkerType

\* Every step of a goroutine but the last is a move that leaves the pipeline
\* alone and treats the vault's lock in one of three ways.
LEMMA StepMoves ==
  ASSUME TypeInv, NEW w \in Workers, Step(w), ~Return(w)
  PROVE  /\ UNCHANGED pipe
         /\ worker[w].pc # "free"
         /\ \E pc \in Holding \cup {"lock", "return"} :
              /\ Moves(w, pc)
              /\ pc = "keysign" => worker[w].item \notin cache /\ worker[w].pc = "build"
              /\ cache' # cache => pc = "return" /\ worker[w].pc = "setSigned"
                                   /\ cache' = cache \cup {worker[w].item}
              /\ \/ /\ pc \in Holding => worker[w].pc \in Holding
                    /\ vaultLock' = vaultLock
                 \/ /\ pc \notin Holding
                    /\ vaultLock' = [vaultLock EXCEPT ![ChainOf(w)] = @ \ {w}]
                 \/ /\ vaultLock[ChainOf(w)] = {}
                    /\ vaultLock' = [vaultLock EXCEPT ![ChainOf(w)] = {w}]
<1> USE DEF TypeInv
<1>1. CASE CheckFails(w)
  BY <1>1, ReturnsMoves DEF CheckFails, At, Holding, disk
<1>2. CASE CheckDiscards(w)
  BY <1>2, ReturnsMoves DEF CheckDiscards, At, Holding, disk
<1>3. CASE CheckPasses(w)
  BY <1>3, GotoMoves DEF CheckPasses, At, Holding, disk
<1>4. CASE TakeVaultLock(w)
  <2>1. Moves(w, "send") \/ Moves(w, "build")
    <3>1. CASE worker[w].item0.signed = NoTx
      BY <1>4, <3>1, GotoMoves DEF TakeVaultLock
    <3>2. CASE worker[w].item0.signed # NoTx
      <4>1. worker' = [worker EXCEPT ![w].pc = "send", ![w].tx = worker[w].item0.signed]
        BY <1>4, <3>2 DEF TakeVaultLock
      <4>2. QED
        BY <4>1 DEF Moves, TypeOK, WorkerType
    <3>3. QED
      BY <3>1, <3>2
  <2>2. QED
    BY <1>4, <2>1 DEF TakeVaultLock, At, Holding, disk
<1>5. CASE BuildNothing(w)
  BY <1>5, GotoMoves DEF BuildNothing, At, Holding, disk
<1>6. CASE BuildFails(w)
  BY <1>6, ReturnsMoves DEF BuildFails, At, Holding, disk
<1>7. CASE Build(w)
  <2>1. Moves(w, "keysign")
    BY <1>7 DEF Build, Moves, TypeOK, WorkerType
  <2>2. QED
    BY <1>7, <2>1 DEF Build, At, Holding, disk
<1>8. CASE KeysignDone(w)
  BY <1>8, GotoMoves DEF KeysignDone, At, Holding, disk
<1>9. CASE KeysignFails(w)
  <2>1. Moves(w, "return")
    BY <1>9 DEF KeysignFails, Moves, TypeOK, WorkerType
  <2>2. QED
    BY <1>9, <2>1 DEF KeysignFails, At, Holding, disk
<1>10. CASE Persist(w)
  <2>1. CASE worker[w].tx = NoTx
    BY <1>10, <2>1, ReturnsMoves DEF Persist, At, Holding
  <2>2. CASE worker[w].tx # NoTx
    BY <1>10, <2>2, GotoMoves DEF Persist, At, Holding
  <2>3. QED
    BY <2>1, <2>2
<1>11. CASE SendAccepted(w)
  BY <1>11, GotoMoves DEF SendAccepted, At, Holding, disk
<1>12. CASE SendFails(w)
  BY <1>12, GotoMoves DEF SendFails, At, Holding, disk
<1>13. CASE SetSigned(w)
  BY <1>13, ReturnsMoves DEF SetSigned, At, Holding
<1>14. CASE StoreRetry(w)
  BY <1>14, ReturnsMoves DEF StoreRetry, At, Holding
<1>15. QED
  BY <1>1, <1>2, <1>3, <1>4, <1>5, <1>6, <1>7, <1>8, <1>9, <1>10, <1>11, <1>12, <1>13,
     <1>14 DEF Step

LEMMA StepFresh ==
  ASSUME FreshInv, TypeInv', NEW w \in Workers, Step(w), ~Return(w)
  PROVE  LockInv' /\ SigningIsFresh'
<1>1. PICK pc \in Holding \cup {"lock", "return"} :
        /\ Moves(w, pc)
        /\ pc = "keysign" => worker[w].item \notin cache /\ worker[w].pc = "build"
        /\ cache' # cache => pc = "return" /\ worker[w].pc = "setSigned"
                             /\ cache' = cache \cup {worker[w].item}
        /\ \/ /\ pc \in Holding => worker[w].pc \in Holding
              /\ vaultLock' = vaultLock
           \/ /\ pc \notin Holding
              /\ vaultLock' = [vaultLock EXCEPT ![ChainOf(w)] = @ \ {w}]
           \/ /\ vaultLock[ChainOf(w)] = {}
              /\ vaultLock' = [vaultLock EXCEPT ![ChainOf(w)] = {w}]
  BY StepMoves DEF FreshInv
<1>2. worker[w].pc # "free"
  BY StepMoves DEF FreshInv
<1>3. LockInv'
  <2>1. \A v \in Workers : worker'[v].item = worker[v].item
    BY <1>1 DEF Moves
  <2>2. \A v \in Workers \ {w} : worker'[v] = worker[v]
    BY <1>1 DEF Moves
  <2>3. worker'[w].pc = pc
    BY <1>1 DEF Moves
  <2>4. QED
    BY <1>1, <1>2, <2>1, <2>2, <2>3, LockKept
<1>4. SigningIsFresh'
  <2>1. CASE cache' = cache
    BY <1>1, <2>1, FreshKept DEF Moves
  <2>2. CASE cache' # cache
    <3> SUFFICES ASSUME NEW v \in Workers, worker'[v].pc = "keysign"
                 PROVE  worker'[v].item \notin cache \cup {worker[w].item}
      BY <1>1, <2>2 DEF SigningIsFresh, At
    <3>1. worker[w].pc = "setSigned" /\ v # w /\ worker'[v] = worker[v]
      BY <1>1, <2>2 DEF Moves
    <3>2. worker[v].item \notin cache
      BY <3>1 DEF FreshInv, SigningIsFresh, At
    <3>3. vaultLock[ChainOf(w)] = {w} /\ vaultLock[ChainOf(v)] = {v}
      BY <3>1 DEF FreshInv, LockInv, Holding
    <3>4. worker[v].item # worker[w].item
      BY <3>1, <3>3 DEF ChainOf
    <3>5. QED
      BY <3>1, <3>2, <3>4
  <2>3. QED
    BY <2>1, <2>2
<1>5. QED
  BY <1>3, <1>4

LEMMA NextFresh == FreshInv /\ [Next]_vars => FreshInv'
<1> SUFFICES ASSUME FreshInv, [Next]_vars PROVE FreshInv'
  OBVIOUS
<1>1. TypeInv'
  BY NextType DEF FreshInv
<1>2. ASSUME worker' = worker, vaultLock' = vaultLock, cache' = cache
      PROVE  LockInv' /\ SigningIsFresh'
  BY <1>2 DEF FreshInv, LockInv, SigningIsFresh, At, ChainOf
<1>3. CASE \E i \in Items : Deliver(i)
  BY <1>1, <1>2, <1>3 DEF Deliver, FreshInv
<1>4. CASE SpawnStep
  <2>1. CASE \E w \in Workers : SpawnGo(w)
    <3>1. PICK w \in Workers : SpawnGo(w)
      BY <2>1
    <3>2. \A v \in Workers : IF v = w THEN worker'[v].pc = "check" ELSE worker'[v] = worker[v]
      BY <3>1 DEF SpawnGo, FreeWorker, FreshInv, TypeInv, TypeOK
    <3>3. vaultLock' = vaultLock /\ cache' = cache
      BY <3>1 DEF SpawnGo, disk
    <3>4. QED
      BY <1>1, <3>2, <3>3 DEF FreshInv, LockInv, SigningIsFresh, At, ChainOf, Holding
  <2>2. CASE SpawnList \/ SpawnAcquire \/ SpawnLocks \/ SpawnSkip \/ SpawnEnd
    BY <1>1, <1>2, <2>2 DEF SpawnList, SpawnAcquire, SpawnLocks, SpawnSkip, SpawnEnd, disk,
                            FreshInv
  <2>3. QED
    BY <1>4, <2>1, <2>2 DEF SpawnStep
<1>5. CASE \E w \in Workers : Step(w)
  <2>1. PICK w \in Workers : Step(w)
    BY <1>5
  <2>2. CASE Return(w)
    <3>1. \A v \in Workers : IF v = w THEN worker'[v].pc = "free" ELSE worker'[v] = worker[v]
      BY <2>2 DEF Return, FreeWorker, FreshInv, TypeInv, TypeOK
    <3>2. vaultLock' = vaultLock /\ cache' = cache
      BY <2>2 DEF Return
    <3>3. QED
      BY <1>1, <3>1, <3>2 DEF FreshInv, LockInv, SigningIsFresh, At, ChainOf, Holding
  <2>3. CASE ~Return(w)
    BY <1>1, <2>1, <2>3, StepFresh DEF FreshInv
  <2>4. QED
    BY <2>2, <2>3
<1>6. CASE \E w \in Workers : Timeout(w)
  <2>1. PICK w \in Workers : Timeout(w)
    BY <1>6
  <2>2. \A v \in Workers : worker'[v].pc = worker[v].pc /\ worker'[v].item = worker[v].item
    BY <2>1 DEF Timeout, FreshInv, TypeInv, TypeOK, WorkerType
  <2>3. vaultLock' = vaultLock /\ cache' = cache
    BY <2>1 DEF Timeout, disk
  <2>4. QED
    BY <1>1, <2>2, <2>3 DEF FreshInv, LockInv, SigningIsFresh, At, ChainOf
<1>7. CASE \E i \in Items, t \in TxIds : OthersBroadcast(i, t)
  BY <1>1, <1>2, <1>7 DEF OthersBroadcast, FreshInv, disk
<1>8. CASE Crash
  BY <1>1, <1>8 DEF Crash, FreshInv, LockInv, SigningIsFresh, At, FreeWorker, Holding
<1>9. CASE Tick \/ \E c \in VaultChains : ChangeStatus(c)
  BY <1>1, <1>2, <1>9 DEF Tick, ChangeStatus, FreshInv, disk
<1>10. CASE UNCHANGED vars
  BY <1>1, <1>2, <1>10 DEF vars, FreshInv
<1>11. QED
  BY <1>3, <1>4, <1>5, <1>6, <1>7, <1>8, <1>9, <1>10 DEF Next

\* However many signings of a vault have timed out and run on, and however
\* stale the list they were spawned from, none signs an item whose broadcast
\* is in the signer cache: the vault's lock is held across both.
THEOREM NoSigningAfterBroadcast == Spec => []SigningIsFresh
<1>1. Init => FreshInv
  <2>1. Init => LockInv /\ SigningIsFresh
    BY DEF Init, LockInv, SigningIsFresh, At, FreeWorker, Holding
  <2>2. QED
    BY <2>1, InitType DEF FreshInv
<1>2. FreshInv => SigningIsFresh
  BY DEF FreshInv
<1>3. QED
  BY <1>1, <1>2, NextFresh, PTL DEF Spec

-----------------------------------------------------------------------------
(***************************************************************************)
(* Semaphores and locks                                                    *)
(***************************************************************************)

\* SpawnSignings holds tokens only between acquiring them and its end.
IdleInv == spawn.pc \in {"idle", "list"} => spawn.avail = NoneAvailable

SlotsInv == TypeInv /\ SlotsBalanced /\ IdleInv

\* Nobody has been given up.
AllLive == \A w \in Workers : worker[w].pc # "free" => worker[w].live

LEMMA LiveFinite ==
  /\ \A s : IsFiniteSet(LiveOf(s)) /\ Cardinality(LiveOf(s)) \in Nat
  /\ \A c : IsFiniteSet(LiveOn(c)) /\ Cardinality(LiveOn(c)) \in Nat
<1>1. \A s : LiveOf(s) \in SUBSET Workers
  BY DEF LiveOf
<1>2. \A c : LiveOn(c) \in SUBSET Workers
  BY DEF LiveOn
<1>3. QED
  BY <1>1, <1>2, SignerAssumption, FS_Subset, FS_CardinalityType

\* The same goroutines are live, for the same vaults.
SameLive == \A v \in Workers :
  /\ worker'[v].live = worker[v].live
  /\ worker[v].live => /\ worker'[v].status = worker[v].status
                       /\ worker'[v].item = worker[v].item

LEMMA SameLiveSets ==
  ASSUME SameLive
  PROVE  /\ \A s : LiveOf(s)' = LiveOf(s)
         /\ \A c : LiveOn(c)' = LiveOn(c)
BY DEF SameLive, LiveOf, LiveOn, ChainOf

LEMMA SlotsKept ==
  ASSUME SlotsInv, SameLive, UNCHANGED pipe
  PROVE  SlotsBalanced' /\ IdleInv'
BY SameLiveSets DEF SlotsInv, SlotsBalanced, IdleInv, pipe

LEMMA SpawnGoSlots ==
  ASSUME SlotsInv, NEW w \in Workers, SpawnGo(w)
  PROVE  SlotsBalanced' /\ IdleInv'
<1>0. /\ spawn.todo # <<>> /\ spawn.pc = "pick" /\ worker[w].pc = "free"
      /\ spawn.avail[PickedStatus] > 0 /\ PickedChain \notin spawn.locked
      /\ lock' = [lock EXCEPT ![PickedChain] = TRUE] /\ used' = used
  BY DEF SpawnGo
<1>1. PickedChain \in VaultChains /\ PickedStatus \in Status
  BY <1>0, TailType DEF SlotsInv
<1>2. ~worker[w].live
  BY <1>0 DEF SlotsInv, TypeInv, WorkerInv
<1>3. \A v \in Workers :
        IF v = w THEN /\ worker'[v].live /\ worker'[v].status = PickedStatus
                      /\ worker'[v].item = Picked.item
                 ELSE worker'[v] = worker[v]
  BY DEF SpawnGo, FreeWorker, SlotsInv, TypeInv, TypeOK
<1>4. \A s \in Status : LiveOf(s)' = IF s = PickedStatus THEN LiveOf(s) \cup {w} ELSE LiveOf(s)
  BY <1>2, <1>3 DEF LiveOf
<1>5. \A c \in VaultChains :
        LiveOn(c)' = IF c = PickedChain THEN LiveOn(c) \cup {w} ELSE LiveOn(c)
  BY <1>2, <1>3 DEF LiveOn, ChainOf, PickedChain
<1>6. \A s : w \notin LiveOf(s)
  BY <1>2 DEF LiveOf
<1>7. \A c : w \notin LiveOn(c)
  BY <1>2 DEF LiveOn
<1>8. spawn.avail \in [Status -> Int] /\ spawn'.avail = [spawn.avail EXCEPT ![PickedStatus] = @ - 1]
      /\ spawn'.pc = "pick" /\ spawn'.locked = spawn.locked \cup {PickedChain}
  BY DEF SpawnGo, SlotsInv, TypeInv, TypeOK, SpawnType
<1>9. ASSUME NEW s \in Status
      PROVE  /\ used'[s] = Cardinality(LiveOf(s)') + spawn'.avail[s]
             /\ used'[s] <= Capacity[s] /\ spawn'.avail[s] >= 0
  <2>1. used[s] = Cardinality(LiveOf(s)) + spawn.avail[s]
        /\ used[s] <= Capacity[s] /\ spawn.avail[s] >= 0
    BY DEF SlotsInv, SlotsBalanced
  <2>2. CASE s = PickedStatus
    <3>1. Cardinality(LiveOf(s)') = Cardinality(LiveOf(s)) + 1
      BY <1>4, <1>6, <2>2, LiveFinite, FS_AddElement
    <3>2. spawn'.avail[s] = spawn.avail[s] - 1 /\ spawn.avail[s] \in Int
      BY <1>8, <2>2
    <3>3. Cardinality(LiveOf(s)) \in Nat
      BY LiveFinite
    <3>4. QED
      BY <1>0, <2>1, <2>2, <3>1, <3>2, <3>3
  <2>3. CASE s # PickedStatus
    BY <1>0, <1>4, <1>8, <2>1, <2>3
  <2>4. QED
    BY <2>2, <2>3
<1>10. ASSUME NEW c \in VaultChains
       PROVE  /\ Cardinality(LiveOn(c)') = IF lock'[c] THEN 1 ELSE 0
              /\ lock'[c] => c \in spawn'.locked
  <2>1. Cardinality(LiveOn(c)) = (IF lock[c] THEN 1 ELSE 0)
        /\ (lock[c] => c \in spawn.locked) /\ lock \in [VaultChains -> BOOLEAN]
    BY <1>0 DEF SlotsInv, SlotsBalanced, TypeInv, TypeOK
  <2>2. CASE c = PickedChain
    <3>1. Cardinality(LiveOn(c)) = 0
      BY <1>0, <2>1, <2>2
    <3>2. Cardinality(LiveOn(c)') = Cardinality(LiveOn(c)) + 1
      BY <1>5, <1>7, <2>2, LiveFinite, FS_AddElement
    <3>3. QED
      BY <1>0, <1>8, <2>1, <2>2, <3>1, <3>2
  <2>3. CASE c # PickedChain
    BY <1>0, <1>5, <1>8, <2>1, <2>3
  <2>4. QED
    BY <2>2, <2>3
<1>11. QED
  BY <1>8, <1>9, <1>10 DEF SlotsBalanced, IdleInv, Capacity

\* A live goroutine ends or is given up.
LEMMA ReleaseSlots ==
  ASSUME SlotsInv, NEW w \in Workers, worker[w].live, ~worker'[w].live,
         \A v \in Workers \ {w} : worker'[v] = worker[v],
         ReleaseSlot(w), spawn' = spawn
  PROVE  SlotsBalanced' /\ IdleInv'
<1> DEFINE st == worker[w].status
           vc == ChainOf(w)
<1>1. st \in Status
  BY DEF SlotsInv, TypeInv, TypeOK, WorkerType
<1>2. vc \in VaultChains
  BY SignerAssumption DEF ChainOf, SlotsInv, TypeInv, WorkerInv
<1>3. used' = [used EXCEPT ![st] = @ - 1] /\ lock' = [lock EXCEPT ![vc] = FALSE]
  BY DEF ReleaseSlot
<1>4. \A s \in Status : LiveOf(s)' = IF s = st THEN LiveOf(s) \ {w} ELSE LiveOf(s)
  BY DEF LiveOf
<1>5. \A c \in VaultChains : LiveOn(c)' = IF c = vc THEN LiveOn(c) \ {w} ELSE LiveOn(c)
  BY DEF LiveOn, ChainOf
<1>6. w \in LiveOf(st) /\ w \in LiveOn(vc)
  BY DEF LiveOf, LiveOn
<1>7. used \in [Status -> Int] /\ lock \in [VaultChains -> BOOLEAN]
  BY DEF SlotsInv, TypeInv, TypeOK
<1> HIDE DEF st, vc
<1>8. ASSUME NEW s \in Status
      PROVE  /\ used'[s] = Cardinality(LiveOf(s)') + spawn.avail[s]
             /\ used'[s] <= Capacity[s] /\ spawn.avail[s] >= 0
  <2>1. used[s] = Cardinality(LiveOf(s)) + spawn.avail[s]
        /\ used[s] <= Capacity[s] /\ spawn.avail[s] >= 0
    BY DEF SlotsInv, SlotsBalanced
  <2>2. used[s] \in Int /\ Capacity[s] \in Nat /\ spawn.avail[s] \in Int
    BY CapacityType DEF SlotsInv, TypeInv, TypeOK, SpawnType
  <2>3. CASE s = st
    <3>1. Cardinality(LiveOf(s)') = Cardinality(LiveOf(s)) - 1
      BY <1>4, <1>6, <2>3, LiveFinite, FS_RemoveElement
    <3>2. QED
      BY <1>3, <1>7, <2>1, <2>2, <2>3, <3>1, LiveFinite
  <2>4. CASE s # st
    BY <1>3, <1>4, <1>7, <2>1, <2>4
  <2>5. QED
    BY <2>3, <2>4
<1>9. ASSUME NEW c \in VaultChains
      PROVE  /\ Cardinality(LiveOn(c)') = IF lock'[c] THEN 1 ELSE 0
             /\ spawn.pc = "pick" /\ lock'[c] => c \in spawn.locked
  <2>1. Cardinality(LiveOn(c)) = (IF lock[c] THEN 1 ELSE 0)
        /\ (spawn.pc = "pick" /\ lock[c] => c \in spawn.locked)
    BY DEF SlotsInv, SlotsBalanced
  <2>2. CASE c = vc
    <3>1. Cardinality(LiveOn(c)') = Cardinality(LiveOn(c)) - 1
      BY <1>5, <1>6, <2>2, LiveFinite, FS_RemoveElement
    <3>2. Cardinality(LiveOn(c)') \in Nat
      BY <1>5, <2>2, LiveFinite, FS_RemoveElement, FS_CardinalityType
    <3>3. lock'[c] = FALSE
      BY <1>3, <1>7, <2>2
    <3>4. QED
      BY <2>1, <3>1, <3>2, <3>3
  <2>3. CASE c # vc
    BY <1>3, <1>5, <1>7, <2>1, <2>3
  <2>4. QED
    BY <2>2, <2>3
<1>10. QED
  BY <1>8, <1>9 DEF SlotsBalanced, SlotsInv, IdleInv, Capacity

LEMMA NextSlots == SlotsInv /\ [Next]_vars => SlotsInv'
<1> SUFFICES ASSUME SlotsInv, [Next]_vars PROVE SlotsInv'
  OBVIOUS
<1>1. TypeInv'
  BY NextType DEF SlotsInv
<1>2. ASSUME worker' = worker PROVE SameLive
  BY <1>2 DEF SameLive
<1>3. CASE \E i \in Items : Deliver(i)
  BY <1>1, <1>2, <1>3, SlotsKept DEF Deliver, SlotsInv
<1>4. CASE SpawnStep
  <2>1. CASE \E w \in Workers : SpawnGo(w)
    BY <1>1, <2>1, SpawnGoSlots DEF SlotsInv
  <2>2. ASSUME worker' = worker
        PROVE  /\ \A s : LiveOf(s)' = LiveOf(s)
               /\ \A c : LiveOn(c)' = LiveOn(c)
    BY <1>2, <2>2, SameLiveSets
  <2>3. spawn \in SpawnType /\ used \in [Status -> Int]
    BY DEF SlotsInv, TypeInv, TypeOK
  <2>4. CASE SpawnList
    <3>1. /\ worker' = worker /\ lock' = lock /\ used' = used
          /\ spawn'.avail = spawn.avail /\ spawn'.pc = "list" /\ spawn.pc = "idle"
      BY <2>3, <2>4 DEF SpawnList, SpawnType
    <3>2. QED
      BY <1>1, <2>2, <3>1 DEF SlotsInv, SlotsBalanced, IdleInv, Capacity
  <2>5. CASE SpawnAcquire
    <3>1. /\ worker' = worker /\ lock' = lock /\ used' = Capacity
          /\ spawn'.avail = [s \in Status |-> Capacity[s] - used[s]]
          /\ spawn'.pc = "locks" /\ spawn.pc = "list"
      BY <2>3, <2>5 DEF SpawnAcquire, SpawnType
    <3>2. ASSUME NEW s \in Status
          PROVE  /\ used'[s] = Cardinality(LiveOf(s)') + spawn'.avail[s]
                 /\ used'[s] <= Capacity[s] /\ spawn'.avail[s] >= 0
      <4>1. used[s] = Cardinality(LiveOf(s)) + 0 /\ used[s] <= Capacity[s]
        BY <3>1 DEF SlotsInv, SlotsBalanced, IdleInv, NoneAvailable
      <4>2. Capacity[s] \in Nat /\ used[s] \in Int /\ Cardinality(LiveOf(s)) \in Nat
        BY <2>3, CapacityType, LiveFinite
      <4>3. used'[s] = Capacity[s] /\ spawn'.avail[s] = Capacity[s] - used[s]
            /\ LiveOf(s)' = LiveOf(s)
        BY <2>2, <3>1
      <4>4. QED
        BY <4>1, <4>2, <4>3
    <3>3. \A c \in VaultChains :
            /\ Cardinality(LiveOn(c)') = IF lock'[c] THEN 1 ELSE 0
            /\ spawn'.pc = "pick" /\ lock'[c] => c \in spawn'.locked
      BY <2>2, <3>1 DEF SlotsInv, SlotsBalanced
    <3>4. QED
      BY <1>1, <3>1, <3>2, <3>3 DEF SlotsInv, SlotsBalanced, IdleInv, Capacity
  <2>6. CASE SpawnLocks
    <3>1. /\ worker' = worker /\ lock' = lock /\ used' = used
          /\ spawn'.avail = spawn.avail /\ spawn'.pc = "pick"
          /\ spawn'.locked = {c \in VaultChains : lock[c]}
      BY <2>3, <2>6 DEF SpawnLocks, SpawnType
    <3>2. QED
      BY <1>1, <2>2, <3>1 DEF SlotsInv, SlotsBalanced, IdleInv, Capacity
  <2>7. CASE SpawnSkip
    <3>1. /\ worker' = worker /\ lock' = lock /\ used' = used
          /\ spawn'.avail = spawn.avail /\ spawn'.pc = "pick" /\ spawn.pc = "pick"
          /\ spawn'.locked = spawn.locked
      BY <2>3, <2>7 DEF SpawnSkip, SpawnType
    <3>2. QED
      BY <1>1, <2>2, <3>1 DEF SlotsInv, SlotsBalanced, IdleInv, Capacity
  <2>8. CASE SpawnEnd
    <3>1. /\ worker' = worker /\ lock' = lock
          /\ used' = [s \in Status |-> used[s] - spawn.avail[s]]
          /\ spawn' = IdleSpawn
      BY <2>8 DEF SpawnEnd
    <3>2. spawn'.pc = "idle" /\ spawn'.avail = NoneAvailable
      BY <3>1 DEF IdleSpawn
    <3>3. ASSUME NEW s \in Status
          PROVE  /\ used'[s] = Cardinality(LiveOf(s)') + spawn'.avail[s]
                 /\ used'[s] <= Capacity[s] /\ spawn'.avail[s] >= 0
      <4>1. used[s] = Cardinality(LiveOf(s)) + spawn.avail[s] /\ used[s] <= Capacity[s]
            /\ spawn.avail[s] >= 0
        BY DEF SlotsInv, SlotsBalanced
      <4>2. Capacity[s] \in Nat /\ used[s] \in Int /\ Cardinality(LiveOf(s)) \in Nat
            /\ spawn.avail[s] \in Int
        BY <2>3, CapacityType, LiveFinite DEF SpawnType
      <4>3. used'[s] = used[s] - spawn.avail[s] /\ spawn'.avail[s] = 0
            /\ LiveOf(s)' = LiveOf(s)
        BY <2>2, <3>1, <3>2 DEF NoneAvailable
      <4>4. QED
        BY <4>1, <4>2, <4>3
    <3>4. \A c \in VaultChains :
            /\ Cardinality(LiveOn(c)') = IF lock'[c] THEN 1 ELSE 0
            /\ spawn'.pc = "pick" /\ lock'[c] => c \in spawn'.locked
      BY <2>2, <3>1, <3>2 DEF SlotsInv, SlotsBalanced
    <3>5. QED
      BY <1>1, <3>2, <3>3, <3>4 DEF SlotsInv, SlotsBalanced, IdleInv, Capacity
  <2>9. QED
    BY <1>4, <2>1, <2>4, <2>5, <2>6, <2>7, <2>8 DEF SpawnStep
<1>5. CASE \E w \in Workers : Step(w)
  <2>1. PICK w \in Workers : Step(w)
    BY <1>5
  <2>2. CASE Return(w)
    <3>1. ~worker'[w].live /\ \A v \in Workers \ {w} : worker'[v] = worker[v]
      BY <2>2 DEF Return, FreeWorker, SlotsInv, TypeInv, TypeOK
    <3>2. CASE worker[w].live
      BY <1>1, <2>2, <3>1, <3>2, ReleaseSlots DEF Return, SlotsInv
    <3>3. CASE ~worker[w].live
      <4>1. SameLive
        <5>1. worker[w].live = FALSE /\ worker'[w].live = FALSE
          BY <1>1, <3>1, <3>3 DEF SlotsInv, TypeInv, TypeOK, WorkerType
        <5>2. QED
          BY <3>1, <5>1 DEF SameLive
      <4>2. QED
        BY <1>1, <2>2, <3>3, <4>1, SlotsKept DEF Return, SlotsInv, pipe
    <3>4. QED
      BY <3>2, <3>3
  <2>3. CASE ~Return(w)
    <3>1. UNCHANGED pipe /\ \E pc : Moves(w, pc)
      BY <2>1, <2>3, StepMoves DEF SlotsInv
    <3>2. SameLive
      BY <3>1 DEF SameLive, Moves
    <3>3. QED
      BY <1>1, <3>1, <3>2, SlotsKept DEF SlotsInv
  <2>4. QED
    BY <2>2, <2>3
<1>6. CASE \E w \in Workers : Timeout(w)
  <2>1. PICK w \in Workers : Timeout(w)
    BY <1>6
  <2>2. ~worker'[w].live /\ \A v \in Workers \ {w} : worker'[v] = worker[v]
    BY <2>1 DEF Timeout, SlotsInv, TypeInv, TypeOK, WorkerType
  <2>3. QED
    BY <1>1, <2>1, <2>2, ReleaseSlots DEF Timeout, SlotsInv
<1>7. CASE \E i \in Items, t \in TxIds : OthersBroadcast(i, t)
  BY <1>1, <1>2, <1>7, SlotsKept DEF OthersBroadcast, SlotsInv
<1>8. CASE Crash
  <2>1. \A v \in Workers : ~worker'[v].live
    BY <1>8 DEF Crash, FreeWorker
  <2>2. (\A s : LiveOf(s)' = {}) /\ (\A c : LiveOn(c)' = {})
    BY <2>1 DEF LiveOf, LiveOn
  <2>3. Cardinality({}) = 0
    BY FS_EmptySet
  <2>4. /\ spawn'.pc = "idle" /\ spawn'.avail = NoneAvailable /\ used' = NoneAvailable
        /\ lock' = [c \in VaultChains |-> FALSE]
    BY <1>8 DEF Crash, IdleSpawn
  <2>5. SlotsBalanced'
    <3>1. \A s \in Status : Capacity[s] >= 0
      BY CapacityType
    <3>2. \A s \in Status :
            /\ used'[s] = Cardinality(LiveOf(s)') + spawn'.avail[s]
            /\ used'[s] <= Capacity[s] /\ spawn'.avail[s] >= 0
      BY <2>2, <2>3, <2>4, <3>1 DEF NoneAvailable
    <3>3. \A c \in VaultChains :
            /\ Cardinality(LiveOn(c)') = IF lock'[c] THEN 1 ELSE 0
            /\ spawn'.pc = "pick" /\ lock'[c] => c \in spawn'.locked
      BY <2>2, <2>3, <2>4
    <3>4. QED
      BY <3>2, <3>3 DEF SlotsBalanced, Capacity
  <2>6. QED
    BY <1>1, <2>4, <2>5 DEF SlotsInv, IdleInv
<1>9. CASE Tick \/ \E c \in VaultChains : ChangeStatus(c)
  BY <1>1, <1>2, <1>9, SlotsKept DEF Tick, ChangeStatus, SlotsInv
<1>10. CASE UNCHANGED vars
  BY <1>1, <1>2, <1>10, SlotsKept DEF vars, pipe, SlotsInv
<1>11. QED
  BY <1>3, <1>4, <1>5, <1>6, <1>7, <1>8, <1>9, <1>10 DEF Next

LEMMA InitSlots ==
  ASSUME Init
  PROVE  SlotsInv /\ AllLive
<1>1. \A v \in Workers : worker[v].pc = "free" /\ ~worker[v].live
  BY DEF Init, FreeWorker
<1>2. (\A s : LiveOf(s) = {}) /\ (\A c : LiveOn(c) = {})
  BY <1>1 DEF LiveOf, LiveOn
<1>3. /\ spawn.pc = "idle" /\ spawn.avail = NoneAvailable /\ used = NoneAvailable
      /\ lock = [c \in VaultChains |-> FALSE]
  BY DEF Init, IdleSpawn
<1>4. \A s \in Status : Capacity[s] >= 0
  BY CapacityType
<1>5. SlotsBalanced
  BY <1>2, <1>3, <1>4, FS_EmptySet DEF SlotsBalanced, NoneAvailable
<1> QED
  BY <1>1, <1>3, <1>5, InitType DEF SlotsInv, IdleInv, AllLive

\* The pipeline neither loses nor invents capacity, through timeouts, crashes
\* and vaults that change their status while they are signed for, and never
\* waits for a vault/chain's lock.
THEOREM PipelineIsBalanced == Spec => []SlotsBalanced
<1>1. Init => SlotsInv
  BY InitSlots
<1>2. SlotsInv => SlotsBalanced
  BY DEF SlotsInv
<1>3. QED
  BY <1>1, <1>2, NextSlots, PTL DEF Spec

-----------------------------------------------------------------------------
(***************************************************************************)
(* Retries.  Without timeouts every goroutine is live, so that the one of  *)
(* a vault/chain keeps the vault/chain locked.                             *)
(***************************************************************************)

\* No signing takes five minutes, and none ends between the list and the locks.
Timely == ~Timeouts /\ ~ListRaces

\* SpawnSignings will not start a signing for c before it reads the list again.
Frozen(c) ==
  \/ spawn.pc \in {"list", "locks"} /\ lock[c]
  \/ spawn.pc = "pick" /\ c \in spawn.locked

\* Of i's vault/chain nothing but i is in retry.
OnlyRetry(i) == Retrying(VaultChain[i]) \subseteq {i}

RetryInv ==
  /\ SlotsInv /\ AllLive
  /\ \A c \in VaultChains : \A i, j \in Retrying(c) : i = j
  /\ \A w \in Workers : worker[w].pc # "free" => OnlyRetry(worker[w].item)
  /\ spawn.pc # "idle" => \A k \in DOMAIN spawn.todo :
       Frozen(VaultChain[spawn.todo[k].item]) \/ OnlyRetry(spawn.todo[k].item)

LEMMA Alone ==
  ASSUME SlotsInv, AllLive, NEW w \in Workers, worker[w].pc # "free"
  PROVE  /\ worker[w].item \in Items /\ ChainOf(w) \in VaultChains /\ lock[ChainOf(w)]
         /\ spawn.pc # "idle" => Frozen(ChainOf(w))
         /\ \A v \in Workers \ {w} : worker[v].pc # "free" => ChainOf(v) # ChainOf(w)
<1> DEFINE c == ChainOf(w)
<1>1. worker[w].item \in Items /\ c \in VaultChains
  BY SignerAssumption DEF SlotsInv, TypeInv, WorkerInv, ChainOf
<1>2. w \in LiveOn(c)
  BY DEF AllLive, LiveOn
<1>3. IsFiniteSet(LiveOn(c)) /\ Cardinality(LiveOn(c)) = IF lock[c] THEN 1 ELSE 0
  BY <1>1, LiveFinite DEF SlotsInv, SlotsBalanced
<1>4. lock[c]
  BY <1>2, <1>3, FS_EmptySet
<1>5. PICK x : LiveOn(c) = {x}
  BY <1>3, <1>4, FS_Singleton
<1>6. \A v \in Workers \ {w} : worker[v].pc # "free" => ChainOf(v) # c
  BY <1>2, <1>5 DEF AllLive, LiveOn
<1>7. spawn.pc # "idle" => Frozen(c)
  BY <1>1, <1>4 DEF Frozen, SlotsInv, SlotsBalanced, TypeInv, TypeOK, SpawnType
<1> QED
  BY <1>1, <1>4, <1>6, <1>7

LEMMA NextLive ==
  ASSUME Timely, TypeInv, AllLive, [Next]_vars
  PROVE  AllLive'
<1>1. ASSUME worker' = worker PROVE AllLive'
  BY <1>1 DEF AllLive
<1>2. CASE SpawnStep
  <2>1. CASE \E w \in Workers : SpawnGo(w)
    <3>1. PICK w \in Workers : SpawnGo(w)
      BY <2>1
    <3>2. \A v \in Workers : IF v = w THEN worker'[v].live ELSE worker'[v] = worker[v]
      BY <3>1 DEF SpawnGo, FreeWorker, TypeInv, TypeOK
    <3> QED
      BY <3>2 DEF AllLive
  <2>2. CASE SpawnList \/ SpawnAcquire \/ SpawnLocks \/ SpawnSkip \/ SpawnEnd
    BY <1>1, <2>2 DEF SpawnList, SpawnAcquire, SpawnLocks, SpawnSkip, SpawnEnd
  <2> QED
    BY <1>2, <2>1, <2>2 DEF SpawnStep
<1>3. CASE \E w \in Workers : Step(w)
  <2>1. PICK w \in Workers : Step(w)
    BY <1>3
  <2>2. CASE Return(w)
    <3>1. \A v \in Workers : IF v = w THEN worker'[v].pc = "free" ELSE worker'[v] = worker[v]
      BY <2>2 DEF Return, FreeWorker, TypeInv, TypeOK
    <3> QED
      BY <3>1 DEF AllLive
  <2>3. CASE ~Return(w)
    <3>1. worker[w].pc # "free" /\ \E pc : Moves(w, pc)
      BY <2>1, <2>3, StepMoves
    <3> QED
      BY <3>1 DEF AllLive, Moves
  <2> QED
    BY <2>2, <2>3
<1>4. CASE Crash
  BY <1>4 DEF Crash, AllLive, FreeWorker
<1>5. CASE \/ \E i \in Items : Deliver(i)
           \/ \E i \in Items, t \in TxIds : OthersBroadcast(i, t)
           \/ Tick \/ \E c \in VaultChains : ChangeStatus(c)
           \/ UNCHANGED vars
  BY <1>1, <1>5 DEF Deliver, OthersBroadcast, Tick, ChangeStatus, vars
<1>6. \A w \in Workers : ~Timeout(w)
  BY DEF Timely, Timeout
<1> QED
  BY <1>2, <1>3, <1>4, <1>5, <1>6 DEF Next

\* A goroutine writes to its own item only.
OwnItem(w) == \A j \in Items : j # worker[w].item =>
                (j \in stored' <=> j \in stored) /\ store'[j] = store[j]

LEMMA SetOwn ==
  ASSUME TypeInv, NEW w \in Workers, NEW value, Set(worker[w].item, value)
  PROVE  OwnItem(w)
BY DEF Set, OwnItem, TypeInv, TypeOK

LEMMA StepOwn ==
  ASSUME TypeInv, NEW w \in Workers, Step(w)
  PROVE  OwnItem(w)
<1>1. CASE Persist(w) \/ StoreRetry(w)
  BY <1>1, SetOwn DEF Persist, StoreRetry
<1>2. CASE Return(w)
  <2>1. CASE worker[w].live
    <3>1. worker[w].res \in {"ok", "err", "round7"}
      BY DEF TypeInv, TypeOK, WorkerType
    <3>2. CASE worker[w].res = "ok"
      BY <1>2, <2>1, <3>2 DEF Return, ApplyResult, OwnItem
    <3>3. CASE worker[w].res = "err"
      BY <1>2, <2>1, <3>3 DEF Return, ApplyResult, OwnItem
    <3>4. CASE worker[w].res = "round7"
      BY <1>2, <2>1, <3>4, SetOwn DEF Return, ApplyResult
    <3> QED
      BY <3>1, <3>2, <3>3, <3>4
  <2>2. CASE ~worker[w].live
    BY <1>2, <2>2 DEF Return, OwnItem
  <2> QED
    BY <2>1, <2>2
<1>3. CASE ~Return(w) /\ ~Persist(w) /\ ~StoreRetry(w)
  BY <1>3 DEF Step, CheckFails, CheckDiscards, CheckPasses, TakeVaultLock, BuildNothing,
              BuildFails, Build, KeysignDone, KeysignFails, SendAccepted, SendFails, SetSigned,
              disk, OwnItem
<1> QED
  BY <1>1, <1>2, <1>3

\* What a goroutine's step leaves alone.  Only the end of a signing unlocks its
\* vault/chain, and it is not while SpawnSignings is between list and locks.
LEMMA StepFrame ==
  ASSUME Timely, SlotsInv, AllLive, NEW w \in Workers, Step(w)
  PROVE  /\ worker[w].pc # "free"
         /\ \A v \in Workers \ {w} : worker'[v] = worker[v]
         /\ worker'[w].pc # "free" => worker'[w].item = worker[w].item
         /\ spawn' = spawn
         /\ \A c \in VaultChains : Frozen(c) => Frozen(c)'
<1>1. CASE Return(w)
  <2>1. /\ worker[w].pc # "free" /\ worker'[w].pc = "free"
        /\ \A v \in Workers \ {w} : worker'[v] = worker[v]
        /\ spawn' = spawn
    BY <1>1 DEF Return, At, FreeWorker, SlotsInv, TypeInv, TypeOK
  <2>2. spawn.pc \notin {"list", "locks"}
    BY <1>1, <2>1 DEF Return, ReleaseSlot, Timely, AllLive
  <2> QED
    BY <2>1, <2>2 DEF Frozen
<1>2. CASE ~Return(w)
  BY <1>2, StepMoves DEF SlotsInv, Moves, pipe, Frozen
<1> QED
  BY <1>1, <1>2

LEMMA TodoEntry ==
  ASSUME TypeOK, NEW k \in DOMAIN spawn.todo
  PROVE  /\ spawn.todo[k] \in [item : Items, item0 : StoreItem]
         /\ VaultChain[spawn.todo[k].item] \in VaultChains
<1>1. PICK q \in Seq([item : Items, item0 : StoreItem]) : q = spawn.todo
  BY DEF TypeOK, SpawnType
<1>2. k \in 1 .. Len(q)
  BY <1>1, LenProperties
<1>3. q[k] \in [item : Items, item0 : StoreItem]
  BY <1>2, ElementOfSeq
<1> QED
  BY <1>1, <1>3, SignerAssumption

LEMMA StepRetry ==
  ASSUME Timely, RetryInv, NEW w \in Workers, Step(w), SlotsInv', AllLive'
  PROVE  RetryInv'
<1>b. PICK i, c : i = worker[w].item /\ c = ChainOf(w)
  OBVIOUS
<1>1. /\ worker[w].pc # "free"
      /\ \A v \in Workers \ {w} : worker'[v] = worker[v]
      /\ worker'[w].pc # "free" => worker'[w].item = i
      /\ spawn' = spawn
      /\ \A d \in VaultChains : Frozen(d) => Frozen(d)'
  BY <1>b, StepFrame DEF RetryInv
<1>2. /\ i \in Items /\ c \in VaultChains
      /\ spawn.pc # "idle" => Frozen(c)
      /\ \A v \in Workers \ {w} : worker[v].pc # "free" => ChainOf(v) # c
  BY <1>b, <1>1, Alone DEF RetryInv
<1>3. OwnItem(w) /\ stored \subseteq Items /\ stored' \subseteq Items
  BY StepOwn DEF RetryInv, SlotsInv, TypeInv, TypeOK
<1>4. VaultChain[i] = c /\ Retrying(c) \subseteq {i}
  BY <1>b, <1>1 DEF RetryInv, OnlyRetry, ChainOf
<1>a. \A j \in Items : j # i => (j \in stored' <=> j \in stored) /\ store'[j] = store[j]
  BY <1>b, <1>3 DEF OwnItem
<1>5. ASSUME NEW d \in VaultChains \ {c}
      PROVE  Retrying(d)' = Retrying(d)
  <2>1. \A j \in Items : VaultChain[j] = d => j # i
    BY <1>4
  <2>2. Retrying(d)' = {j \in stored' : VaultChain[j] = d /\ InRetry(store'[j])}
    BY DEF Retrying, InRetry
  <2>3. \A j : j \in Retrying(d)' <=> j \in Retrying(d)
    BY <1>3, <1>a, <2>1, <2>2 DEF Retrying
  <2> QED
    BY <2>3
<1>6. Retrying(c)' \subseteq {i}
  <2>1. Retrying(c)' = {j \in stored' : VaultChain[j] = c /\ InRetry(store'[j])}
    BY DEF Retrying, InRetry
  <2>2. \A j \in Retrying(c)' : j # i => j \in Retrying(c)
    BY <1>3, <1>a, <2>1 DEF Retrying
  <2> QED
    BY <1>4, <2>2
<1>7. \A d \in VaultChains : \A j, k \in Retrying(d)' : j = k
  BY <1>5, <1>6 DEF RetryInv
<1>8. ASSUME NEW v \in Workers, worker'[v].pc # "free"
      PROVE  OnlyRetry(worker[v].item)'
  <2>1. CASE v = w
    <3>1. worker'[v].item = i
      BY <1>1, <1>8, <2>1
    <3> QED
      BY <1>4, <1>6, <3>1 DEF OnlyRetry
  <2>2. CASE v # w
    <3>1. worker'[v] = worker[v] /\ ChainOf(v) # c
      BY <1>1, <1>2, <1>8, <2>2
    <3>2. ChainOf(v) \in VaultChains /\ OnlyRetry(worker[v].item)
      BY <1>8, <3>1, Alone DEF RetryInv
    <3> QED
      BY <1>5, <3>1, <3>2 DEF OnlyRetry, ChainOf
  <2> QED
    BY <2>1, <2>2
<1>9. ASSUME spawn'.pc # "idle", NEW k \in DOMAIN spawn'.todo
      PROVE  Frozen(VaultChain[spawn.todo[k].item])' \/ OnlyRetry(spawn.todo[k].item)'
  <2>1. /\ spawn.pc # "idle" /\ k \in DOMAIN spawn.todo
        /\ Frozen(VaultChain[spawn.todo[k].item]) \/ OnlyRetry(spawn.todo[k].item)
    BY <1>1, <1>9 DEF RetryInv
  <2>3. VaultChain[spawn.todo[k].item] \in VaultChains
    BY <2>1, TodoEntry DEF RetryInv, SlotsInv, TypeInv
  <2> QED
    BY <1>1, <1>2, <1>5, <2>1, <2>3 DEF OnlyRetry
<1> QED
  BY <1>7, <1>8, <1>9 DEF RetryInv

\* SpawnSignings, once it has its list, only shortens it, and what is frozen
\* stays so.
LEMMA SpawnTodo ==
  ASSUME TypeInv, SpawnStep, ~SpawnList, spawn'.pc # "idle"
  PROVE  /\ spawn.pc # "idle"
         /\ \A c \in VaultChains : Frozen(c) => Frozen(c)'
         /\ \A k \in DOMAIN spawn'.todo : \E l \in DOMAIN spawn.todo :
              spawn'.todo[k] = spawn.todo[l]
<1> DEFINE R == [item : Items, item0 : StoreItem]
<1>0. spawn \in SpawnType
  BY DEF TypeInv, TypeOK
<1>1. CASE SpawnAcquire
  BY <1>0, <1>1 DEF SpawnAcquire, SpawnType, Frozen
<1>2. CASE SpawnLocks
  BY <1>0, <1>2 DEF SpawnLocks, SpawnType, Frozen
<1>3. CASE SpawnEnd
  BY <1>3 DEF SpawnEnd, IdleSpawn
<1>4. CASE SpawnSkip \/ \E w \in Workers : SpawnGo(w)
  <2>1. /\ spawn.pc = "pick" /\ spawn'.pc = "pick" /\ spawn.todo # <<>>
        /\ spawn'.todo = Tail(spawn.todo) /\ spawn.locked \subseteq spawn'.locked
    <3>1. CASE SpawnSkip
      BY <1>0, <3>1 DEF SpawnSkip, SpawnType
    <3>2. CASE \E w \in Workers : SpawnGo(w)
      BY <1>0, <3>2 DEF SpawnGo, SpawnType
    <3> QED
      BY <1>4, <3>1, <3>2
  <2>2. PICK q \in Seq(R) : q = spawn.todo
    BY <1>0 DEF SpawnType
  <2> HIDE DEF R
  <2>3. /\ Tail(q) \in Seq(R) /\ DOMAIN q = 1 .. Len(q) /\ DOMAIN Tail(q) = 1 .. Len(q) - 1
        /\ Len(q) \in Nat /\ \A k \in 1 .. Len(q) - 1 : Tail(q)[k] = q[k + 1]
    BY <2>1, <2>2, HeadTailProperties, LenProperties
  <2>4. ASSUME NEW k \in DOMAIN spawn'.todo
        PROVE  \E l \in DOMAIN spawn.todo : spawn'.todo[k] = spawn.todo[l]
    <3>1. k \in 1 .. Len(q) - 1 /\ k + 1 \in DOMAIN q /\ spawn'.todo[k] = q[k + 1]
      BY <2>1, <2>2, <2>3
    <3> QED
      BY <2>2, <3>1
  <2> QED
    BY <2>1, <2>4 DEF Frozen
<1> QED
  BY <1>1, <1>2, <1>3, <1>4 DEF SpawnStep

LEMMA SpawnListTodo ==
  ASSUME TypeInv, SpawnList
  PROVE  \A k \in DOMAIN spawn'.todo :
           /\ spawn'.todo[k].item \in ToSign
           /\ spawn'.todo[k].item0 = store[spawn'.todo[k].item]
<1>1. PICK q \in Orders(ToSign) :
        spawn' = [spawn EXCEPT !.pc = "list",
                   !.todo = [k \in DOMAIN q |-> [item |-> q[k], item0 |-> store[q[k]]]]]
  BY DEF SpawnList
<1>2. q \in [1..Cardinality(ToSign) -> ToSign]
  BY DEF Orders
<1>3. spawn'.todo = [k \in DOMAIN q |-> [item |-> q[k], item0 |-> store[q[k]]]]
  BY <1>1 DEF TypeInv, TypeOK, SpawnType
<1>4. \A k \in DOMAIN q : q[k] \in ToSign
  BY <1>2
<1> QED
  BY <1>3, <1>4

\* The goroutine that is started works on the head of the list, of a vault/chain
\* that is not frozen.
LEMMA SpawnGoPicks ==
  ASSUME TypeInv, NEW w \in Workers, SpawnGo(w)
  PROVE  /\ 1 \in DOMAIN spawn.todo /\ Picked = spawn.todo[1] /\ ~Frozen(PickedChain)
         /\ worker[w].pc = "free" /\ spawn.pc = "pick"
         /\ \A v \in Workers \ {w} : worker'[v] = worker[v]
         /\ worker'[w].pc = "check" /\ worker'[w].tx = NoTx
         /\ worker'[w].item = Picked.item /\ worker'[w].item0 = Picked.item0
<1>1. PICK q \in Seq([item : Items, item0 : StoreItem]) : q = spawn.todo
  BY DEF TypeInv, TypeOK, SpawnType
<1>2. q # <<>>
  BY <1>1 DEF SpawnGo
<1>3. 1 \in DOMAIN q /\ Head(q) = q[1]
  BY <1>1, <1>2
<1>4. ~Frozen(PickedChain) /\ worker[w].pc = "free" /\ spawn.pc = "pick"
  BY DEF SpawnGo, Frozen
<1>5. worker' = [worker EXCEPT ![w] =
       [FreeWorker EXCEPT !.pc = "check", !.item = Picked.item, !.item0 = Picked.item0,
                          !.live = TRUE, !.status = PickedStatus]]
  BY DEF SpawnGo
<1>6. /\ \A v \in Workers \ {w} : worker'[v] = worker[v]
      /\ worker'[w].pc = "check" /\ worker'[w].tx = NoTx
      /\ worker'[w].item = Picked.item /\ worker'[w].item0 = Picked.item0
  BY <1>5 DEF FreeWorker, TypeInv, TypeOK
<1> QED
  BY <1>1, <1>3, <1>4, <1>6 DEF Picked

\* Nothing comes into retry and nobody starts.
LEMMA RetryKept ==
  ASSUME RetryInv, SlotsInv', AllLive',
         \A c \in VaultChains : Retrying(c)' \subseteq Retrying(c),
         \A v \in Workers : worker'[v].pc # "free" => worker[v].pc # "free" /\ worker'[v] = worker[v],
         spawn'.pc # "idle" => UNCHANGED <<spawn, lock>>
  PROVE  RetryInv'
<1>1. \A c \in VaultChains : \A i, j \in Retrying(c)' : i = j
  BY DEF RetryInv
<1>2. ASSUME NEW v \in Workers, worker'[v].pc # "free"
      PROVE  OnlyRetry(worker[v].item)'
  <2>1. worker'[v] = worker[v] /\ worker[v].pc # "free" /\ OnlyRetry(worker[v].item)
    BY <1>2 DEF RetryInv
  <2>2. VaultChain[worker[v].item] \in VaultChains
    BY <2>1, Alone DEF RetryInv, ChainOf
  <2> QED
    BY <2>1, <2>2 DEF OnlyRetry
<1>3. ASSUME spawn'.pc # "idle", NEW k \in DOMAIN spawn'.todo
      PROVE  Frozen(VaultChain[spawn.todo[k].item])' \/ OnlyRetry(spawn.todo[k].item)'
  <2>1. /\ k \in DOMAIN spawn.todo /\ UNCHANGED <<spawn, lock>>
        /\ Frozen(VaultChain[spawn.todo[k].item]) \/ OnlyRetry(spawn.todo[k].item)
    BY <1>3 DEF RetryInv
  <2>2. VaultChain[spawn.todo[k].item] \in VaultChains
    BY <2>1, TodoEntry DEF RetryInv, SlotsInv, TypeInv
  <2> QED
    BY <2>1, <2>2 DEF OnlyRetry, Frozen
<1> QED
  BY <1>1, <1>2, <1>3 DEF RetryInv

LEMMA SpawnRetry ==
  ASSUME RetryInv, SpawnStep, SlotsInv', AllLive'
  PROVE  RetryInv'
<1>1. UNCHANGED <<stored, store>>
  BY DEF SpawnStep, SpawnList, SpawnAcquire, SpawnLocks, SpawnSkip, SpawnEnd, SpawnGo, disk
<1>2. (\A c : Retrying(c)' = Retrying(c)) /\ (\A i : OnlyRetry(i)' <=> OnlyRetry(i))
  BY <1>1 DEF Retrying, OnlyRetry
<1>3. TypeInv /\ TypeOK
  BY DEF RetryInv, SlotsInv, TypeInv
<1>4. ASSUME NEW v \in Workers, worker'[v].pc # "free"
      PROVE  OnlyRetry(worker'[v].item)
  <2>1. CASE \E w \in Workers : SpawnGo(w)
    <3>1. PICK w \in Workers : SpawnGo(w)
      BY <2>1
    <3>2. /\ 1 \in DOMAIN spawn.todo /\ Picked = spawn.todo[1] /\ ~Frozen(PickedChain)
          /\ spawn.pc = "pick" /\ \A u \in Workers \ {w} : worker'[u] = worker[u]
          /\ worker'[w].item = Picked.item
      BY <1>3, <3>1, SpawnGoPicks
    <3>3. OnlyRetry(Picked.item)
      BY <3>2 DEF RetryInv, PickedChain
    <3> QED
      BY <1>4, <3>2, <3>3 DEF RetryInv
  <2>2. CASE ~\E w \in Workers : SpawnGo(w)
    BY <1>4, <2>2 DEF SpawnStep, SpawnList, SpawnAcquire, SpawnLocks, SpawnSkip, SpawnEnd, RetryInv
  <2> QED
    BY <2>1, <2>2
<1>5. ASSUME spawn'.pc # "idle", NEW k \in DOMAIN spawn'.todo
      PROVE  Frozen(VaultChain[spawn.todo[k].item])' \/ OnlyRetry(spawn'.todo[k].item)
  <2>1. CASE SpawnList
    BY <1>3, <2>1, SpawnListTodo DEF ToSign, OnlyRetry
  <2>2. CASE ~SpawnList
    <3>1. /\ spawn.pc # "idle"
          /\ \A c \in VaultChains : Frozen(c) => Frozen(c)'
          /\ \E l \in DOMAIN spawn.todo : spawn'.todo[k] = spawn.todo[l]
      BY <1>3, <1>5, <2>2, SpawnTodo
    <3>2. PICK l \in DOMAIN spawn.todo : spawn'.todo[k] = spawn.todo[l]
      BY <3>1
    <3>3. PICK c : c = VaultChain[spawn.todo[l].item]
      OBVIOUS
    <3>4. c \in VaultChains
      BY <1>3, <3>3, TodoEntry
    <3>5. Frozen(c) \/ OnlyRetry(spawn'.todo[k].item)
      BY <3>1, <3>2, <3>3 DEF RetryInv
    <3>6. Frozen(c)' => Frozen(VaultChain[spawn.todo[k].item])'
      BY <3>2, <3>3
    <3> QED
      BY <3>1, <3>4, <3>5, <3>6
  <2> QED
    BY <2>1, <2>2
<1>6. \A c \in VaultChains : \A i, j \in Retrying(c)' : i = j
  BY <1>2 DEF RetryInv
<1>7. \A v \in Workers : worker'[v].pc # "free" => OnlyRetry(worker[v].item)'
  BY <1>1, <1>4 DEF OnlyRetry, Retrying
<1>8. spawn'.pc # "idle" => \A k \in DOMAIN spawn'.todo :
        Frozen(VaultChain[spawn.todo[k].item])' \/ OnlyRetry(spawn.todo[k].item)'
  BY <1>1, <1>5 DEF OnlyRetry, Retrying
<1> QED
  BY <1>6, <1>7, <1>8 DEF RetryInv

LEMMA NextRetry ==
  ASSUME Timely, RetryInv, [Next]_vars
  PROVE  RetryInv'
<1>1. SlotsInv' /\ AllLive'
  BY NextSlots, NextLive DEF RetryInv, SlotsInv
<1>2. CASE SpawnStep
  BY <1>1, <1>2, SpawnRetry
<1>3. CASE \E w \in Workers : Step(w)
  BY <1>1, <1>3, StepRetry
<1>4. CASE \E i \in Items : Deliver(i)
  <2>1. PICK i \in Items : Deliver(i)
    BY <1>4
  <2>2. /\ UNCHANGED <<pipe, worker>> /\ stored' = stored \cup {i}
        /\ store' = [store EXCEPT ![i] = NewStoreItem] /\ store \in [Items -> StoreItem]
        /\ stored \subseteq Items
    BY <2>1 DEF Deliver, Set, RetryInv, SlotsInv, TypeInv, TypeOK
  <2>3. ASSUME NEW c \in VaultChains PROVE Retrying(c)' \subseteq Retrying(c)
    <3>1. Retrying(c)' = {j \in stored \cup {i} : VaultChain[j] = c /\ InRetry(store'[j])}
      BY <2>2 DEF Retrying, InRetry
    <3>2. ~InRetry(store'[i])
      BY <2>2 DEF InRetry, NewStoreItem
    <3>3. \A j \in stored : j # i => store'[j] = store[j]
      BY <2>2
    <3> QED
      BY <3>1, <3>2, <3>3 DEF Retrying
  <2> QED
    BY <1>1, <2>2, <2>3, RetryKept DEF pipe
<1>5. CASE Crash
  <2>1. /\ UNCHANGED <<stored, store>> /\ spawn'.pc = "idle"
        /\ \A v \in Workers : worker'[v].pc = "free"
    BY <1>5 DEF Crash, disk, IdleSpawn, FreeWorker
  <2>2. \A c \in VaultChains : Retrying(c)' = Retrying(c)
    BY <2>1 DEF Retrying
  <2> QED
    BY <1>1, <2>1, <2>2, RetryKept
<1>6. CASE \/ \E i \in Items, t \in TxIds : OthersBroadcast(i, t)
           \/ Tick \/ \E c \in VaultChains : ChangeStatus(c)
           \/ UNCHANGED vars
  <2>1. UNCHANGED <<stored, store, worker, spawn, lock>>
    BY <1>6 DEF OthersBroadcast, Tick, ChangeStatus, vars, disk, pipe
  <2>2. \A c \in VaultChains : Retrying(c)' = Retrying(c)
    BY <2>1 DEF Retrying
  <2> QED
    BY <1>1, <2>1, <2>2, RetryKept
<1>7. \A w \in Workers : ~Timeout(w)
  BY DEF Timely, Timeout
<1> QED
  BY <1>2, <1>3, <1>4, <1>5, <1>6, <1>7 DEF Next

\* When every signing ends within its five minutes and none while SpawnSignings
\* is between its list and the locks, no vault/chain has two items in retry, which
\* would block it for ever: whatever crashes, fails, or is fetched twice.
THEOREM OneItemInRetry ==
  ASSUME Timely
  PROVE  Spec => []OneRetry
<1>1. ASSUME Init PROVE RetryInv
  <2>1. /\ stored = {} /\ spawn.pc = "idle" /\ \A w \in Workers : worker[w].pc = "free"
    BY <1>1 DEF Init, IdleSpawn, FreeWorker
  <2>2. \A c \in VaultChains : Retrying(c) = {}
    BY <2>1 DEF Retrying
  <2> QED
    BY <1>1, <2>1, <2>2, InitSlots DEF RetryInv
<1>2. RetryInv /\ [Next]_vars => RetryInv'
  BY NextRetry
<1>3. ASSUME RetryInv PROVE OneRetry
  <2> SUFFICES ASSUME NEW c \in VaultChains
               PROVE  Cardinality(Retrying(c)) <= 1
    BY DEF OneRetry
  <2>1. CASE Retrying(c) = {}
    BY <2>1, FS_EmptySet
  <2>2. CASE Retrying(c) # {}
    <3>1. PICK i \in Retrying(c) : Retrying(c) = {i}
      BY <1>3, <2>2 DEF RetryInv
    <3>2. Cardinality({i}) = 1
      BY FS_Singleton
    <3> QED
      BY <3>1, <3>2
  <2> QED
    BY <2>1, <2>2
<1> QED
  BY <1>1, <1>2, <1>3, PTL DEF Spec

-----------------------------------------------------------------------------
(***************************************************************************)
(* Payments                                                                *)
(***************************************************************************)

\* The transactions of i that are on the chain or that others may broadcast.
Payable(i) ==
  onChain[i] \cup IF Others THEN {t \in TxIds : progress[i][t] = "complete"} ELSE {}

\* The store or, until it returns, a goroutine remembers t.
Known(i, t) ==
  \/ store[i].signed = t
  \/ store[i].signed = NoTx /\ store[i].checkpoint = t
Carried(i, t) ==
  \E w \in Workers :
    /\ worker[w].item = i
    /\ \/ worker[w].pc = "persist" /\ worker[w].tx = t
       \/ worker[w].pc = "return" /\ worker[w].res = "round7" /\ worker[w].checkpoint = t

ItemPays(i) ==
  /\ \A s, t \in Payable(i) : s = t
  /\ i \in stored => \A t \in Payable(i) : Known(i, t) \/ (Others /\ Carried(i, t))
  /\ deliveries[i] = 0 => i \notin stored /\ Payable(i) = {}

\* The goroutine's copy of the item is the stored one until it stores it; a
\* checkpoint decides what is signed; what is broadcast is stored.
WorkerPays(w) ==
  LET k == worker[w] IN k.pc # "free" =>
    /\ k.item \in stored
    /\ k.pc \in {"check", "lock", "build", "keysign", "persist"} => store[k.item] = k.item0
    /\ k.pc \in {"check", "lock", "build"} => k.tx = NoTx
    /\ k.pc \in {"build", "keysign", "persist"} => k.item0.signed = NoTx
    /\ k.pc \in {"keysign", "persist"} /\ k.item0.checkpoint # NoTx
         => k.tx \in {NoTx, k.item0.checkpoint}
    /\ k.pc \in {"send", "setSigned", "storeRetry"} => store[k.item].signed = k.tx
    /\ k.pc = "return" /\ k.res = "round7" =>
         /\ store[k.item] = k.item0 /\ k.item0.signed = NoTx
         /\ k.checkpoint \in TxIds
         /\ k.item0.checkpoint # NoTx => k.checkpoint = k.item0.checkpoint

PayInv ==
  /\ SlotsInv /\ AllLive
  /\ \A i \in Items : ItemPays(i)
  /\ \A w \in Workers : WorkerPays(w)
  /\ spawn.pc # "idle" => \A k \in DOMAIN spawn.todo :
       LET e == spawn.todo[k] IN
         \/ Frozen(VaultChain[e.item])
         \/ e.item \in stored /\ store[e.item] = e.item0

\* A signature that only others hold is not met by a crash; an item is fetched
\* from THORChain once.
PayHypothesis == Timely /\ MaxDeliveries <= 1 /\ (Others => MaxCrashes = 0)

LEMMA PayableIs ==
  ASSUME TypeOK, NEW i \in Items
  PROVE  Payable(i) \subseteq TxIds /\ Payable(i) = onChain[i] \cup
           IF Others THEN {t \in TxIds : progress[i][t] = "complete"} ELSE {}
BY DEF TypeOK, Payable

\* A goroutine's step preserves the invariant if it does for its own item.
LEMMA PayFrame ==
  ASSUME Timely, PayInv, NEW w \in Workers, Step(w), SlotsInv', AllLive',
         NEW i, i = worker[w].item,
         \A j \in Items : j # i => Payable(j)' = Payable(j),
         ItemPays(i)', WorkerPays(w)'
  PROVE  PayInv'
<1> PICK c : c = ChainOf(w)
  OBVIOUS
<1>1. /\ worker[w].pc # "free"
      /\ \A v \in Workers \ {w} : worker'[v] = worker[v]
      /\ worker'[w].pc # "free" => worker'[w].item = i
      /\ spawn' = spawn
      /\ \A d \in VaultChains : Frozen(d) => Frozen(d)'
  BY StepFrame DEF PayInv
<1>2. /\ i \in Items /\ c \in VaultChains /\ VaultChain[i] = c
      /\ spawn.pc # "idle" => Frozen(c)
      /\ \A v \in Workers \ {w} : worker[v].pc # "free" => ChainOf(v) # c
  BY <1>1, Alone DEF PayInv, ChainOf
<1>3. \A j \in Items : j # i => (j \in stored' <=> j \in stored) /\ store'[j] = store[j]
  BY StepOwn DEF OwnItem, PayInv, SlotsInv
<1>4. deliveries' = deliveries
  BY DEF Step, CheckFails, CheckDiscards, CheckPasses, TakeVaultLock, BuildNothing, BuildFails,
         Build, KeysignDone, KeysignFails, Persist, SendAccepted, SendFails, SetSigned,
         StoreRetry, Return, world
<1>5. ASSUME NEW j \in Items, j # i
      PROVE  ItemPays(j)'
  <2>1. ItemPays(j)
    BY DEF PayInv
  <2>2. Payable(j)' = Payable(j) /\ (j \in stored' <=> j \in stored) /\ store'[j] = store[j]
    BY <1>3, <1>5
  <2>3. \A t : Known(j, t)' <=> Known(j, t)
    BY <2>2 DEF Known
  <2>4. ASSUME NEW t, Carried(j, t)
        PROVE  Carried(j, t)'
    <3>1. PICK v \in Workers :
            /\ worker[v].item = j
            /\ \/ worker[v].pc = "persist" /\ worker[v].tx = t
               \/ worker[v].pc = "return" /\ worker[v].res = "round7" /\ worker[v].checkpoint = t
      BY <2>4 DEF Carried
    <3>2. worker'[v] = worker[v]
      BY <1>1, <1>5, <3>1
    <3> QED
      BY <3>1, <3>2 DEF Carried
  <2> QED
    BY <1>4, <2>1, <2>2, <2>3, <2>4 DEF ItemPays
<1>6. ASSUME NEW v \in Workers, v # w
      PROVE  WorkerPays(v)'
  <2>1. WorkerPays(v) /\ worker'[v] = worker[v]
    BY <1>1, <1>6 DEF PayInv
  <2>2. CASE worker[v].pc = "free"
    BY <2>1, <2>2 DEF WorkerPays
  <2>3. CASE worker[v].pc # "free"
    <3>1. worker[v].item \in Items /\ worker[v].item # i
      BY <1>2, <1>6, <2>3, Alone DEF PayInv, ChainOf
    <3>2. (worker[v].item \in stored' <=> worker[v].item \in stored)
          /\ store'[worker[v].item] = store[worker[v].item]
      BY <1>3, <3>1
    <3> QED
      BY <2>1, <3>2 DEF WorkerPays
  <2> QED
    BY <2>2, <2>3
<1>7. ASSUME spawn'.pc # "idle", NEW k \in DOMAIN spawn'.todo
      PROVE  \/ Frozen(VaultChain[spawn.todo[k].item])'
             \/ spawn'.todo[k].item \in stored' /\ store'[spawn'.todo[k].item] = spawn'.todo[k].item0
  <2>1. k \in DOMAIN spawn.todo /\ spawn.pc # "idle"
    BY <1>1, <1>7
  <2>2. spawn.todo[k].item \in Items /\ VaultChain[spawn.todo[k].item] \in VaultChains
    BY <2>1, TodoEntry DEF PayInv, SlotsInv, TypeInv
  <2>3. PICK d : d = VaultChain[spawn.todo[k].item]
    OBVIOUS
  <2>4. \/ Frozen(d)
        \/ spawn.todo[k].item \in stored /\ store[spawn.todo[k].item] = spawn.todo[k].item0
    BY <2>1, <2>3 DEF PayInv
  <2>5. CASE Frozen(d)
    BY <1>1, <2>2, <2>3, <2>5
  <2>6. CASE ~Frozen(d)
    BY <1>1, <1>2, <1>3, <2>1, <2>2, <2>3, <2>4, <2>6
  <2> QED
    BY <2>5, <2>6
<1> QED
  BY <1>5, <1>6, <1>7 DEF PayInv

LEMMA OwnPays ==
  ASSUME PayInv, NEW w \in Workers, worker[w].pc # "free", NEW i, i = worker[w].item
  PROVE  /\ TypeOK /\ i \in Items /\ i \in stored /\ store[i] \in StoreItem
         /\ worker[w] \in WorkerType /\ worker[w].item0 \in StoreItem
         /\ WorkerPays(w) /\ ItemPays(i) /\ deliveries[i] # 0 /\ Payable(i) \subseteq TxIds
         /\ \A t \in Payable(i) :
              \/ Known(i, t)
              \/ Others /\ worker[w].pc = "persist" /\ worker[w].tx = t
              \/ Others /\ worker[w].pc = "return" /\ worker[w].res = "round7"
                        /\ worker[w].checkpoint = t
<1>1. TypeOK /\ i \in Items
  BY Alone DEF PayInv, SlotsInv, TypeInv
<1>2. WorkerPays(w) /\ ItemPays(i)
  BY <1>1 DEF PayInv
<1>3. i \in stored
  BY <1>2 DEF WorkerPays
<1>4. ASSUME NEW t, Carried(i, t)
      PROVE  \/ worker[w].pc = "persist" /\ worker[w].tx = t
             \/ worker[w].pc = "return" /\ worker[w].res = "round7" /\ worker[w].checkpoint = t
  <2>1. PICK v \in Workers :
            /\ worker[v].item = i
            /\ \/ worker[v].pc = "persist" /\ worker[v].tx = t
               \/ worker[v].pc = "return" /\ worker[v].res = "round7" /\ worker[v].checkpoint = t
    BY <1>4 DEF Carried
  <2>2. v = w
    BY <2>1, Alone DEF PayInv, ChainOf
  <2> QED
    BY <2>1, <2>2
<1>5. Payable(i) \subseteq TxIds
  BY <1>1, PayableIs
<1>6. deliveries[i] # 0
  BY <1>2, <1>3 DEF ItemPays
<1>7. \A t \in Payable(i) :
        \/ Known(i, t)
        \/ Others /\ worker[w].pc = "persist" /\ worker[w].tx = t
        \/ Others /\ worker[w].pc = "return" /\ worker[w].res = "round7"
                  /\ worker[w].checkpoint = t
  BY <1>2, <1>3, <1>4 DEF ItemPays
<1>8. store[i] \in StoreItem /\ worker[w] \in WorkerType /\ worker[w].item0 \in StoreItem
  BY <1>1 DEF TypeOK, WorkerType
<1> QED
  BY <1>1, <1>2, <1>3, <1>5, <1>6, <1>7, <1>8

\* Nothing is stored and nothing becomes payable, and w carried nothing.
LEMMA QuietPays ==
  ASSUME Timely, PayInv, NEW w \in Workers, Step(w), SlotsInv', AllLive',
         worker[w].pc \notin {"free", "persist", "return"},
         UNCHANGED <<stored, store, deliveries>>,
         \A j \in Items : Payable(j)' = Payable(j),
         WorkerPays(w)'
  PROVE  PayInv'
<1> PICK i : i = worker[w].item
  OBVIOUS
<1>1. /\ i \in Items /\ i \in stored /\ ItemPays(i) /\ deliveries[i] # 0
      /\ \A t \in Payable(i) : Known(i, t)
  BY OwnPays
<1>2. ItemPays(i)'
  BY <1>1 DEF ItemPays, Known
<1> QED
  BY <1>2, PayFrame

LEMMA SamePayable ==
  ASSUME UNCHANGED <<onChain, progress>>
  PROVE  \A j : Payable(j)' = Payable(j)
BY DEF Payable

LEMMA QuietSteps ==
  ASSUME Timely, PayInv, NEW w \in Workers, SlotsInv', AllLive',
         \/ CheckFails(w) \/ CheckDiscards(w) \/ CheckPasses(w) \/ TakeVaultLock(w)
         \/ BuildNothing(w) \/ BuildFails(w) \/ SendFails(w) \/ SetSigned(w)
  PROVE  PayInv'
<1>1. /\ Step(w) /\ worker[w].pc \notin {"free", "persist", "return"}
      /\ UNCHANGED <<stored, store, deliveries, onChain, progress>>
  BY DEF Step, CheckFails, CheckDiscards, CheckPasses, TakeVaultLock, BuildNothing, BuildFails,
         SendFails, SetSigned, At, disk, world
<1>2. \A j \in Items : Payable(j)' = Payable(j)
  BY <1>1, SamePayable
<1>3. TypeOK /\ worker[w] \in WorkerType /\ WorkerPays(w)
  BY <1>1, OwnPays
<1>4. WorkerPays(w)'
  <2>1. CASE CheckFails(w) \/ CheckDiscards(w) \/ BuildFails(w) \/ SetSigned(w)
    <3>1. /\ worker'[w].pc = "return" /\ worker'[w].res # "round7"
          /\ worker'[w].item = worker[w].item
      BY <1>3, <2>1 DEF CheckFails, CheckDiscards, BuildFails, SetSigned, Returns, TypeOK, WorkerType
    <3> QED
      BY <1>1, <1>3, <3>1 DEF WorkerPays
  <2>2. CASE CheckPasses(w) \/ BuildNothing(w) \/ SendFails(w)
    <3>1. /\ \/ worker[w].pc = "check" /\ worker'[w].pc = "lock"
             \/ worker[w].pc = "build" /\ worker'[w].pc = "persist"
             \/ worker[w].pc = "send" /\ worker'[w].pc = "storeRetry"
          /\ worker'[w].item = worker[w].item /\ worker'[w].item0 = worker[w].item0
          /\ worker'[w].tx = worker[w].tx
      BY <1>3, <2>2 DEF CheckPasses, BuildNothing, SendFails, Goto, At, TypeOK, WorkerType
    <3> QED
      BY <1>1, <1>3, <3>1 DEF WorkerPays
  <2>3. CASE TakeVaultLock(w)
    <3>1. /\ worker'[w].item = worker[w].item /\ worker'[w].item0 = worker[w].item0
          /\ worker[w].pc = "lock"
          /\ \/ /\ worker'[w].pc = "send" /\ worker'[w].tx = worker[w].item0.signed
             \/ /\ worker'[w].pc = "build" /\ worker'[w].tx = worker[w].tx
                /\ worker[w].item0.signed = NoTx
      <4>1. CASE worker[w].item0.signed # NoTx
        BY <1>3, <2>3, <4>1 DEF TakeVaultLock, At, TypeOK, WorkerType
      <4>2. CASE worker[w].item0.signed = NoTx
        BY <1>3, <2>3, <4>2 DEF TakeVaultLock, Goto, At, TypeOK, WorkerType
      <4> QED
        BY <4>1, <4>2
    <3> QED
      BY <1>1, <1>3, <3>1 DEF WorkerPays
  <2> QED
    BY <2>1, <2>2, <2>3
<1> QED
  BY <1>1, <1>2, <1>4, QuietPays

LEMMA BuildPays ==
  ASSUME Timely, PayInv, NEW w \in Workers, SlotsInv', AllLive', Build(w)
  PROVE  PayInv'
<1>1. /\ Step(w) /\ worker[w].pc = "build"
      /\ UNCHANGED <<stored, store, deliveries, onChain>>
  BY DEF Step, Build, At, disk, world
<1>2. /\ TypeOK /\ worker[w] \in WorkerType /\ WorkerPays(w)
      /\ worker[w].item \in Items
  BY <1>1, OwnPays
<1>3. PICK t \in IF worker[w].item0.checkpoint # NoTx THEN {worker[w].item0.checkpoint}
                 ELSE TxIds \ onChain[worker[w].item] :
        /\ worker' = [worker EXCEPT ![w].pc = "keysign", ![w].tx = t]
        /\ progress' = [progress EXCEPT ![worker[w].item][t] = IF @ = "none" THEN "tried" ELSE @]
  BY DEF Build
<1>4. t \in TxIds
  BY <1>2, <1>3 DEF WorkerType, StoreItem, Tx
<1>5. ASSUME NEW j \in Items PROVE Payable(j)' = Payable(j)
  <2>1. PICK i : i = worker[w].item
    OBVIOUS
  <2>2. /\ progress \in [Items -> [TxIds -> Progress]] /\ i \in Items
        /\ progress' = [progress EXCEPT ![i] = [progress[i] EXCEPT ![t] =
                         IF progress[i][t] = "none" THEN "tried" ELSE progress[i][t]]]
    BY <1>2, <1>3, <2>1 DEF TypeOK
  <2>3. \A s \in TxIds : progress'[j][s] = IF j = i /\ s = t /\ progress[i][t] = "none"
                                          THEN "tried" ELSE progress[j][s]
    BY <1>4, <2>2
  <2>4. \A s \in TxIds : progress'[j][s] = "complete" <=> progress[j][s] = "complete"
    BY <2>3
  <2> QED
    BY <1>1, <2>4 DEF Payable
<1>6. /\ worker'[w].pc = "keysign" /\ worker'[w].tx = t
      /\ worker'[w].item = worker[w].item /\ worker'[w].item0 = worker[w].item0
  BY <1>2, <1>3 DEF TypeOK, WorkerType
<1>7. WorkerPays(w)'
  BY <1>1, <1>2, <1>3, <1>6 DEF WorkerPays
<1> QED
  BY <1>1, <1>5, <1>7, QuietPays

\* A signature becomes complete.
LEMMA CompletesPayable ==
  ASSUME TypeInv, NEW w \in Workers, worker[w].pc = "keysign", Completes(w), onChain' = onChain,
         NEW i, i = worker[w].item
  PROVE  /\ \A j \in Items : j # i => Payable(j)' = Payable(j)
         /\ i \in Items
         /\ Payable(i)' = Payable(i) \cup IF Others THEN {worker[w].tx} ELSE {}
<1>1. /\ i \in Items /\ worker[w].tx \in TxIds
      /\ progress \in [Items -> [TxIds -> Progress]]
  BY DEF TypeInv, TypeOK, WorkerInv
<1>2. \A j \in Items : \A t \in TxIds :
        progress'[j][t] = IF j = i /\ t = worker[w].tx THEN "complete" ELSE progress[j][t]
  BY <1>1 DEF Completes
<1> QED
  BY <1>1, <1>2 DEF Payable

LEMMA KeysignPays ==
  ASSUME Timely, PayInv, NEW w \in Workers, SlotsInv', AllLive', KeysignDone(w) \/ KeysignFails(w)
  PROVE  PayInv'
<1> PICK i : i = worker[w].item
  OBVIOUS
<1>1. /\ Step(w) /\ worker[w].pc = "keysign"
      /\ UNCHANGED <<stored, store, deliveries, onChain>>
  BY DEF Step, KeysignDone, KeysignFails, At, disk, world
<1>2. /\ TypeOK /\ i \in Items /\ i \in stored /\ worker[w] \in WorkerType
      /\ worker[w].item0 \in StoreItem /\ WorkerPays(w) /\ ItemPays(i) /\ deliveries[i] # 0
      /\ Payable(i) \subseteq TxIds
      /\ \A t \in Payable(i) : Known(i, t)
  BY <1>1, OwnPays
<1>3. worker[w].tx \in TxIds /\ NoTx \notin TxIds
  BY <1>1, SignerAssumption DEF PayInv, SlotsInv, TypeInv, WorkerInv
<1>4. \A t \in Payable(i) : t = worker[w].tx
  BY <1>1, <1>2, <1>3 DEF WorkerPays, Known
<1>5. CASE ~(worker'[w].res = "err" /\ worker'[w].pc = "return")
  <2>1. /\ Completes(w)
        /\ worker'[w].item = i /\ worker'[w].item0 = worker[w].item0
        /\ \/ worker'[w].pc = "persist" /\ worker'[w].tx = worker[w].tx
           \/ worker'[w].pc = "return" /\ worker'[w].res = "round7"
              /\ worker'[w].checkpoint = worker[w].tx
    <3>1. CASE KeysignDone(w)
      BY <1>2, <3>1 DEF KeysignDone, Goto, TypeOK, WorkerType
    <3>2. CASE KeysignFails(w)
      <4>1. PICK res \in {"err", "round7"} :
              /\ worker' = [worker EXCEPT ![w].pc = "return", ![w].res = res,
                                          ![w].checkpoint = worker[w].tx]
              /\ IF res = "round7" THEN Completes(w) ELSE UNCHANGED progress
        BY <3>2 DEF KeysignFails
      <4>2. /\ worker'[w].pc = "return" /\ worker'[w].res = res
            /\ worker'[w].checkpoint = worker[w].tx
            /\ worker'[w].item = i /\ worker'[w].item0 = worker[w].item0
        BY <1>2, <4>1 DEF TypeOK, WorkerType
      <4> QED
        BY <1>5, <4>1, <4>2
    <3> QED
      BY <3>1, <3>2
  <2>2. /\ \A j \in Items : j # i => Payable(j)' = Payable(j)
        /\ Payable(i)' = Payable(i) \cup IF Others THEN {worker[w].tx} ELSE {}
    BY <1>1, <2>1, CompletesPayable DEF PayInv, SlotsInv
  <2>3. WorkerPays(w)'
    BY <1>1, <1>2, <1>3, <2>1 DEF WorkerPays
  <2>5. \A t \in Payable(i)' : t = worker[w].tx
    BY <1>4, <2>2
  <2>6. \A t : t = worker[w].tx => Carried(i, t)'
    BY <2>1 DEF Carried
  <2>7. Others \/ \A t \in Payable(i)' : Known(i, t)'
    BY <1>1, <1>2, <2>2 DEF Known
  <2>8. ItemPays(i)'
    BY <1>1, <1>2, <2>5, <2>6, <2>7 DEF ItemPays
  <2> QED
    BY <1>1, <2>2, <2>3, <2>8, PayFrame
<1>6. CASE worker'[w].res = "err" /\ worker'[w].pc = "return"
  <2>1. KeysignFails(w) /\ UNCHANGED progress /\ worker'[w].item = i
    <3>1. ~KeysignDone(w)
      BY <1>2, <1>6 DEF KeysignDone, Goto, TypeOK, WorkerType
    <3>2. PICK res \in {"err", "round7"} :
            /\ worker' = [worker EXCEPT ![w].pc = "return", ![w].res = res,
                                        ![w].checkpoint = worker[w].tx]
            /\ IF res = "round7" THEN Completes(w) ELSE UNCHANGED progress
      BY <3>1 DEF KeysignFails
    <3>3. worker'[w].res = res /\ worker'[w].item = i
      BY <1>2, <3>2 DEF TypeOK, WorkerType
    <3> QED
      BY <1>6, <3>1, <3>2, <3>3
  <2>2. \A j \in Items : Payable(j)' = Payable(j)
    BY <1>1, <2>1, SamePayable
  <2>3. WorkerPays(w)'
    BY <1>1, <1>2, <1>6, <2>1 DEF WorkerPays
  <2> QED
    BY <1>1, <2>2, <2>3, QuietPays
<1> QED
  BY <1>5, <1>6

\* The signed transaction is stored, or nothing was built.
LEMMA PersistPays ==
  ASSUME Timely, PayInv, NEW w \in Workers, SlotsInv', AllLive', Persist(w) \/ StoreRetry(w)
  PROVE  PayInv'
<1> PICK i : i = worker[w].item
  OBVIOUS
<1>1. /\ Step(w) /\ worker[w].pc \in {"persist", "storeRetry"}
      /\ UNCHANGED <<deliveries, onChain, progress>> /\ Set(i, Signed(w))
  BY DEF Step, Persist, StoreRetry, At, world
<1>2. /\ TypeOK /\ i \in Items /\ i \in stored /\ worker[w] \in WorkerType
      /\ worker[w].item0 \in StoreItem /\ WorkerPays(w) /\ ItemPays(i) /\ deliveries[i] # 0
      /\ Payable(i) \subseteq TxIds
      /\ \A t \in Payable(i) : Known(i, t) \/ (worker[w].pc = "persist" /\ worker[w].tx = t)
  BY <1>1, OwnPays
<1>3. \A j \in Items : Payable(j)' = Payable(j)
  BY <1>1, SamePayable
<1>4. /\ stored' = stored \cup {i} /\ store'[i].signed = worker[w].tx
      /\ store'[i].checkpoint = worker[w].item0.checkpoint
  BY <1>1, <1>2 DEF Set, Signed, TypeOK, StoreItem
<1>5. NoTx \notin TxIds
  BY SignerAssumption
<1>6. worker[w].pc = "storeRetry" => worker[w].tx \in TxIds
  BY DEF PayInv, SlotsInv, TypeInv, WorkerInv
<1>7. ASSUME NEW t \in Payable(i)
      PROVE  Known(i, t)'
  <2>1. t # NoTx
    BY <1>2, <1>5
  <2>2. CASE worker[w].pc = "persist" /\ worker[w].tx = t
    BY <1>4, <2>2 DEF Known
  <2>3. CASE worker[w].pc = "persist" /\ worker[w].tx # t
    <3>1. store[i] = worker[w].item0 /\ worker[w].item0.signed = NoTx /\ Known(i, t)
      BY <1>2, <1>7, <2>3 DEF WorkerPays
    <3>2. worker[w].item0.checkpoint = t
      BY <2>1, <3>1 DEF Known
    <3>3. worker[w].tx = NoTx
      BY <1>2, <2>1, <2>3, <3>2 DEF WorkerPays
    <3> QED
      BY <1>4, <3>2, <3>3 DEF Known
  <2>4. CASE worker[w].pc = "storeRetry"
    BY <1>2, <1>4, <1>5, <1>6, <1>7, <2>4 DEF WorkerPays, Known
  <2> QED
    BY <1>1, <2>2, <2>3, <2>4
<1>8. ItemPays(i)'
  BY <1>1, <1>2, <1>3, <1>4, <1>7 DEF ItemPays
<1>9. WorkerPays(w)'
  <2>1. /\ worker'[w].item = i /\ worker'[w].tx = worker[w].tx
        /\ \/ worker'[w].pc = "return" /\ worker'[w].res # "round7"
           \/ worker'[w].pc = "send"
    <3>1. CASE Persist(w)
      <4>1. CASE worker[w].tx = NoTx
        BY <1>2, <3>1, <4>1 DEF Persist, Returns, TypeOK, WorkerType
      <4>2. CASE worker[w].tx # NoTx
        BY <1>2, <3>1, <4>2 DEF Persist, Goto, TypeOK, WorkerType
      <4> QED
        BY <4>1, <4>2
    <3>2. CASE StoreRetry(w)
      BY <1>2, <3>2 DEF StoreRetry, Returns, TypeOK, WorkerType
    <3> QED
      BY <3>1, <3>2
  <2> QED
    BY <1>4, <2>1 DEF WorkerPays
<1> QED
  BY <1>1, <1>3, <1>8, <1>9, PayFrame

LEMMA SendPays ==
  ASSUME Timely, PayInv, NEW w \in Workers, SlotsInv', AllLive', SendAccepted(w)
  PROVE  PayInv'
<1> PICK i : i = worker[w].item
  OBVIOUS
<1>1. /\ Step(w) /\ worker[w].pc = "send"
      /\ UNCHANGED <<stored, store, deliveries, progress>>
      /\ onChain' = [onChain EXCEPT ![i] = onChain[i] \cup {worker[w].tx}]
  BY DEF Step, SendAccepted, At, disk, world
<1>2. /\ TypeOK /\ i \in Items /\ i \in stored /\ worker[w] \in WorkerType
      /\ WorkerPays(w) /\ ItemPays(i) /\ deliveries[i] # 0
      /\ \A t \in Payable(i) : Known(i, t)
  BY <1>1, OwnPays
<1>3. worker[w].tx \in TxIds /\ NoTx \notin TxIds
  BY <1>1, SignerAssumption DEF PayInv, SlotsInv, TypeInv, WorkerInv
<1>4. /\ onChain'[i] = onChain[i] \cup {worker[w].tx}
      /\ \A j \in Items : j # i => onChain'[j] = onChain[j]
  BY <1>1, <1>2 DEF TypeOK
<1>5. /\ Payable(i)' = Payable(i) \cup {worker[w].tx}
      /\ \A j \in Items : j # i => Payable(j)' = Payable(j)
  BY <1>1, <1>4 DEF Payable
<1>6. store[i].signed = worker[w].tx
  BY <1>1, <1>2 DEF WorkerPays
<1>7. \A t \in Payable(i)' : t = worker[w].tx
  BY <1>2, <1>3, <1>5, <1>6 DEF Known
<1>8. ItemPays(i)'
  BY <1>1, <1>2, <1>6, <1>7 DEF ItemPays, Known
<1>9. WorkerPays(w)'
  <2>1. worker'[w].pc = "setSigned" /\ worker'[w].item = i /\ worker'[w].tx = worker[w].tx
    BY <1>2 DEF SendAccepted, Goto, TypeOK, WorkerType
  <2> QED
    BY <1>1, <1>2, <1>6, <2>1 DEF WorkerPays
<1> QED
  BY <1>1, <1>5, <1>8, <1>9, PayFrame

\* The checkpoint goes to the store with the mark of the round 7 failure.
LEMMA ReturnPays ==
  ASSUME Timely, PayInv, NEW w \in Workers, SlotsInv', AllLive', Return(w)
  PROVE  PayInv'
<1> PICK i : i = worker[w].item
  OBVIOUS
<1>1. /\ Step(w) /\ worker[w].pc = "return" /\ worker[w].live /\ ApplyResult(w)
      /\ UNCHANGED <<deliveries, onChain, progress>>
  BY DEF Step, Return, At, world, PayInv, AllLive
<1>2. /\ TypeOK /\ i \in Items /\ i \in stored /\ worker[w] \in WorkerType
      /\ worker[w].item0 \in StoreItem /\ WorkerPays(w) /\ ItemPays(i) /\ deliveries[i] # 0
      /\ Payable(i) \subseteq TxIds
      /\ \A t \in Payable(i) : \/ Known(i, t)
                               \/ worker[w].res = "round7" /\ worker[w].checkpoint = t
  BY <1>1, OwnPays
<1>3. \A j \in Items : Payable(j)' = Payable(j)
  BY <1>1, SamePayable
<1>4. WorkerPays(w)'
  <2>1. worker'[w].pc = "free"
    BY <1>2 DEF Return, FreeWorker, TypeOK
  <2> QED
    BY <2>1 DEF WorkerPays
<1>5. ItemPays(i)'
  <2>1. worker[w].res \in {"ok", "err", "round7"}
    BY <1>2 DEF WorkerType
  <2>2. CASE worker[w].res = "ok"
    <3>1. i \notin stored'
      BY <1>1, <2>2 DEF ApplyResult
    <3> QED
      BY <1>1, <1>2, <1>3, <3>1 DEF ItemPays
  <2>3. CASE worker[w].res = "err"
    <3>1. UNCHANGED <<stored, store>>
      BY <1>1, <2>3 DEF ApplyResult
    <3> QED
      BY <1>1, <1>2, <1>3, <2>3, <3>1 DEF ItemPays, Known
  <2>4. CASE worker[w].res = "round7"
    <3>1. Set(i, [worker[w].item0 EXCEPT !.round7 = TRUE, !.checkpoint = worker[w].checkpoint])
      BY <1>1, <2>4 DEF ApplyResult
    <3>2. /\ store'[i].signed = worker[w].item0.signed
          /\ store'[i].checkpoint = worker[w].checkpoint
      BY <1>2, <3>1 DEF Set, TypeOK, StoreItem
    <3>3. /\ store[i] = worker[w].item0 /\ worker[w].item0.signed = NoTx
          /\ worker[w].item0.checkpoint # NoTx => worker[w].checkpoint = worker[w].item0.checkpoint
      BY <1>1, <1>2, <2>4 DEF WorkerPays
    <3>4. NoTx \notin TxIds
      BY SignerAssumption
    <3>5. \A t \in Payable(i) : t = worker[w].checkpoint
      BY <1>2, <3>3, <3>4 DEF Known
    <3> QED
      BY <1>1, <1>2, <1>3, <3>2, <3>3, <3>5 DEF ItemPays, Known
  <2> QED
    BY <2>1, <2>2, <2>3, <2>4
<1> QED
  BY <1>1, <1>3, <1>4, <1>5, PayFrame

LEMMA StepPays ==
  ASSUME Timely, PayInv, NEW w \in Workers, SlotsInv', AllLive', Step(w)
  PROVE  PayInv'
BY QuietSteps, BuildPays, KeysignPays, PersistPays, SendPays, ReturnPays DEF Step

LEMMA SpawnPays ==
  ASSUME PayInv, SpawnStep, SlotsInv', AllLive'
  PROVE  PayInv'
<1>1. UNCHANGED <<stored, store, deliveries, onChain, progress>>
  BY DEF SpawnStep, SpawnList, SpawnAcquire, SpawnLocks, SpawnSkip, SpawnEnd, SpawnGo, disk, world
<1>2. TypeInv /\ TypeOK
  BY DEF PayInv, SlotsInv, TypeInv
<1>3. \A v \in Workers : worker[v].pc # "free" => worker'[v] = worker[v]
  <2>1. CASE \E w \in Workers : SpawnGo(w)
    BY <1>2, <2>1, SpawnGoPicks
  <2>2. CASE ~\E w \in Workers : SpawnGo(w)
    BY <2>2 DEF SpawnStep, SpawnList, SpawnAcquire, SpawnLocks, SpawnSkip, SpawnEnd
  <2> QED
    BY <2>1, <2>2
<1>4. ASSUME NEW i \in Items
      PROVE  ItemPays(i)'
  <2>1. Payable(i)' = Payable(i) /\ \A t : Known(i, t)' <=> Known(i, t)
    BY <1>1 DEF Payable, Known
  <2>2. \A t : Carried(i, t) => Carried(i, t)'
    BY <1>3 DEF Carried
  <2>3. ItemPays(i)
    BY DEF PayInv
  <2> QED
    BY <1>1, <2>1, <2>2, <2>3 DEF ItemPays
<1>5. ASSUME NEW v \in Workers
      PROVE  WorkerPays(v)'
  <2>1. CASE \E w \in Workers : SpawnGo(w)
    <3>1. PICK w \in Workers : SpawnGo(w)
      BY <2>1
    <3>2. /\ 1 \in DOMAIN spawn.todo /\ Picked = spawn.todo[1] /\ ~Frozen(PickedChain)
          /\ spawn.pc = "pick" /\ \A u \in Workers \ {w} : worker'[u] = worker[u]
          /\ worker'[w].pc = "check" /\ worker'[w].tx = NoTx
          /\ worker'[w].item = Picked.item /\ worker'[w].item0 = Picked.item0
      BY <1>2, <3>1, SpawnGoPicks
    <3>3. Picked.item \in stored /\ store[Picked.item] = Picked.item0
      BY <3>2 DEF PayInv, PickedChain
    <3>4. CASE v = w
      BY <1>1, <3>2, <3>3, <3>4 DEF WorkerPays
    <3>5. CASE v # w
      BY <1>1, <3>2, <3>5 DEF WorkerPays, PayInv
    <3> QED
      BY <3>4, <3>5
  <2>2. CASE ~\E w \in Workers : SpawnGo(w)
    <3>1. worker' = worker
      BY <2>2 DEF SpawnStep, SpawnList, SpawnAcquire, SpawnLocks, SpawnSkip, SpawnEnd
    <3> QED
      BY <1>1, <3>1 DEF WorkerPays, PayInv
  <2> QED
    BY <2>1, <2>2
<1>6. ASSUME spawn'.pc # "idle", NEW k \in DOMAIN spawn'.todo
      PROVE  \/ Frozen(VaultChain[spawn.todo[k].item])'
             \/ spawn'.todo[k].item \in stored /\ store[spawn'.todo[k].item] = spawn'.todo[k].item0
  <2>1. CASE SpawnList
    BY <1>2, <2>1, SpawnListTodo DEF ToSign
  <2>2. CASE ~SpawnList
    <3>1. /\ spawn.pc # "idle"
          /\ \A c \in VaultChains : Frozen(c) => Frozen(c)'
          /\ \E l \in DOMAIN spawn.todo : spawn'.todo[k] = spawn.todo[l]
      BY <1>2, <1>6, <2>2, SpawnTodo
    <3>2. PICK l \in DOMAIN spawn.todo : spawn'.todo[k] = spawn.todo[l]
      BY <3>1
    <3>3. PICK c : c = VaultChain[spawn.todo[l].item]
      OBVIOUS
    <3>4. c \in VaultChains
      BY <1>2, <3>3, TodoEntry
    <3>5. \/ Frozen(c)
          \/ spawn'.todo[k].item \in stored /\ store[spawn'.todo[k].item] = spawn'.todo[k].item0
      BY <3>1, <3>2, <3>3 DEF PayInv
    <3>6. Frozen(c)' => Frozen(VaultChain[spawn.todo[k].item])'
      BY <3>2, <3>3
    <3> QED
      BY <3>1, <3>4, <3>5, <3>6
  <2> QED
    BY <2>1, <2>2
<1> QED
  BY <1>1, <1>4, <1>5, <1>6 DEF PayInv

\* An item is delivered once, so that nothing has been done with it before.
LEMMA DeliverPays ==
  ASSUME PayHypothesis, PayInv, NEW i \in Items, Deliver(i), SlotsInv', AllLive'
  PROVE  PayInv'
<1>1. /\ TypeOK /\ UNCHANGED <<spawn, lock, worker, onChain, progress>>
      /\ stored' = stored \cup {i} /\ store' = [store EXCEPT ![i] = NewStoreItem]
      /\ deliveries' = [deliveries EXCEPT ![i] = deliveries[i] + 1]
      /\ deliveries[i] < MaxDeliveries
  BY DEF Deliver, Set, pipe, PayInv, SlotsInv, TypeInv
<1>2. deliveries[i] = 0 /\ deliveries'[i] # 0
  BY <1>1, SignerAssumption DEF PayHypothesis, TypeOK
<1>3. i \notin stored /\ Payable(i) = {}
  BY <1>2 DEF PayInv, ItemPays
<1>4. \A j \in Items : j # i => /\ (j \in stored' <=> j \in stored) /\ store'[j] = store[j]
                                /\ deliveries'[j] = deliveries[j]
  BY <1>1 DEF TypeOK
<1>5. \A j \in Items : Payable(j)' = Payable(j)
  BY <1>1, SamePayable
<1>6. ASSUME NEW j \in Items
      PROVE  ItemPays(j)'
  <2>1. CASE j = i
    BY <1>2, <1>3, <1>5, <2>1 DEF ItemPays
  <2>2. CASE j # i
    BY <1>1, <1>4, <1>5, <2>2 DEF ItemPays, Known, Carried, PayInv
  <2> QED
    BY <2>1, <2>2
<1>7. ASSUME NEW v \in Workers
      PROVE  WorkerPays(v)'
  <2>1. CASE worker[v].pc = "free"
    BY <1>1, <2>1 DEF WorkerPays
  <2>2. CASE worker[v].pc # "free"
    <3>1. worker[v].item \in Items /\ worker[v].item # i
      BY <1>3, <2>2, OwnPays
    <3> QED
      BY <1>1, <1>4, <3>1 DEF WorkerPays, PayInv
  <2> QED
    BY <2>1, <2>2
<1>8. ASSUME spawn'.pc # "idle", NEW k \in DOMAIN spawn'.todo
      PROVE  \/ Frozen(VaultChain[spawn.todo[k].item])'
             \/ spawn'.todo[k].item \in stored' /\ store'[spawn'.todo[k].item] = spawn'.todo[k].item0
  <2>1. k \in DOMAIN spawn.todo /\ spawn.pc # "idle" /\ spawn.todo[k].item \in Items
    BY <1>1, <1>8, TodoEntry
  <2>2. \/ Frozen(VaultChain[spawn.todo[k].item])
        \/ spawn.todo[k].item \in stored /\ store[spawn.todo[k].item] = spawn.todo[k].item0
    BY <2>1 DEF PayInv
  <2> QED
    BY <1>1, <1>3, <1>4, <2>1, <2>2 DEF Frozen
<1> QED
  BY <1>6, <1>7, <1>8 DEF PayInv

\* The node crashes: no other party has a signature that the store has not.
LEMMA CrashPays ==
  ASSUME PayHypothesis, PayInv, Crash, SlotsInv', AllLive'
  PROVE  PayInv'
<1>1. ~Others
  <2>1. crashes < MaxCrashes /\ crashes \in Nat
    BY DEF Crash, PayInv, SlotsInv, TypeInv, TypeOK
  <2> QED
    BY <2>1 DEF PayHypothesis
<1>2. /\ UNCHANGED <<stored, store, deliveries, onChain, progress>> /\ spawn'.pc = "idle"
      /\ \A v \in Workers : worker'[v].pc = "free"
  BY DEF Crash, disk, IdleSpawn, FreeWorker
<1>3. \A j \in Items : Payable(j)' = Payable(j)
  BY <1>2, SamePayable
<1>4. \A j \in Items : ItemPays(j)'
  BY <1>1, <1>2, <1>3 DEF ItemPays, Known, PayInv
<1>5. \A v \in Workers : WorkerPays(v)'
  BY <1>2 DEF WorkerPays
<1> QED
  BY <1>2, <1>4, <1>5 DEF PayInv

LEMMA NextPays ==
  ASSUME PayHypothesis, PayInv, [Next]_vars
  PROVE  PayInv'
<1>1. SlotsInv' /\ AllLive' /\ Timely
  BY NextSlots, NextLive DEF PayInv, SlotsInv, PayHypothesis
<1>2. CASE SpawnStep
  BY <1>1, <1>2, SpawnPays
<1>3. CASE \E w \in Workers : Step(w)
  BY <1>1, <1>3, StepPays
<1>4. CASE \E i \in Items : Deliver(i)
  BY <1>1, <1>4, DeliverPays
<1>5. CASE Crash
  BY <1>1, <1>5, CrashPays
<1>6. CASE \/ \E i \in Items, t \in TxIds : OthersBroadcast(i, t)
           \/ Tick \/ \E c \in VaultChains : ChangeStatus(c)
           \/ UNCHANGED vars
  <2>1. UNCHANGED <<stored, store, deliveries, worker, spawn, lock>>
    BY <1>6 DEF OthersBroadcast, Tick, ChangeStatus, vars, disk, pipe, world
  <2>2. ASSUME NEW j \in Items
        PROVE  Payable(j)' = Payable(j)
    <3>1. CASE \E i \in Items, t \in TxIds : OthersBroadcast(i, t)
      <4>1. PICK i \in Items, t \in TxIds : OthersBroadcast(i, t)
        BY <3>1
      <4>2. /\ Others /\ progress' = progress /\ progress[i][t] = "complete"
            /\ onChain' = [onChain EXCEPT ![i] = onChain[i] \cup {t}]
            /\ onChain \in [Items -> SUBSET TxIds]
        BY <4>1 DEF OthersBroadcast, PayInv, SlotsInv, TypeInv, TypeOK
      <4>3. onChain'[j] = IF j = i THEN onChain[j] \cup {t} ELSE onChain[j]
        BY <4>2
      <4> QED
        BY <4>2, <4>3 DEF Payable
    <3>2. CASE ~\E i \in Items, t \in TxIds : OthersBroadcast(i, t)
      <4>1. UNCHANGED <<onChain, progress>>
        BY <1>6, <3>2 DEF Tick, ChangeStatus, vars
      <4> QED
        BY <4>1, SamePayable
    <3> QED
      BY <3>1, <3>2
  <2>3. \A j \in Items : ItemPays(j)'
    BY <2>1, <2>2 DEF ItemPays, Known, Carried, PayInv
  <2>4. \A v \in Workers : WorkerPays(v)'
    BY <2>1 DEF WorkerPays, PayInv
  <2> QED
    BY <1>1, <2>1, <2>3, <2>4 DEF PayInv, Frozen
<1>7. \A w \in Workers : ~Timeout(w)
  BY <1>1 DEF Timely, Timeout
<1> QED
  BY <1>2, <1>3, <1>4, <1>5, <1>6, <1>7 DEF Next

\* An item is paid by at most one transaction, for any number of items, vaults
\* and goroutines, if signings are timely, an item is fetched once and a
\* signature the node lost in a crash is not held by others: what may be paid is
\* always stored, as a signed transaction or as the checkpoint of the next
\* attempt, or on its way to the store with the one goroutine of the item.
THEOREM ItemIsPaidOnce ==
  ASSUME PayHypothesis
  PROVE  Spec => []OnePayment
<1>1. ASSUME Init PROVE PayInv
  <2>1. /\ stored = {} /\ spawn.pc = "idle" /\ \A w \in Workers : worker[w].pc = "free"
        /\ \A i \in Items : onChain[i] = {} /\ \A t \in TxIds : progress[i][t] = "none"
    BY <1>1 DEF Init, IdleSpawn, FreeWorker
  <2>2. \A i \in Items : Payable(i) = {}
    BY <2>1 DEF Payable
  <2>3. \A i \in Items : ItemPays(i)
    BY <2>1, <2>2 DEF ItemPays
  <2>4. \A w \in Workers : WorkerPays(w)
    BY <2>1 DEF WorkerPays
  <2> QED
    BY <1>1, <2>1, <2>3, <2>4, InitSlots DEF PayInv
<1>2. PayInv /\ [Next]_vars => PayInv'
  BY NextPays
<1>3. ASSUME PayInv PROVE OnePayment
  <2> SUFFICES ASSUME NEW i \in Items
               PROVE  Cardinality(onChain[i]) <= 1
    BY DEF OnePayment
  <2>1. \A s, t \in onChain[i] : s = t
    BY <1>3 DEF PayInv, ItemPays, Payable
  <2>2. CASE onChain[i] = {}
    BY <2>2, FS_EmptySet
  <2>3. CASE onChain[i] # {}
    <3>1. PICK t \in onChain[i] : onChain[i] = {t}
      BY <2>1, <2>3
    <3>2. Cardinality({t}) = 1
      BY FS_Singleton
    <3> QED
      BY <3>1, <3>2
  <2> QED
    BY <2>2, <2>3
<1> QED
  BY <1>1, <1>2, <1>3, PTL DEF Spec

=============================================================================
