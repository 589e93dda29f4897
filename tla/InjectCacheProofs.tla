-------------------------- MODULE InjectCacheProofs -------------------------
(***************************************************************************)
(* Proofs about InjectCache and the lock it uses, for any threads, keys    *)
(* and attesters: a writer is alone inside the lock, no attestation is put *)
(* into the cache again while a recent block has it, and none is lost.     *)
(*                                                                         *)
(* The lock's counters are the numbers of threads at each place.  The      *)
(* cache has one item per key, so that confirming an attestation in the    *)
(* first item of its key takes it out of the cache; a new item needs a     *)
(* pointer that is neither in the cache nor in the proposal's copy, and    *)
(* the two hold at most one per key.                                       *)
(***************************************************************************)
EXTENDS InjectCache, FiniteSetTheorems, SequenceTheorems, FunctionTheorems,
        WellFoundedInduction, TLAPS

Places == Waits \cup {"out", "read", "write"}

\* Each counter of the lock is the number of threads at its place.
LockCounts ==
  /\ readerCount = Cardinality(On("read"))
  /\ writersWaiting = Cardinality(On("writerCond"))
  /\ highPriorityReaders = Cardinality(On("priorityReaderCond"))
  /\ writerActive \in BOOLEAN
  /\ writerActive <=> On("write") # {}

LockInv ==
  /\ where \in [Threads -> Places]
  /\ awake \subseteq {t \in Threads : where[t] \in Waits}
  /\ LockCounts
  /\ Exclusive

-----------------------------------------------------------------------------
(* The lock                                                                *)

LEMMA OnIsFinite ==
  ASSUME NEW c
  PROVE  /\ IsFiniteSet(On(c))
         /\ Cardinality(On(c)) \in 0 .. Cardinality(Threads)
<1>1. On(c) \subseteq Threads
  BY DEF On
<1>2. IsFiniteSet(On(c)) /\ Cardinality(On(c)) <= Cardinality(Threads)
  BY <1>1, ThreadsAssumption, FS_Subset
<1>3. Cardinality(On(c)) \in Nat /\ Cardinality(Threads) \in Nat
  BY <1>2, ThreadsAssumption, FS_CardinalityType
<1> QED
  BY <1>2, <1>3

(* A thread that moves from one place to another is counted at the other. *)
LEMMA OnMoves ==
  ASSUME where \in [Threads -> Places], NEW t \in Threads, NEW v \in Places,
         where' = [where EXCEPT ![t] = v], NEW c
  PROVE  /\ On(c)' = IF v = c THEN On(c) \cup {t} ELSE On(c) \ {t}
         /\ Cardinality(On(c))' = Cardinality(On(c))
              + (IF v = c THEN 1 ELSE 0) - (IF where[t] = c THEN 1 ELSE 0)
<1>1. On(c)' = IF v = c THEN On(c) \cup {t} ELSE On(c) \ {t}
  BY DEF On
<1>2. t \in On(c) <=> where[t] = c
  BY DEF On
<1>3. IsFiniteSet(On(c)) /\ Cardinality(On(c)) \in Nat
  BY OnIsFinite
<1>4. /\ IsFiniteSet(On(c) \cup {t})
      /\ Cardinality(On(c) \cup {t}) =
           IF t \in On(c) THEN Cardinality(On(c)) ELSE Cardinality(On(c)) + 1
  BY <1>3, FS_AddElement
<1>5. Cardinality(On(c) \ {t}) =
        IF t \in On(c) THEN Cardinality(On(c)) - 1 ELSE Cardinality(On(c))
  BY <1>3, FS_RemoveElement
<1>6. Cardinality(On(c))' = Cardinality(On(c)')
  OBVIOUS
<1> QED
  BY <1>1, <1>2, <1>3, <1>4, <1>5, <1>6

LEMMA LockTypes ==
  ASSUME LockInv
  PROVE  LockTypeOK
<1>1. /\ readerCount \in 0 .. Cardinality(Threads)
      /\ writersWaiting \in 0 .. Cardinality(Threads)
      /\ highPriorityReaders \in 0 .. Cardinality(Threads)
  BY OnIsFinite DEF LockInv, LockCounts
<1> QED
  BY <1>1 DEF LockTypeOK, LockInv, LockCounts, Places

LEMMA NobodyInside ==
  ASSUME LockInv
  PROVE  /\ readerCount = 0 => \A u \in Threads : where[u] # "read"
         /\ ~ writerActive => \A u \in Threads : where[u] # "write"
<1>1. readerCount = 0 => On("read") = {}
  BY OnIsFinite, FS_EmptySet DEF LockInv, LockCounts
<1> QED
  BY <1>1 DEF LockInv, LockCounts, On

LEMMA AwakeOnMoves ==
  ASSUME LockInv, NEW t \in Threads, NEW v \in Places,
         where' = [where EXCEPT ![t] = v], awake' = awake \ {t}
  PROVE  /\ where' \in [Threads -> Places]
         /\ awake' \subseteq {u \in Threads : where'[u] \in Waits}
  BY DEF LockInv


\* One for a thread that is at place c, none for one that is elsewhere.
One(w, c) == IF w = c THEN 1 ELSE 0

\* Thread t goes to place v, and the counters of the two places change.
Moves(t, v) ==
  /\ where' = [where EXCEPT ![t] = v]
  /\ readerCount' = readerCount + One(v, "read") - One(where[t], "read")
  /\ writersWaiting' = writersWaiting + One(v, "writerCond") - One(where[t], "writerCond")
  /\ highPriorityReaders' = highPriorityReaders + One(v, "priorityReaderCond")
                              - One(where[t], "priorityReaderCond")
  /\ writerActive' \in BOOLEAN
  /\ writerActive' <=> On("write")' # {}

LEMMA CountsMove ==
  ASSUME LockInv, NEW t \in Threads, NEW v \in Places, Moves(t, v)
  PROVE  LockCounts'
<1>1. where \in [Threads -> Places]
  BY DEF LockInv
<1>2. \A c : Cardinality(On(c))' = Cardinality(On(c)) + One(v, c) - One(where[t], c)
  BY <1>1, OnMoves DEF One, Moves
<1> QED
  BY <1>2 DEF LockCounts, LockInv, Moves

LEMMA LockKeeps ==
  ASSUME LockInv, NEW t \in Threads, Lock(t)
  PROVE  LockInv' /\ where'[t] \in {"write", "writerCond"}
<1>1. /\ where[t] \in {"out", "writerCond"}
      /\ where \in [Threads -> Places]
      /\ readerCount \in Nat /\ highPriorityReaders \in Nat /\ writersWaiting \in Nat
  BY OnIsFinite DEF Lock, Enters, LockInv, LockCounts
<1>2. CASE MayWrite
  <2>1. where' = [where EXCEPT ![t] = "write"] /\ "write" \in Places
    BY <1>2 DEF Lock, Places
  <2>2. writerActive' = TRUE /\ On("write")' # {}
    BY <1>1, <1>2, <2>1, OnMoves DEF Lock
  <2>3. LockCounts'
    <3>1. Moves(t, "write")
      BY <1>1, <1>2, <2>1, <2>2 DEF Moves, Lock, WritersLeft, Counted, One
    <3> QED
      BY <1>1, <1>2, <2>1, <2>2, <3>1, CountsMove
  <2>4. Exclusive'
    BY <1>1, <1>2, <2>1, NobodyInside DEF MayWrite, Exclusive
  <2> QED
    BY <1>1, <2>1, <2>3, <2>4, AwakeOnMoves DEF LockInv, Lock
<1>3. CASE ~ MayWrite
  <2>1. where' = [where EXCEPT ![t] = "writerCond"] /\ "writerCond" \in Places
    BY <1>3 DEF Lock, Places, Waits
  <2>2. writerActive' = writerActive /\ On("write")' = On("write")
    BY <1>1, <1>3, <2>1 DEF Lock, On
  <2>3. LockCounts'
    <3>1. Moves(t, "writerCond")
      BY <1>1, <1>3, <2>1, <2>2 DEF Moves, Lock, Counted, One, LockInv, LockCounts
    <3> QED
      BY <1>1, <1>3, <2>1, <2>2, <3>1, CountsMove
  <2>4. Exclusive'
    BY <1>1, <2>1 DEF Exclusive, LockInv
  <2> QED
    BY <1>1, <2>1, <2>3, <2>4, AwakeOnMoves DEF LockInv, Lock
<1> QED
  BY <1>2, <1>3

LEMMA RLockKeeps ==
  ASSUME LockInv, NEW t \in Threads, RLock(t)
  PROVE  LockInv' /\ where'[t] \in {"read", "readerCond"}
<1>1. /\ where[t] \in {"out", "readerCond"}
      /\ where \in [Threads -> Places]
      /\ readerCount \in Nat /\ highPriorityReaders \in Nat /\ writersWaiting \in Nat
  BY OnIsFinite DEF RLock, Enters, LockInv, LockCounts
<1>2. PICK v \in {"read", "readerCond"} :
        /\ where' = [where EXCEPT ![t] = v]
        /\ readerCount' = readerCount + One(v, "read")
        /\ v = "read" => ~ writerActive
  BY <1>1 DEF RLock, MayRead, One
<1>3. v \in Places
  BY DEF Places, Waits
<1>4. writerActive' = writerActive /\ On("write")' = On("write")
  BY <1>1, <1>2 DEF RLock, On
<1>5. LockCounts'
  <2>1. Moves(t, v)
    BY <1>1, <1>2, <1>3, <1>4 DEF Moves, RLock, One, LockInv, LockCounts
  <2> QED
    BY <1>1, <1>2, <1>3, <1>4, <2>1, CountsMove
<1>6. Exclusive'
  BY <1>1, <1>2, NobodyInside DEF Exclusive, LockInv
<1> QED
  BY <1>1, <1>2, <1>3, <1>5, <1>6, AwakeOnMoves DEF LockInv, RLock

LEMMA RLockPriorityKeeps ==
  ASSUME LockInv, NEW t \in Threads, RLockPriority(t)
  PROVE  LockInv' /\ where'[t] \in {"read", "priorityReaderCond"}
<1>1. /\ where[t] \in {"out", "priorityReaderCond"}
      /\ where \in [Threads -> Places]
      /\ readerCount \in Nat /\ highPriorityReaders \in Nat /\ writersWaiting \in Nat
  BY OnIsFinite DEF RLockPriority, Enters, LockInv, LockCounts
<1>2. PICK v \in {"read", "priorityReaderCond"} :
        /\ where' = [where EXCEPT ![t] = v]
        /\ readerCount' = readerCount + One(v, "read")
        /\ highPriorityReaders' = Counted(t, highPriorityReaders) - One(v, "read")
        /\ v = "read" => ~ writerActive
  BY <1>1 DEF RLockPriority, One, Counted
<1>3. v \in Places
  BY DEF Places, Waits
<1>4. writerActive' = writerActive /\ On("write")' = On("write")
  BY <1>1, <1>2 DEF RLockPriority, On
<1>5. LockCounts'
  <2>1. Moves(t, v)
    BY <1>1, <1>2, <1>3, <1>4 DEF Moves, RLockPriority, One, Counted, LockInv, LockCounts
  <2> QED
    BY <1>1, <1>2, <1>3, <1>4, <2>1, CountsMove
<1>6. Exclusive'
  BY <1>1, <1>2, NobodyInside DEF Exclusive, LockInv
<1> QED
  BY <1>1, <1>2, <1>3, <1>5, <1>6, AwakeOnMoves DEF LockInv, RLockPriority

(* Whoever is woken was waiting. *)
LEMMA WokenWait ==
  ASSUME NEW c \in Waits
  PROVE  /\ Broadcast(c) \subseteq On(c)
         /\ \A s \in Signal(c) : s \subseteq On(c)
         /\ On(c) \subseteq {u \in Threads : where[u] \in Waits}
  BY DEF Broadcast, Signal, On

LEMMA AwakeOnRelease ==
  ASSUME LockInv, NEW t \in Threads, where[t] \notin Waits,
         where' = [where EXCEPT ![t] = "out"],
         NEW woken, woken \subseteq {u \in Threads : where[u] \in Waits},
         awake' = awake \cup woken
  PROVE  /\ where' \in [Threads -> Places]
         /\ awake' \subseteq {u \in Threads : where'[u] \in Waits}
  BY DEF LockInv, Places, Waits

LEMMA UnlockKeeps ==
  ASSUME LockInv, NEW t \in Threads, Unlock(t)
  PROVE  LockInv' /\ where'[t] = "out"
<1>1. /\ where[t] = "write" /\ "write" \notin Waits
      /\ where' = [where EXCEPT ![t] = "out"] /\ "out" \in Places
      /\ where \in [Threads -> Places]
      /\ readerCount \in Nat /\ highPriorityReaders \in Nat /\ writersWaiting \in Nat
  BY OnIsFinite DEF Unlock, LockInv, LockCounts, Places, Waits
<1>2. \A u \in Threads : where'[u] # "write"
  BY <1>1 DEF Exclusive, LockInv
<1>3. writerActive' = FALSE /\ On("write")' = {}
  BY <1>2 DEF Unlock, On
<1>4. LockCounts'
  <2>1. writerActive' \in BOOLEAN /\ (writerActive' <=> On("write")' # {})
    BY <1>3
  <2>2. UNCHANGED <<readerCount, writersWaiting, highPriorityReaders>>
    BY DEF Unlock
  <2>3. Moves(t, "out")
    BY <1>1, <2>1, <2>2 DEF Moves, One
  <2> QED
    BY <1>1, <2>3, CountsMove
<1>5. PICK woken : /\ awake' = awake \cup woken
                   /\ woken \subseteq {u \in Threads : where[u] \in Waits}
  <2>1. PICK woken \in IF highPriorityReaders > 0 THEN {Broadcast("priorityReaderCond")}
                       ELSE IF writersWaiting > 0 THEN Signal("writerCond")
                       ELSE {Broadcast("readerCond")} : awake' = awake \cup woken
    BY DEF Unlock
  <2>2. {"priorityReaderCond", "writerCond", "readerCond"} \subseteq Waits
    BY DEF Waits
  <2>3. \E c \in Waits : woken = Broadcast(c) \/ woken \in Signal(c)
    BY <2>1, <2>2
  <2>4. woken \subseteq {u \in Threads : where[u] \in Waits}
    BY <2>3, WokenWait
  <2> QED
    BY <2>1, <2>4
<1>6. Exclusive'
  BY <1>2 DEF Exclusive
<1>7. /\ where' \in [Threads -> Places]
      /\ awake' \subseteq {u \in Threads : where'[u] \in Waits}
  BY <1>1, <1>5, AwakeOnRelease
<1> QED
  BY <1>1, <1>4, <1>6, <1>7 DEF LockInv

LEMMA RUnlockKeeps ==
  ASSUME LockInv, NEW t \in Threads, RUnlock(t)
  PROVE  LockInv' /\ where'[t] = "out"
<1>1. /\ where[t] = "read" /\ "read" \notin Waits
      /\ where' = [where EXCEPT ![t] = "out"] /\ "out" \in Places
      /\ where \in [Threads -> Places]
      /\ readerCount \in Nat /\ highPriorityReaders \in Nat /\ writersWaiting \in Nat
  BY OnIsFinite DEF RUnlock, LockInv, LockCounts, Places, Waits
<1>2. writerActive' = writerActive /\ On("write")' = On("write")
  BY <1>1 DEF RUnlock, On
<1>3. LockCounts'
  <2>1. Moves(t, "out")
    BY <1>1, <1>2 DEF Moves, RUnlock, One, LockInv, LockCounts
  <2> QED
    BY <1>1, <1>2, <2>1, CountsMove
<1>4. PICK woken : /\ awake' = awake \cup woken
                   /\ woken \subseteq {u \in Threads : where[u] \in Waits}
  <2>1. PICK woken \in IF readerCount = 1 THEN WokenByLastReader ELSE {{}} :
          awake' = awake \cup woken
    BY DEF RUnlock
  <2>2. {"priorityReaderCond", "writerCond", "readerCond"} \subseteq Waits
    BY DEF Waits
  <2>3. \A w \in WokenByLastReader : w \subseteq {u \in Threads : where[u] \in Waits}
    BY <2>2, WokenWait DEF WokenByLastReader
  <2> QED
    BY <2>1, <2>3
<1>5. Exclusive'
  BY <1>1 DEF Exclusive, LockInv
<1>6. /\ where' \in [Threads -> Places]
      /\ awake' \subseteq {u \in Threads : where'[u] \in Waits}
  BY <1>1, <1>4, AwakeOnRelease
<1> QED
  BY <1>1, <1>3, <1>5, <1>6 DEF LockInv

LEMMA LockInitially ==
  ASSUME LockInit
  PROVE  LockInv
<1>1. where \in [Threads -> Places] /\ \A t \in Threads : where[t] = "out"
  BY DEF LockInit, Places
<1>2. On("read") = {} /\ On("writerCond") = {} /\ On("priorityReaderCond") = {}
      /\ On("write") = {}
  BY <1>1 DEF On
<1>3. LockCounts
  BY <1>2, FS_EmptySet DEF LockCounts, LockInit
<1> QED
  BY <1>1, <1>3 DEF LockInv, Exclusive, LockInit

-----------------------------------------------------------------------------
(* Least elements, and sequences some of whose entries are left out        *)

(* A set of naturals has a least element. *)
LEMMA Least ==
  ASSUME NEW S \in SUBSET Nat, S # {}
  PROVE  First(S) \in S /\ \A j \in S : First(S) <= j
<1>1. \E x \in S : \A y \in S : ~ (<<y, x>> \in OpToRel(<, Nat))
  BY WFMin, NatLessThanWellFounded
<1>2. ASSUME NEW x \in S, \A y \in S : ~ (<<y, x>> \in OpToRel(<, Nat)), NEW j \in S
      PROVE  x <= j
  <2>1. ~ (j < x)
    BY <1>2 DEF OpToRel
  <2> QED
    BY <2>1, SMT
<1>3. \E i \in S : \A j \in S : i <= j
  BY <1>1, <1>2
<1> QED
  BY <1>3, Zenon DEF First

\* How many elements of S are below j.
Below(S, j) == Cardinality({k \in S : k < j})

LEMMA BelowType ==
  ASSUME NEW S, IsFiniteSet(S), S \subseteq Nat, NEW j \in Nat
  PROVE  IsFiniteSet({k \in S : k < j}) /\ Below(S, j) \in Nat
<1>1. {k \in S : k < j} \subseteq S
  OBVIOUS
<1> QED
  BY <1>1, FS_Subset, FS_CardinalityType DEF Below

(* A finite set of naturals has an i-th element for each i up to its size; *)
(* otherwise take the least i without one and look above the one before.   *)
LEMMA NthExists ==
  ASSUME NEW S, IsFiniteSet(S), S \subseteq Nat, NEW i \in 1 .. Cardinality(S)
  PROVE  Nth(S, i) \in S /\ Below(S, Nth(S, i)) = i - 1
<1> DEFINE Ranked(r) == \E j \in S : Below(S, j) = r
           Missing == {r \in 0 .. Cardinality(S) - 1 : ~ Ranked(r)}
<1>0. Cardinality(S) \in Nat /\ \A k \in S : k \in Nat
  BY FS_CardinalityType
<1>1. Missing = {}
  <2>1. SUFFICES ASSUME Missing # {} PROVE FALSE
    OBVIOUS
  <2>2. Missing \in SUBSET Nat
    BY <1>0
  <2>3. PICK r \in Missing : \A q \in Missing : r <= q
    <3> HIDE DEF Missing
    <3> QED
      BY <2>1, <2>2, Least
  <2>4. r \in Nat /\ r < Cardinality(S) /\ ~ Ranked(r)
    BY <1>0
  <2>5. CASE r = 0
    <3>1. S # {}
      BY <2>4, <2>5, FS_EmptySet
    <3>2. PICK m \in S : \A j \in S : m <= j
      BY <3>1, Least
    <3>3. {k \in S : k < m} = {}
      <4>1. \A k \in S : ~ (k < m)
        BY <1>0, <3>2
      <4> QED
        BY <4>1
    <3>4. Below(S, m) = 0
      BY <3>3, FS_EmptySet DEF Below
    <3> QED
      BY <2>4, <2>5, <3>4
  <2>6. CASE r # 0
    <3>1. r - 1 \notin Missing
      BY <2>3, <2>4, <2>6
    <3>2. PICK j \in S : Below(S, j) = r - 1
      BY <1>0, <2>4, <2>6, <3>1
    <3> DEFINE Low == {k \in S : k < j}
               Above == {k \in S : k > j}
    <3>3. IsFiniteSet(Low) /\ Cardinality(Low) = r - 1 /\ j \notin Low
      <4>1. IsFiniteSet(Low) /\ Cardinality(Low) = r - 1
        BY <1>0, <3>2, BelowType DEF Below
      <4> QED
        BY <1>0, <4>1
    <3>4. IsFiniteSet(Low \cup {j}) /\ Cardinality(Low \cup {j}) = r
      <4>1. Cardinality(Low \cup {j}) = Cardinality(Low) + 1 /\ IsFiniteSet(Low \cup {j})
        BY <3>3, FS_AddElement
      <4> QED
        BY <2>4, <3>3, <4>1
    <3>5. Above # {}
      <4>1. SUFFICES ASSUME Above = {} PROVE FALSE
        OBVIOUS
      <4>2. \A k \in S : k < j \/ k = j
        BY <1>0, <4>1
      <4>3. S = Low \cup {j}
        BY <4>2
      <4> QED
        BY <2>4, <3>4, <4>3
    <3>6. PICK m \in Above : \A k \in Above : m <= k
      BY <3>5, Least
    <3>7. {k \in S : k < m} = Low \cup {j}
      <4>1. \A k \in S : k < m <=> k < j \/ k = j
        BY <1>0, <3>6
      <4> QED
        BY <4>1
    <3>8. Below(S, m) = r
      BY <3>4, <3>7 DEF Below
    <3> QED
      BY <2>4, <3>6, <3>8
  <2> QED
    BY <2>5, <2>6
<1>2. Ranked(i - 1)
  BY <1>0, <1>1
<1> QED
  BY <1>2, Zenon DEF Nth, Below

\* Sequence q has entries of s, each position of s at most once.
Thins(q, s, f) ==
  /\ f \in [DOMAIN q -> DOMAIN s]
  /\ \A i, j \in DOMAIN q : f[i] = f[j] => i = j
  /\ \A i \in DOMAIN q : q[i] = s[f[i]]

LEMMA PickedThins ==
  ASSUME NEW P, NEW s \in Seq(P), NEW S \in SUBSET DOMAIN s
  PROVE  /\ Picked(s, S) \in Seq(P)
         /\ \E f : Thins(Picked(s, S), s, f)
<1>1. IsFiniteSet(S) /\ Cardinality(S) \in Nat /\ S \subseteq Nat
  <2>1. DOMAIN s = 1 .. Len(s) /\ Len(s) \in Nat
    BY LenProperties
  <2>2. IsFiniteSet(1 .. Len(s))
    BY <2>1, FS_Interval
  <2> QED
    BY <2>1, <2>2, FS_Subset, FS_CardinalityType
<1>2. \A i \in 1 .. Cardinality(S) : Nth(S, i) \in S /\ Below(S, Nth(S, i)) = i - 1
  BY <1>1, NthExists
<1> DEFINE f == [i \in 1 .. Cardinality(S) |-> Nth(S, i)]
           q == Picked(s, S)
<1>3. /\ DOMAIN q = 1 .. Cardinality(S)
      /\ \A i \in 1 .. Cardinality(S) : q[i] = s[f[i]]
  BY DEF Picked
<1>4. \A i \in 1 .. Cardinality(S) : f[i] \in DOMAIN s /\ Below(S, f[i]) = i - 1
  BY <1>2
<1>5. f \in [1 .. Cardinality(S) -> DOMAIN s]
  BY <1>4
<1> HIDE DEF f
<1>6. \A i, j \in 1 .. Cardinality(S) : f[i] = f[j] => i = j
  <2>1. ASSUME NEW i \in 1 .. Cardinality(S), NEW j \in 1 .. Cardinality(S), f[i] = f[j]
        PROVE  i = j
    <3>1. i - 1 = j - 1
      BY <1>4, <2>1
    <3> QED
      BY <1>1, <3>1
  <2> QED
    BY <2>1
<1>7. Thins(q, s, f)
  BY <1>3, <1>5, <1>6 DEF Thins
<1>8. q \in Seq(P)
  <2>1. \A i \in DOMAIN s : s[i] \in P
    BY ElementOfSeq, LenProperties
  <2>2. \A i \in 1 .. Cardinality(S) : s[f[i]] \in P
    BY <1>4, <2>1
  <2>3. q = [i \in 1 .. Cardinality(S) |-> q[i]]
    BY DEF Picked
  <2> QED
    BY <1>1, <1>3, <2>2, <2>3, IsASeq
<1> QED
  BY <1>7, <1>8

(* Without one position, every other one is left. *)
LEMMA WithoutThins ==
  ASSUME NEW P, NEW s \in Seq(P), NEW i \in DOMAIN s
  PROVE  /\ Without(s, i) \in Seq(P)
         /\ \E f : /\ Thins(Without(s, i), s, f)
                   /\ \A k \in DOMAIN Without(s, i) : f[k] # i
                   /\ \A j \in DOMAIN s \ {i} : \E k \in DOMAIN Without(s, i) : f[k] = j
<1>1. DOMAIN s = 1 .. Len(s) /\ Len(s) \in Nat /\ \A k \in 1 .. Len(s) : s[k] \in P
  BY LenProperties, ElementOfSeq
<1> DEFINE a == SubSeq(s, 1, i - 1)
           b == SubSeq(s, i + 1, Len(s))
           q == Without(s, i)
           f == [k \in 1 .. Len(s) - 1 |-> IF k < i THEN k ELSE k + 1]
<1>2. /\ a \in Seq(P) /\ Len(a) = i - 1
      /\ \A k \in 1 .. i - 1 : a[k] = s[k]
  <2>1. \A k \in 1 .. i - 1 : s[k] \in P
    BY <1>1
  <2>2. /\ a \in Seq(P) /\ Len(a) = IF 1 <= i - 1 THEN i - 1 - 1 + 1 ELSE 0
        /\ \A k \in 1 .. i - 1 - 1 + 1 : a[k] = s[1 + k - 1]
    BY <1>1, <2>1, SubSeqProperties
  <2> QED
    BY <1>1, <2>2
<1>3. /\ b \in Seq(P) /\ Len(b) = Len(s) - i
      /\ \A k \in 1 .. Len(s) - i : b[k] = s[i + k]
  <2>1. \A k \in i + 1 .. Len(s) : s[k] \in P
    BY <1>1
  <2>2. /\ b \in Seq(P) /\ Len(b) = IF i + 1 <= Len(s) THEN Len(s) - (i + 1) + 1 ELSE 0
        /\ \A k \in 1 .. Len(s) - (i + 1) + 1 : b[k] = s[(i + 1) + k - 1]
    BY <1>1, <2>1, SubSeqProperties
  <2> HIDE DEF b
  <2>3. \A k \in 1 .. Len(s) - i : k \in 1 .. Len(s) - (i + 1) + 1 /\ (i + 1) + k - 1 = i + k
    BY <1>1
  <2>4. \A k \in 1 .. Len(s) - i : b[k] = s[i + k]
    BY <2>2, <2>3
  <2> QED
    BY <1>1, <2>2, <2>4
<1>4. q = a \o b
  BY DEF Without
<1> HIDE DEF a, b, q
<1>5. /\ q \in Seq(P) /\ Len(q) = Len(a) + Len(b)
      /\ \A k \in 1 .. Len(a) + Len(b) : q[k] = IF k <= Len(a) THEN a[k] ELSE b[k - Len(a)]
  BY <1>2, <1>3, <1>4, ConcatProperties
<1>6. Len(q) = Len(s) - 1 /\ DOMAIN q = 1 .. Len(s) - 1
  BY <1>1, <1>2, <1>3, <1>5, LenProperties
<1>7. \A k \in 1 .. Len(s) - 1 : q[k] = s[f[k]] /\ f[k] \in 1 .. Len(s) /\ f[k] # i
  <2>1. ASSUME NEW k \in 1 .. Len(s) - 1
        PROVE  q[k] = s[f[k]] /\ f[k] \in 1 .. Len(s) /\ f[k] # i
    <3>1. CASE k < i
      BY <1>1, <1>2, <1>3, <1>5, <3>1
    <3>2. CASE ~ (k < i)
      <4>1. q[k] = b[k - (i - 1)]
        BY <1>1, <1>2, <1>3, <1>5, <3>2
      <4>2. b[k - (i - 1)] = s[k + 1]
        <5>1. k - (i - 1) \in 1 .. Len(s) - i /\ i + (k - (i - 1)) = k + 1
          BY <1>1, <3>2
        <5> QED
          BY <1>3, <5>1
      <4> QED
        BY <1>1, <3>2, <4>1, <4>2
    <3> QED
      BY <3>1, <3>2
  <2> QED
    BY <2>1
<1>8. f \in [1 .. Len(s) - 1 -> 1 .. Len(s)]
  BY <1>7
<1>9. \A k, j \in 1 .. Len(s) - 1 : f[k] = f[j] => k = j
  BY <1>1
<1>10. \A j \in (1 .. Len(s)) \ {i} : \E k \in 1 .. Len(s) - 1 : f[k] = j
  <2>1. ASSUME NEW j \in (1 .. Len(s)) \ {i}
        PROVE  \E k \in 1 .. Len(s) - 1 : f[k] = j
    <3>1. CASE j < i
      <4>1. j \in 1 .. Len(s) - 1 /\ f[j] = j
        BY <1>1, <3>1
      <4> QED
        BY <4>1
    <3>2. CASE ~ (j < i)
      <4>1. j - 1 \in 1 .. Len(s) - 1 /\ f[j - 1] = j
        BY <1>1, <3>2
      <4> QED
        BY <4>1
    <3> QED
      BY <3>1, <3>2
  <2> QED
    BY <2>1
<1> HIDE DEF f
<1>11. Thins(q, s, f)
  BY <1>1, <1>6, <1>7, <1>8, <1>9 DEF Thins
<1>12. /\ \A k \in DOMAIN q : f[k] # i
       /\ \A j \in DOMAIN s \ {i} : \E k \in DOMAIN q : f[k] = j
  BY <1>1, <1>6, <1>7, <1>10
<1> QED
  BY <1>5, <1>11, <1>12, Zenon DEF q

-----------------------------------------------------------------------------
(* The items                                                               *)

Distinct(s, h) == \A i, j \in DOMAIN s : h[s[i]].key = h[s[j]].key => i = j

Filled(s, h) == \A i \in DOMAIN s : h[s[i]].atts # {}

Fresh(s, h, r) ==
  \A i \in DOMAIN s : \A a \in h[s[i]].atts : r[<<h[s[i]].key, a>>] = Never

\* The items s with the heap h: one for each key, none of them empty, and no
\* attestation of a recent block.
Good(s, h, r) ==
  /\ s \in Seq(Ptrs)
  /\ h \in [Ptrs -> Item]
  /\ r \in [Attestations -> 0 .. Never]
  /\ Distinct(s, h)
  /\ Filled(s, h)
  /\ Fresh(s, h, r)

LEMMA Entries ==
  ASSUME NEW P, NEW s \in Seq(P)
  PROVE  DOMAIN s \in SUBSET Nat /\ \A i \in DOMAIN s : s[i] \in P
  BY LenProperties, ElementOfSeq

LEMMA GoodThins ==
  ASSUME NEW s, NEW h, NEW r, Good(s, h, r), NEW q \in Seq(Ptrs), NEW f, Thins(q, s, f)
  PROVE  Good(q, h, r)
<1>1. \A i \in DOMAIN q : f[i] \in DOMAIN s /\ q[i] = s[f[i]]
  BY DEF Thins
<1>2. Distinct(q, h)
  <2>1. ASSUME NEW i \in DOMAIN q, NEW j \in DOMAIN q, h[q[i]].key = h[q[j]].key
        PROVE  i = j
    <3>1. f[i] = f[j]
      BY <1>1, <2>1 DEF Distinct, Good
    <3> QED
      BY <3>1 DEF Thins
  <2> QED
    BY <2>1 DEF Distinct
<1>3. Filled(q, h)
  BY <1>1 DEF Filled, Good
<1>4. Fresh(q, h, r)
  <2>1. ASSUME NEW i \in DOMAIN q, NEW a \in h[q[i]].atts
        PROVE  r[<<h[q[i]].key, a>>] = Never
    <3>1. f[i] \in DOMAIN s /\ h[q[i]] = h[s[f[i]]]
      BY <1>1
    <3> QED
      BY <3>1 DEF Fresh, Good
  <2> QED
    BY <2>1 DEF Fresh
<1> QED
  BY <1>2, <1>3, <1>4 DEF Good

LEMMA ItemExcept ==
  ASSUME NEW it \in Item, NEW A
  PROVE  [it EXCEPT !.atts = A] = [key |-> it.key, atts |-> A]
<1>1. it = [key |-> it.key, atts |-> it.atts]
  BY DEF Item
<1> QED
  BY <1>1

(* Merging attestations that no recent block has. *)
LEMMA GoodMerge ==
  ASSUME Good(items, heap, recent), NEW i \in DOMAIN items,
         NEW new \in SUBSET Attesters,
         \A a \in new : recent[<<heap[items[i]].key, a>>] = Never,
         heap' = [heap EXCEPT ![items[i]].atts = Merged(@, new)]
  PROVE  /\ Good(items, heap', recent)
         /\ \A p \in Ptrs : heap'[p].key = heap[p].key /\ heap[p].atts \subseteq heap'[p].atts
         /\ new \subseteq heap'[items[i]].atts
<1>1. /\ items[i] \in Ptrs /\ heap \in [Ptrs -> Item] /\ items \in Seq(Ptrs)
      /\ \A j \in DOMAIN items : items[j] \in Ptrs
  BY Entries DEF Good
<1>2. heap[items[i]] \in Item
  BY <1>1
<1> DEFINE it == [key |-> heap[items[i]].key, atts |-> heap[items[i]].atts \cup new]
<1>3. heap' = [heap EXCEPT ![items[i]] = it]
  <2>1. [heap[items[i]] EXCEPT !.atts = Merged(heap[items[i]].atts, new)] = it
    BY <1>2, ItemExcept DEF Merged
  <2>2. heap' = [heap EXCEPT ![items[i]] = [heap[items[i]] EXCEPT !.atts = Merged(heap[items[i]].atts, new)]]
    OBVIOUS
  <2> QED
    BY <2>1, <2>2
<1>4. it \in Item
  BY <1>2 DEF Item
<1>5. heap' \in [Ptrs -> Item]
  BY <1>1, <1>3, <1>4
<1>6. /\ \A p \in Ptrs : p # items[i] => heap'[p] = heap[p]
      /\ heap'[items[i]].key = heap[items[i]].key
      /\ heap'[items[i]].atts = heap[items[i]].atts \cup new
  BY <1>1, <1>2, <1>3 DEF Item
<1>7. \A p \in Ptrs : heap'[p].key = heap[p].key /\ heap[p].atts \subseteq heap'[p].atts
  BY <1>6
<1>8. Distinct(items, heap')
  BY <1>1, <1>7, Zenon DEF Distinct, Good
<1>9. Filled(items, heap')
  BY <1>1, <1>7 DEF Filled, Good
<1>10. Fresh(items, heap', recent)
  <2>1. ASSUME NEW j \in DOMAIN items, NEW a \in heap'[items[j]].atts
        PROVE  recent[<<heap'[items[j]].key, a>>] = Never
    <3>1. heap'[items[j]].key = heap[items[j]].key
      BY <1>1, <1>7
    <3>2. CASE items[j] = items[i]
      BY <1>6, <3>1, <3>2 DEF Fresh, Good
    <3>3. CASE items[j] # items[i]
      BY <1>1, <1>6, <3>1, <3>3 DEF Fresh, Good
    <3> QED
      BY <3>2, <3>3
  <2> QED
    BY <2>1 DEF Fresh
<1>11. Good(items, heap', recent)
  BY <1>5, <1>8, <1>9, <1>10 DEF Good
<1>12. new \subseteq heap'[items[i]].atts
  BY <1>6
<1> QED
  BY <1>7, <1>11, <1>12

(* A new item behind a pointer nobody uses. *)
NewItem(p, k, new) ==
  /\ p \in Ptrs /\ (\A i \in DOMAIN items : items[i] # p)
  /\ k \in Keys /\ (\A i \in DOMAIN items : heap[items[i]].key # k)
  /\ new \in SUBSET Attesters /\ new # {}
  /\ \A a \in new : recent[<<k, a>>] = Never
  /\ heap' = [heap EXCEPT ![p] = [key |-> k, atts |-> new]]
  /\ items' = Append(items, p)

LEMMA GoodAppend ==
  ASSUME Good(items, heap, recent), NEW p, NEW k, NEW new, NewItem(p, k, new)
  PROVE  /\ Good(items', heap', recent)
         /\ \A o \in Ptrs : o # p => heap'[o] = heap[o]
         /\ heap'[p].key = k /\ heap'[p].atts = new
         /\ DOMAIN items' = DOMAIN items \cup {Len(items) + 1} /\ items'[Len(items) + 1] = p
         /\ \A i \in DOMAIN items : items'[i] = items[i]
<1> DEFINE l == Len(items) + 1
<1> USE DEF NewItem
<1>1. /\ heap \in [Ptrs -> Item] /\ items \in Seq(Ptrs)
      /\ \A j \in DOMAIN items : items[j] \in Ptrs
  BY Entries DEF Good
<1>2. [key |-> k, atts |-> new] \in Item
  BY DEF Item
<1>3. /\ heap' \in [Ptrs -> Item]
      /\ \A o \in Ptrs : o # p => heap'[o] = heap[o]
      /\ heap'[p].key = k /\ heap'[p].atts = new
  BY <1>1, <1>2
<1>4. /\ items' \in Seq(Ptrs) /\ DOMAIN items' = DOMAIN items \cup {l} /\ items'[l] = p
      /\ \A i \in DOMAIN items : items'[i] = items[i]
      /\ l \notin DOMAIN items
  <2>1. /\ items' \in Seq(Ptrs) /\ Len(items') = Len(items) + 1
        /\ \A i \in 1 .. Len(items) : items'[i] = items[i]
        /\ items'[Len(items) + 1] = p
    BY <1>1, AppendProperties
  <2>2. Len(items) \in Nat /\ DOMAIN items = 1 .. Len(items) /\ DOMAIN items' = 1 .. Len(items')
    BY <1>1, <2>1, LenProperties
  <2> QED
    BY <2>1, <2>2
<1> HIDE DEF l
<1>5. \A i \in DOMAIN items : heap'[items'[i]] = heap[items[i]]
  BY <1>1, <1>3, <1>4
<1>6. heap'[items'[l]].key = k /\ heap'[items'[l]].atts = new
  BY <1>3, <1>4
<1>7. Distinct(items', heap')
  <2>1. ASSUME NEW i \in DOMAIN items', NEW j \in DOMAIN items', heap'[items'[i]].key = heap'[items'[j]].key
        PROVE  i = j
    <3>1. CASE i \in DOMAIN items /\ j \in DOMAIN items
      BY <1>5, <2>1, <3>1 DEF Distinct, Good
    <3>2. CASE i \in DOMAIN items /\ j = l
      BY <1>5, <1>6, <2>1, <3>2
    <3>3. CASE i = l /\ j \in DOMAIN items
      BY <1>5, <1>6, <2>1, <3>3
    <3>4. CASE i = l /\ j = l
      BY <3>4
    <3> QED
      BY <1>4, <3>1, <3>2, <3>3, <3>4
  <2> QED
    BY <2>1 DEF Distinct
<1>8. Filled(items', heap')
  BY <1>4, <1>5, <1>6 DEF Filled, Good
<1>9. Fresh(items', heap', recent)
  <2>1. ASSUME NEW i \in DOMAIN items', NEW a \in heap'[items'[i]].atts
        PROVE  recent[<<heap'[items'[i]].key, a>>] = Never
    <3>1. CASE i \in DOMAIN items
      BY <1>5, <3>1 DEF Fresh, Good
    <3>2. CASE i = l
      BY <1>6, <3>2
    <3> QED
      BY <1>4, <3>1, <3>2
  <2> QED
    BY <2>1 DEF Fresh
<1>10. Good(items', heap', recent)
  BY <1>3, <1>4, <1>7, <1>8, <1>9 DEF Good
<1> QED
  BY <1>3, <1>4, <1>10 DEF l

LEMMA InCacheIs ==
  ASSUME NEW x
  PROVE  x \in InCache <=> \E i \in DOMAIN items : \E a \in heap[items[i]].atts :
                               x = <<heap[items[i]].key, a>>
  BY DEF InCache, Of

LEMMA OfIs ==
  ASSUME NEW k, NEW A
  PROVE  \A b, a : <<b, a>> \in Of(k, A) <=> b = k /\ a \in A
  BY DEF Of

LEMMA NeverIs == Never \in Nat /\ Old \in Nat /\ Old < Never /\ Never # 0
  BY InjectCacheAssumption DEF Never, Old

(* What a confirmed message leaves of the memory of recent blocks. *)
LEMMA RememberedIs ==
  ASSUME recent \in [Attestations -> 0 .. Never], NEW m \in Message
  PROVE  /\ Remembered(m) \in [Attestations -> 0 .. Never]
         /\ \A x \in Attestations : x \in Of(m.key, m.atts) => Remembered(m)[x] = 0
         /\ \A x \in Attestations :
              x \notin Of(m.key, m.atts) /\ recent[x] = Never => Remembered(m)[x] = Never
  BY NeverIs DEF Remembered

LEMMA FirstWithKey ==
  ASSUME items \in Seq(Ptrs), NEW k, WithKey(k) # {}
  PROVE  First(WithKey(k)) \in DOMAIN items /\ heap[items[First(WithKey(k))]].key = k
<1>1. WithKey(k) \in SUBSET Nat
  BY Entries DEF WithKey
<1>2. First(WithKey(k)) \in WithKey(k)
  BY <1>1, Least
<1> QED
  BY <1>2 DEF WithKey

(* Confirming takes the message's attestations out of the cache, and only   *)
(* those.                                                                   *)
LEMMA GoodMark ==
  ASSUME Good(items, heap, recent), NEW m \in Message, m = Head(block),
         MarkAttestationsConfirmedAndAddToBlock
  PROVE  /\ Good(items', heap', recent')
         /\ \A x \in InCache \ InCache' : recent'[x] = 0
<1>1. /\ items \in Seq(Ptrs) /\ heap \in [Ptrs -> Item]
      /\ recent \in [Attestations -> 0 .. Never]
      /\ \A i \in DOMAIN items : items[i] \in Ptrs /\ heap[items[i]] \in Item
  BY Entries DEF Good
<1>2. \A i \in DOMAIN items : \A a \in heap[items[i]].atts :
        <<heap[items[i]].key, a>> \in Attestations
  BY <1>1 DEF Item, Attestations
<1>3. recent' = Remembered(m)
  BY DEF MarkAttestationsConfirmedAndAddToBlock
<1>4. \A i \in DOMAIN items : heap[items[i]].key # m.key =>
        \A a \in heap[items[i]].atts : recent'[<<heap[items[i]].key, a>>] = Never
  BY <1>1, <1>2, <1>3, RememberedIs, OfIs DEF Good, Fresh
<1>5. recent' \in [Attestations -> 0 .. Never]
  BY <1>1, <1>3, RememberedIs
<1>6. CASE WithKey(m.key) = {}
  <2>1. items' = items /\ heap' = heap
    BY <1>6 DEF MarkAttestationsConfirmedAndAddToBlock
  <2>2. \A i \in DOMAIN items : heap[items[i]].key # m.key
    BY <1>6 DEF WithKey
  <2>3. Fresh(items, heap, recent')
    BY <1>4, <2>2 DEF Fresh
  <2>4. Good(items', heap', recent')
    BY <1>5, <2>1, <2>3 DEF Good
  <2>5. InCache' = InCache
    BY <2>1 DEF InCache
  <2> QED
    BY <2>4, <2>5
<1>7. CASE WithKey(m.key) # {}
  <2> DEFINE i == First(WithKey(m.key))
             rest == heap[items[i]].atts \ m.atts
             it == [key |-> heap[items[i]].key, atts |-> rest]
  <2>1. i \in DOMAIN items /\ heap[items[i]].key = m.key
    BY <1>1, <1>7, FirstWithKey
  <2>2. /\ heap' = [heap EXCEPT ![items[i]].atts = rest]
        /\ items' = IF rest = {} THEN Without(items, i) ELSE items
    BY <1>7 DEF MarkAttestationsConfirmedAndAddToBlock
  <2> HIDE DEF i
  <2>3. heap' = [heap EXCEPT ![items[i]] = it]
    <3>1. [heap[items[i]] EXCEPT !.atts = rest] = it
      BY <1>1, <2>1, ItemExcept
    <3>2. heap' = [heap EXCEPT ![items[i]] = [heap[items[i]] EXCEPT !.atts = rest]]
      BY <2>2
    <3> QED
      BY <3>1, <3>2
  <2>4. it \in Item
    BY <1>1, <2>1 DEF Item
  <2>5. /\ heap' \in [Ptrs -> Item]
        /\ heap'[items[i]] = it
        /\ \A p \in Ptrs : p # items[i] => heap'[p] = heap[p]
    BY <1>1, <2>1, <2>3, <2>4
  <2>6. \A j \in DOMAIN items : j # i =>
          items[j] # items[i] /\ heap[items[j]].key # m.key
    BY <2>1 DEF Good, Distinct
  <2>7. \A j \in DOMAIN items : j # i => heap'[items[j]] = heap[items[j]]
    BY <1>1, <2>5, <2>6
  <2>8. it.key = m.key /\ it.atts = rest
    BY <2>1
  <2> HIDE DEF it
  <2>9. Distinct(items, heap')
    <3>1. \A j \in DOMAIN items : heap'[items[j]].key = heap[items[j]].key
      BY <2>1, <2>5, <2>7, <2>8
    <3> QED
      BY <3>1 DEF Distinct, Good
  <2>10. Fresh(items, heap', recent')
    <3>1. ASSUME NEW j \in DOMAIN items, NEW a \in heap'[items[j]].atts
          PROVE  recent'[<<heap'[items[j]].key, a>>] = Never
      <4>1. CASE j = i
        <5>1. a \in heap[items[i]].atts /\ a \notin m.atts
          BY <2>5, <2>8, <3>1, <4>1
        <5>2. <<m.key, a>> \in Attestations /\ recent[<<m.key, a>>] = Never
          BY <1>2, <2>1, <5>1 DEF Good, Fresh
        <5>3. <<m.key, a>> \notin Of(m.key, m.atts)
          BY <5>1, OfIs
        <5>4. recent'[<<m.key, a>>] = Never
          BY <1>1, <1>3, <5>2, <5>3, RememberedIs
        <5> QED
          BY <2>5, <2>8, <4>1, <5>4
      <4>2. CASE j # i
        BY <1>4, <2>6, <2>7, <3>1, <4>2
      <4> QED
        BY <4>1, <4>2
    <3> QED
      BY <3>1 DEF Fresh
  <2>11. \A j \in DOMAIN items : j # i \/ rest # {} => heap'[items[j]].atts # {}
    BY <2>5, <2>7, <2>8 DEF Good, Filled
  <2>12. ASSUME NEW x \in InCache,
                \A j \in DOMAIN items : \A a \in heap[items[j]].atts :
                  j # i /\ x = <<heap[items[j]].key, a>> => x \in InCache',
                rest # {} => \A a \in rest : x = <<m.key, a>> => x \in InCache'
         PROVE  x \in InCache' \/ recent'[x] = 0
    <3>1. PICK j \in DOMAIN items : \E a \in heap[items[j]].atts :
            x = <<heap[items[j]].key, a>>
      BY InCacheIs
    <3>2. PICK a \in heap[items[j]].atts : x = <<heap[items[j]].key, a>>
      BY <3>1
    <3>3. CASE j # i
      BY <2>12, <3>2, <3>3
    <3>4. CASE j = i /\ a \notin m.atts
      BY <2>1, <2>12, <3>2, <3>4
    <3>5. CASE j = i /\ a \in m.atts
      <4>1. x \in Attestations /\ x \in Of(m.key, m.atts)
        BY <1>2, <2>1, <3>2, <3>5, OfIs
      <4> QED
        BY <1>1, <1>3, <4>1, RememberedIs
    <3> QED
      BY <3>3, <3>4, <3>5
  <2>13. CASE rest # {}
    <3>1. items' = items
      BY <2>2, <2>13
    <3>2. Good(items', heap', recent')
      BY <1>1, <1>5, <2>5, <2>9, <2>10, <2>11, <2>13, <3>1 DEF Good, Filled
    <3>3. \A j \in DOMAIN items : \A a \in heap'[items[j]].atts :
            <<heap'[items[j]].key, a>> \in InCache'
      BY <3>1 DEF InCache, Of
    <3>4. \A x \in InCache : x \in InCache' \/ recent'[x] = 0
      BY <2>1, <2>5, <2>7, <2>8, <2>12, <3>3
    <3> QED
      BY <3>2, <3>4
  <2>14. CASE rest = {}
    <3>1. items' = Without(items, i)
      BY <2>2, <2>14
    <3>2. PICK f : /\ items' \in Seq(Ptrs)
                   /\ Thins(items', items, f)
                   /\ \A k \in DOMAIN items' : f[k] # i
                   /\ \A j \in DOMAIN items \ {i} : \E k \in DOMAIN items' : f[k] = j
      BY <1>1, <2>1, <3>1, WithoutThins
    <3>3. \A k \in DOMAIN items' : /\ f[k] \in DOMAIN items /\ f[k] # i
                                   /\ items'[k] = items[f[k]]
      BY <3>2 DEF Thins
    <3>4. Distinct(items', heap')
      <4>1. ASSUME NEW k \in DOMAIN items', NEW j \in DOMAIN items',
                   heap'[items'[k]].key = heap'[items'[j]].key
            PROVE  k = j
        <5>1. f[k] = f[j]
          BY <2>9, <3>3, <4>1 DEF Distinct
        <5> QED
          BY <3>2, <5>1 DEF Thins
      <4> QED
        BY <4>1 DEF Distinct
    <3>5. Filled(items', heap')
      BY <2>11, <3>3 DEF Filled
    <3>6. Fresh(items', heap', recent')
      <4>1. ASSUME NEW k \in DOMAIN items', NEW a \in heap'[items'[k]].atts
            PROVE  recent'[<<heap'[items'[k]].key, a>>] = Never
        <5>1. f[k] \in DOMAIN items /\ heap'[items'[k]] = heap'[items[f[k]]]
          BY <3>3
        <5> QED
          BY <2>10, <4>1, <5>1 DEF Fresh
      <4> QED
        BY <4>1 DEF Fresh
    <3>7. Good(items', heap', recent')
      BY <1>5, <2>5, <3>2, <3>4, <3>5, <3>6 DEF Good
    <3>8. \A j \in DOMAIN items : j # i => \A a \in heap[items[j]].atts :
            <<heap[items[j]].key, a>> \in InCache'
      <4>1. ASSUME NEW j \in DOMAIN items, j # i, NEW a \in heap[items[j]].atts
            PROVE  <<heap[items[j]].key, a>> \in InCache'
        <5>1. PICK k \in DOMAIN items' : f[k] = j
          BY <3>2, <4>1
        <5>2. heap'[items'[k]] = heap[items[j]]
          BY <2>7, <3>3, <4>1, <5>1
        <5> QED
          BY <4>1, <5>2 DEF InCache, Of
      <4> QED
        BY <4>1
    <3>9. \A x \in InCache : x \in InCache' \/ recent'[x] = 0
      BY <2>12, <2>14, <3>8
    <3> QED
      BY <3>7, <3>9
  <2> QED
    BY <2>13, <2>14
<1> QED
  BY <1>6, <1>7

-----------------------------------------------------------------------------
(* The inductive invariant                                                 *)

Pointers(s) == {s[i] : i \in DOMAIN s}

\* The copy exists while the proposal is made; its items are not emptied
\* meanwhile, and it has at most one for each key.
CopyInv ==
  /\ pc \in {"idle", "get", "size", "bytes", "deliver", "mark"}
  /\ copy \in Seq(Ptrs)
  /\ pc \notin {"size", "bytes"} => copy = <<>>
  /\ pc = "bytes" => copy # <<>>
  /\ Filled(copy, heap)
  /\ IsFiniteSet(Pointers(copy))
  /\ Cardinality(Pointers(copy)) <= Cardinality(Keys)

BlockInv ==
  /\ size \subseteq Attesters
  /\ proposal \in Seq(Message)
  /\ block \in Seq(Message)
  /\ pc = "mark" => block # <<>>

\* A sender that reads is in a check.
CallInv ==
  /\ call \in [Senders -> Calls \cup {NoCall}]
  /\ calls \in 0 .. MaxCalls
  /\ \A s \in Senders : where[s] \in {"read", "readerCond"} => call[s].op = "check"

IInv == LockInv /\ Good(items, heap, recent) /\ CopyInv /\ BlockInv /\ CallInv

\* What a step may not lose.
KeepsAttestations ==
  /\ \A s \in Senders :
       call[s].op = "add" /\ call'[s] = NoCall =>
         \A x \in Of(call[s].item.key, call[s].item.atts) :
           x \in InCache' \/ recent'[x] # Never
  /\ \A x \in InCache \ InCache' :
       \/ recent'[x] = 0
       \/ \E s \in Senders :
            call[s].op \in {"prune", "errata"} /\ call'[s] = NoCall

LEMMA CallIs ==
  ASSUME NEW c \in Calls \cup {NoCall}
  PROVE  /\ c.op = "add" => c.item \in Message
         /\ c.op = "errata" => c.key \in Keys
         /\ c \in Calls => c # NoCall /\ c.op # "none"
         /\ NoCall.op = "none"
  BY DEF Calls, NoCall

LEMMA MessageIs ==
  ASSUME NEW m \in Message
  PROVE  m.key \in Keys /\ m.atts \subseteq Attesters /\ m.atts # {} /\ m \in Item
  BY DEF Message, Item

LEMMA ThreadsAre ==
  /\ Consensus \in Threads /\ Consensus \notin Senders
  /\ \A s \in Senders : s \in Threads /\ s # Consensus
  BY InjectCacheAssumption

LEMMA Moved ==
  ASSUME NEW t \in Threads, where \in [Threads -> Places],
         Lock(t) \/ RLock(t) \/ RLockPriority(t) \/ Unlock(t) \/ RUnlock(t)
  PROVE  \A u \in Threads : u # t => where'[u] = where[u]
  BY DEF Lock, RLock, RLockPriority, Unlock, RUnlock

LEMMA TypesFollow == IInv => TypeOK
  BY LockTypes DEF IInv, TypeOK, Good, CopyInv, BlockInv, CallInv

(* The items of the cache, one for each key, need no more pointers than     *)
(* there are keys.                                                          *)
LEMMA PointersFit ==
  ASSUME Good(items, heap, recent), NEW K \in SUBSET Keys,
         \A i \in DOMAIN items : heap[items[i]].key \in K
  PROVE  IsFiniteSet(Pointers(items)) /\ Cardinality(Pointers(items)) <= Cardinality(K)
<1> DEFINE f == [p \in Pointers(items) |-> heap[p].key]
<1>1. f \in [Pointers(items) -> K]
  BY DEF Pointers
<1>2. \A p, q \in Pointers(items) : f[p] = f[q] => p = q
  BY DEF Pointers, Good, Distinct
<1>3. f \in Injection(Pointers(items), K)
  BY <1>1, <1>2, Zenon DEF Injection, IsInjective
<1>4. IsFiniteSet(K)
  BY InjectCacheAssumption, FS_Subset
<1> QED
  BY <1>3, <1>4, FS_Injection

LEMMA PointerIsThere ==
  ASSUME Good(items, heap, recent), CopyInv, NEW k \in Keys, WithKey(k) = {}
  PROVE  LET p == First(Unused)
         IN  p \in Ptrs /\ p \notin Pointers(items) /\ p \notin Pointers(copy)
<1> DEFINE used == Pointers(items) \cup Pointers(copy)
<1>1. Unused = Ptrs \ used
  BY DEF Unused, Pointers
<1>2. \A i \in DOMAIN items : heap[items[i]].key \in Keys \ {k}
  <2>1. \A i \in DOMAIN items : items[i] \in Ptrs /\ heap \in [Ptrs -> Item]
    BY Entries DEF Good
  <2>2. \A i \in DOMAIN items : heap[items[i]].key \in Keys
    BY <2>1 DEF Item
  <2> QED
    BY <2>2 DEF WithKey
<1>3. /\ IsFiniteSet(Pointers(items))
      /\ Cardinality(Pointers(items)) <= Cardinality(Keys \ {k})
  BY <1>2, PointersFit
<1>4. /\ Cardinality(Keys \ {k}) = Cardinality(Keys) - 1
      /\ Cardinality(Keys) \in Nat /\ Cardinality(Ptrs) \in Nat
  BY InjectCacheAssumption, FS_RemoveElement, FS_CardinalityType
<1>5. /\ IsFiniteSet(Pointers(copy))
      /\ Cardinality(Pointers(copy)) <= Cardinality(Keys)
  BY DEF CopyInv
<1>6. IsFiniteSet(used) /\ Cardinality(used) < Cardinality(Ptrs)
  <2>1. /\ IsFiniteSet(used)
        /\ Cardinality(used) = Cardinality(Pointers(items)) + Cardinality(Pointers(copy))
                                 - Cardinality(Pointers(items) \cap Pointers(copy))
    BY <1>3, <1>5, FS_Union
  <2>2. IsFiniteSet(Pointers(items) \cap Pointers(copy))
    BY <1>3, FS_Intersection
  <2>3. /\ Cardinality(Pointers(items)) \in Nat /\ Cardinality(Pointers(copy)) \in Nat
        /\ Cardinality(Pointers(items) \cap Pointers(copy)) \in Nat
    BY <1>3, <1>5, <2>2, FS_CardinalityType
  <2> QED
    BY <1>3, <1>4, <1>5, <2>1, <2>3, InjectCacheAssumption
<1>7. Unused # {}
  <2>1. SUFFICES ASSUME Ptrs \subseteq used PROVE FALSE
    BY <1>1
  <2>2. Cardinality(Ptrs) <= Cardinality(used) /\ Cardinality(used) \in Nat
    BY <1>6, <2>1, FS_Subset, FS_CardinalityType
  <2> QED
    BY <1>4, <1>6, <2>2
<1>8. Unused \in SUBSET Nat
  BY <1>1, InjectCacheAssumption
<1>9. First(Unused) \in Unused
  BY <1>7, <1>8, Least
<1> QED
  BY <1>1, <1>9

-----------------------------------------------------------------------------
(* The senders                                                             *)

LEMMA SenderWaits ==
  ASSUME IInv, NEW s \in Senders, Lock(s) \/ RLock(s), RLock(s) => call'[s].op = "check",
         call' \in [Senders -> Calls \cup {NoCall}], calls' \in 0 .. MaxCalls,
         \A u \in Senders : u # s => call'[u] = call[u],
         UNCHANGED <<dataVars, consensusVars>>
  PROVE  IInv'
<1>1. s \in Threads /\ where \in [Threads -> Places] /\ \A u \in Senders : u \in Threads
  BY ThreadsAre DEF IInv, LockInv
<1>2. LockInv' /\ (Lock(s) => where'[s] \in {"write", "writerCond"})
  BY <1>1, LockKeeps, RLockKeeps DEF IInv
<1>3. \A u \in Threads : u # s => where'[u] = where[u]
  BY <1>1, Moved
<1>4. CallInv'
  <2>1. \A u \in Senders : where'[u] \in {"read", "readerCond"} => call'[u].op = "check"
    BY <1>1, <1>2, <1>3 DEF IInv, CallInv
  <2> QED
    BY <2>1 DEF CallInv
<1>5. Good(items, heap, recent)' /\ CopyInv' /\ BlockInv'
  BY DEF IInv, dataVars, consensusVars, CopyInv, BlockInv, Pointers
<1> QED
  BY <1>2, <1>4, <1>5 DEF IInv

LEMMA NothingChanges ==
  ASSUME UNCHANGED <<items, heap>>
  PROVE  InCache' = InCache
  BY DEF InCache

LEMMA CallStep ==
  ASSUME IInv, NEW s \in Senders, Call(s)
  PROVE  IInv' /\ KeepsAttestations
<1>1. PICK c \in Calls : /\ call' = [call EXCEPT ![s] = c]
                         /\ IF c.op = "check" THEN RLock(s) ELSE Lock(s)
  BY DEF Call
<1>2. call \in [Senders -> Calls \cup {NoCall}] /\ calls \in 0 .. MaxCalls /\ MaxCalls \in Nat
  BY InjectCacheAssumption DEF IInv, CallInv
<1>3. /\ call' \in [Senders -> Calls \cup {NoCall}]
      /\ call'[s] = c /\ \A u \in Senders : u # s => call'[u] = call[u]
  BY <1>1, <1>2
<1>4. calls' \in 0 .. MaxCalls
  BY <1>2 DEF Call
<1>5. UNCHANGED <<dataVars, consensusVars>>
  BY DEF Call
<1>6. (Lock(s) \/ RLock(s)) /\ (RLock(s) => call'[s].op = "check")
  <2>1. ~ (Lock(s) /\ RLock(s))
    BY ThreadsAre, LockKeeps, RLockKeeps DEF IInv
  <2> QED
    BY <1>1, <1>3, <2>1
<1>7. IInv'
  BY <1>3, <1>4, <1>5, <1>6, SenderWaits
<1>8. KeepsAttestations
  <2>1. InCache' = InCache
    BY <1>5, NothingChanges DEF dataVars
  <2>2. \A u \in Senders : call[u].op = "add" /\ call'[u] = NoCall => FALSE
    BY <1>2, <1>3, CallIs
  <2> QED
    BY <2>1, <2>2 DEF KeepsAttestations
<1> QED
  BY <1>7, <1>8

LEMMA RetryStep ==
  ASSUME IInv, NEW s \in Senders, Retry(s)
  PROVE  IInv' /\ KeepsAttestations
<1>1. call \in [Senders -> Calls \cup {NoCall}] /\ calls \in 0 .. MaxCalls
  BY DEF IInv, CallInv
<1>2. UNCHANGED <<dataVars, consensusVars>> /\ call' = call /\ calls' = calls
  BY DEF Retry
<1>3. Lock(s) \/ RLock(s)
  BY DEF Retry
<1>4. RLock(s) => call'[s].op = "check"
  <2>1. s \in Threads /\ where \in [Threads -> Places]
        /\ awake \subseteq {t \in Threads : where[t] \in Waits}
    BY ThreadsAre DEF IInv, LockInv
  <2>2. RLock(s) => where[s] = "readerCond"
    BY <2>1 DEF Retry, RLock, Enters, Waits
  <2> QED
    BY <1>2, <2>2 DEF IInv, CallInv
<1>5. IInv'
  BY <1>1, <1>2, <1>3, <1>4, SenderWaits
<1>6. KeepsAttestations
  <2>1. InCache' = InCache
    BY <1>2, NothingChanges DEF dataVars
  <2>2. \A u \in Senders : call[u].op = "add" /\ call'[u] = NoCall => FALSE
    BY <1>1, <1>2, CallIs
  <2> QED
    BY <2>1, <2>2 DEF KeepsAttestations
<1> QED
  BY <1>5, <1>6

(* A sender that returns: its place in the lock and its call. *)
LEMMA SenderReturns ==
  ASSUME IInv, NEW s \in Senders, Unlock(s) \/ RUnlock(s), Return(s), calls' = calls
  PROVE  LockInv' /\ CallInv' /\ call'[s] = NoCall
         /\ \A u \in Senders : u # s => call'[u] = call[u]
<1>1. s \in Threads /\ where \in [Threads -> Places] /\ \A u \in Senders : u \in Threads
  BY ThreadsAre DEF IInv, LockInv
<1>2. LockInv' /\ where'[s] = "out"
  BY <1>1, UnlockKeeps, RUnlockKeeps DEF IInv
<1>3. \A u \in Threads : u # s => where'[u] = where[u]
  BY <1>1, Moved
<1>4. call \in [Senders -> Calls \cup {NoCall}]
  BY DEF IInv, CallInv
<1>5. /\ call' \in [Senders -> Calls \cup {NoCall}]
      /\ call'[s] = NoCall /\ \A u \in Senders : u # s => call'[u] = call[u]
  BY <1>4 DEF Return
<1>6. \A u \in Senders : where'[u] \in {"read", "readerCond"} => call'[u].op = "check"
  BY <1>1, <1>2, <1>3, <1>5 DEF IInv, CallInv
<1>7. CallInv'
  BY <1>5, <1>6 DEF CallInv, IInv
<1> QED
  BY <1>2, <1>5, <1>7

LEMMA CheckStep ==
  ASSUME IInv, NEW s \in Senders, CheckRecentBlocks(s)
  PROVE  IInv' /\ KeepsAttestations
<1>1. UNCHANGED <<dataVars, consensusVars, calls>> /\ RUnlock(s) /\ Return(s)
  BY DEF CheckRecentBlocks
<1>2. LockInv' /\ CallInv' /\ call'[s] = NoCall
      /\ \A u \in Senders : u # s => call'[u] = call[u]
  BY <1>1, SenderReturns
<1>3. Good(items, heap, recent)' /\ CopyInv' /\ BlockInv'
  BY <1>1 DEF IInv, dataVars, consensusVars, CopyInv, BlockInv, Pointers
<1>4. KeepsAttestations
  <2>1. InCache' = InCache
    BY <1>1, NothingChanges DEF dataVars
  <2>2. call[s].op = "check"
    BY DEF CheckRecentBlocks, IInv, CallInv
  <2>3. \A u \in Senders : call[u].op = "add" /\ call'[u] = NoCall => FALSE
    BY <1>2, <2>2, CallIs DEF IInv, CallInv
  <2> QED
    BY <2>1, <2>3 DEF KeepsAttestations
<1> QED
  BY <1>2, <1>3, <1>4 DEF IInv

(* The errata and the ticker: fewer items. *)
LEMMA ItemsLeave ==
  ASSUME IInv, NEW s \in Senders, call[s].op \in {"prune", "errata"},
         Unlock(s), Return(s), UNCHANGED <<heap, recent, consensusVars, calls>>,
         items' \in Seq(Ptrs), items' = items \/ \E f : Thins(items', items, f)
  PROVE  IInv' /\ KeepsAttestations
<1>1. LockInv' /\ CallInv' /\ call'[s] = NoCall
      /\ \A u \in Senders : u # s => call'[u] = call[u]
  BY SenderReturns
<1>2. Good(items', heap, recent)
  BY GoodThins DEF IInv
<1>3. Good(items, heap, recent)'
  BY <1>2
<1>4. CopyInv' /\ BlockInv'
  BY DEF IInv, consensusVars, CopyInv, BlockInv, Pointers
<1>5. KeepsAttestations
  <2>1. \A u \in Senders : call[u].op = "add" /\ call'[u] = NoCall => FALSE
    BY <1>1, CallIs DEF IInv, CallInv
  <2> QED
    BY <1>1, <2>1 DEF KeepsAttestations
<1> QED
  BY <1>1, <1>3, <1>4, <1>5 DEF IInv

LEMMA ErrataStep ==
  ASSUME IInv, NEW s \in Senders, SendQuorumErrataTx(s)
  PROVE  IInv' /\ KeepsAttestations
<1>1. items \in Seq(Ptrs)
  BY DEF IInv, Good
<1>2. items' \in Seq(Ptrs) /\ (items' = items \/ \E f : Thins(items', items, f))
  <2>1. CASE WithKey(call[s].key) = {}
    BY <1>1, <2>1 DEF SendQuorumErrataTx
  <2>2. CASE WithKey(call[s].key) # {}
    <3>1. First(WithKey(call[s].key)) \in DOMAIN items
      BY <1>1, <2>2, FirstWithKey
    <3>2. items' = Without(items, First(WithKey(call[s].key)))
      BY <2>2 DEF SendQuorumErrataTx
    <3> QED
      BY <1>1, <3>1, <3>2, WithoutThins
  <2> QED
    BY <2>1, <2>2
<1> QED
  BY <1>2, ItemsLeave DEF SendQuorumErrataTx

LEMMA PruneStep ==
  ASSUME IInv, NEW s \in Senders, PruneExpiredItems(s)
  PROVE  IInv' /\ KeepsAttestations
<1>1. items \in Seq(Ptrs)
  BY DEF IInv, Good
<1>2. items' \in Seq(Ptrs) /\ \E f : Thins(items', items, f)
  BY <1>1, PickedThins DEF PruneExpiredItems
<1> QED
  BY <1>2, ItemsLeave DEF PruneExpiredItems

LEMMA AddItemStep ==
  ASSUME IInv, NEW s \in Senders, AddItem(s)
  PROVE  IInv' /\ KeepsAttestations
<1> DEFINE m == call[s].item
           new == NewAttestations(m)
<1>1. /\ Unlock(s) /\ Return(s) /\ calls' = calls
      /\ UNCHANGED <<recent, consensusVars>>
  BY DEF AddItem
<1>2. LockInv' /\ CallInv' /\ call'[s] = NoCall
      /\ \A u \in Senders : u # s => call'[u] = call[u]
  BY <1>1, SenderReturns
<1>3. call[s] \in Calls \cup {NoCall} /\ call[s].op = "add"
  BY DEF IInv, CallInv, AddItem
<1>4. m \in Message
  BY <1>3, CallIs
<1>5. m.key \in Keys /\ m.atts \subseteq Attesters
  BY <1>4, MessageIs
<1>6. Good(items, heap, recent) /\ items \in Seq(Ptrs) /\ heap \in [Ptrs -> Item]
  BY DEF IInv, Good
<1>7. new \subseteq m.atts /\ \A a \in new : recent[<<m.key, a>>] = Never
  BY DEF NewAttestations
<1>8. \A i \in DOMAIN items : items[i] \in Ptrs
  BY <1>6, Entries
<1>9. \A i \in DOMAIN copy : copy[i] \in Ptrs
  BY Entries DEF IInv, CopyInv
<1>10. /\ Good(items', heap', recent)
       /\ Filled(copy, heap')
       /\ \A x \in InCache : x \in InCache'
       /\ \A a \in new : <<m.key, a>> \in InCache'
  <2>1. CASE new = {}
    <3>1. items' = items /\ heap' = heap
      BY <2>1 DEF AddItem
    <3>2. InCache' = InCache
      BY <3>1, NothingChanges
    <3> QED
      BY <1>6, <2>1, <3>1, <3>2 DEF IInv, CopyInv
  <2>2. CASE new # {} /\ WithKey(m.key) # {}
    <3> DEFINE i == First(WithKey(m.key))
    <3>1. i \in DOMAIN items /\ heap[items[i]].key = m.key
      BY <1>6, <2>2, FirstWithKey
    <3>2. heap' = [heap EXCEPT ![items[i]].atts = Merged(@, new)] /\ items' = items
      BY <2>2 DEF AddItem
    <3> HIDE DEF i, new, m
    <3>a. new \in SUBSET Attesters /\ \A a \in new : recent[<<heap[items[i]].key, a>>] = Never
      BY <1>5, <1>7, <3>1
    <3>3. /\ Good(items, heap', recent)
          /\ \A p \in Ptrs : heap'[p].key = heap[p].key /\ heap[p].atts \subseteq heap'[p].atts
          /\ new \subseteq heap'[items[i]].atts
      BY <1>6, <3>1, <3>2, <3>a, GoodMerge
    <3>4. Filled(copy, heap')
      BY <1>9, <3>3 DEF IInv, CopyInv, Filled
    <3>5. \A j \in DOMAIN items : \A a \in heap'[items[j]].atts :
            <<heap[items[j]].key, a>> \in InCache'
      BY <1>8, <3>2, <3>3 DEF InCache, Of
    <3>6. \A x \in InCache : x \in InCache'
      <4>1. ASSUME NEW x \in InCache
            PROVE  x \in InCache'
        <5>1. PICK j \in DOMAIN items : \E a \in heap[items[j]].atts :
                x = <<heap[items[j]].key, a>>
          BY InCacheIs
        <5>2. heap[items[j]].atts \subseteq heap'[items[j]].atts
          BY <1>8, <3>3
        <5> QED
          BY <3>5, <5>1, <5>2
      <4> QED
        BY <4>1
    <3>7. \A a \in new : <<m.key, a>> \in InCache'
      BY <3>1, <3>3, <3>5
    <3> QED
      BY <3>2, <3>3, <3>4, <3>6, <3>7
  <2>3. CASE new # {} /\ WithKey(m.key) = {}
    <3> DEFINE p == First(Unused)
    <3>1. p \in Ptrs /\ p \notin Pointers(items) /\ p \notin Pointers(copy)
      BY <1>5, <1>6, <2>3, PointerIsThere DEF IInv
    <3>2. /\ heap' = [heap EXCEPT ![p] = [key |-> m.key, atts |-> new]]
          /\ items' = Append(items, p)
      BY <2>3 DEF AddItem
    <3> HIDE DEF p, new, m
    <3>a. /\ new \in SUBSET Attesters /\ new # {} /\ m.key \in Keys
          /\ \A a \in new : recent[<<m.key, a>>] = Never
      BY <1>5, <1>7, <2>3
    <3>3. \A i \in DOMAIN items : items[i] # p
      BY <3>1 DEF Pointers
    <3>4. \A i \in DOMAIN copy : copy[i] # p
      BY <3>1 DEF Pointers
    <3>5. \A i \in DOMAIN items : heap[items[i]].key # m.key
      BY <2>3 DEF WithKey
    <3>b. NewItem(p, m.key, new)
      BY <3>1, <3>2, <3>3, <3>5, <3>a DEF NewItem
    <3>6. /\ Good(items', heap', recent)
          /\ \A o \in Ptrs : o # p => heap'[o] = heap[o]
          /\ heap'[p].key = m.key /\ heap'[p].atts = new
          /\ DOMAIN items' = DOMAIN items \cup {Len(items) + 1}
          /\ items'[Len(items) + 1] = p
          /\ \A i \in DOMAIN items : items'[i] = items[i]
      BY <1>6, <3>b, GoodAppend
    <3>7. Filled(copy, heap')
      BY <1>9, <3>4, <3>6 DEF IInv, CopyInv, Filled
    <3>8. \A j \in DOMAIN items' : \A a \in heap'[items'[j]].atts :
            <<heap'[items'[j]].key, a>> \in InCache'
      BY DEF InCache, Of
    <3>9. \A x \in InCache : x \in InCache'
      <4>1. ASSUME NEW x \in InCache
            PROVE  x \in InCache'
        <5>1. PICK j \in DOMAIN items : \E a \in heap[items[j]].atts :
                x = <<heap[items[j]].key, a>>
          BY InCacheIs
        <5>2. j \in DOMAIN items' /\ heap'[items'[j]] = heap[items[j]]
          BY <1>8, <3>3, <3>6
        <5> QED
          BY <3>8, <5>1, <5>2
      <4> QED
        BY <4>1
    <3>10. \A a \in new : <<m.key, a>> \in InCache'
      <4>1. Len(items) + 1 \in DOMAIN items' /\ heap'[items'[Len(items) + 1]] = heap'[p]
        BY <3>6
      <4> QED
        BY <3>6, <3>8, <4>1
    <3> QED
      BY <3>6, <3>7, <3>9, <3>10
  <2> QED
    BY <2>1, <2>2, <2>3
<1>11. Good(items, heap, recent)'
  BY <1>1, <1>10
<1>12. CopyInv' /\ BlockInv'
  BY <1>1, <1>10 DEF IInv, consensusVars, CopyInv, BlockInv, Pointers
<1>13. KeepsAttestations
  <2>1. ASSUME NEW u \in Senders, call[u].op = "add", call'[u] = NoCall,
               NEW x \in Of(call[u].item.key, call[u].item.atts)
        PROVE  x \in InCache' \/ recent'[x] # Never
    <3>1. u = s
      BY <1>2, <2>1, CallIs DEF IInv, CallInv
    <3>2. PICK a \in m.atts : x = <<m.key, a>>
      BY <2>1, <3>1 DEF Of
    <3>3. a \in new \/ recent[<<m.key, a>>] # Never
      BY DEF NewAttestations
    <3> QED
      BY <1>1, <1>10, <3>2, <3>3
  <2>2. InCache \ InCache' = {}
    BY <1>10
  <2> QED
    BY <2>1, <2>2 DEF KeepsAttestations
<1> QED
  BY <1>2, <1>11, <1>12, <1>13 DEF IInv

-----------------------------------------------------------------------------
(* The consensus thread                                                    *)

(* It works the lock without changing the senders' places. *)
LEMMA ConsensusLocks ==
  ASSUME IInv, \/ RLockPriority(Consensus) \/ RUnlock(Consensus)
               \/ Lock(Consensus) \/ Unlock(Consensus) \/ UNCHANGED lockVars,
         UNCHANGED <<call, calls>>
  PROVE  LockInv' /\ CallInv'
<1>1. Consensus \in Threads /\ where \in [Threads -> Places]
      /\ \A u \in Senders : u \in Threads /\ u # Consensus
  BY ThreadsAre DEF IInv, LockInv
<1>2. LockInv'
  <2>1. CASE UNCHANGED lockVars
    BY <2>1 DEF IInv, LockInv, lockVars, LockCounts, On, Exclusive
  <2> QED
    BY <1>1, <2>1, LockKeeps, UnlockKeeps, RUnlockKeeps, RLockPriorityKeeps DEF IInv
<1>3. \A u \in Senders : where'[u] = where[u]
  <2>1. CASE UNCHANGED lockVars
    BY <2>1 DEF lockVars
  <2> QED
    BY <1>1, <2>1, Moved
<1> QED
  BY <1>2, <1>3 DEF IInv, CallInv

LEMMA ConsensusKeeps ==
  ASSUME IInv, UNCHANGED call, UNCHANGED <<items, heap>>
  PROVE  KeepsAttestations
<1>1. InCache' = InCache
  BY NothingChanges
<1>2. \A u \in Senders : call[u].op = "add" /\ call'[u] = NoCall => FALSE
  BY CallIs DEF IInv, CallInv
<1> QED
  BY <1>1, <1>2 DEF KeepsAttestations

LEMMA EmptyCopy ==
  ASSUME copy' = <<>>
  PROVE  /\ copy' \in Seq(Ptrs) /\ Filled(copy, heap)'
         /\ IsFiniteSet(Pointers(copy))'
         /\ (Cardinality(Pointers(copy)) <= Cardinality(Keys))'
<1>1. Pointers(copy)' = {}
  BY DEF Pointers
<1>2. IsFiniteSet({}) /\ Cardinality({}) = 0 /\ Cardinality(Keys) \in Nat
  BY FS_EmptySet, FS_CardinalityType, InjectCacheAssumption
<1>3. Filled(copy, heap)'
  BY DEF Filled
<1> QED
  BY <1>1, <1>2, <1>3

LEMMA TailCopy ==
  ASSUME CopyInv, copy # <<>>, copy' = Tail(copy), UNCHANGED heap
  PROVE  /\ copy' \in Seq(Ptrs) /\ Filled(copy, heap)'
         /\ IsFiniteSet(Pointers(copy))'
         /\ (Cardinality(Pointers(copy)) <= Cardinality(Keys))'
<1>1. copy \in Seq(Ptrs)
  BY DEF CopyInv
<1>2. /\ copy' \in Seq(Ptrs) /\ Len(copy') = Len(copy) - 1
      /\ \A i \in 1 .. Len(copy') : copy'[i] = copy[i + 1]
  BY <1>1, HeadTailProperties
<1>3. Len(copy) \in Nat /\ DOMAIN copy = 1 .. Len(copy) /\ DOMAIN copy' = 1 .. Len(copy')
  BY <1>1, <1>2, LenProperties
<1>4. \A i \in DOMAIN copy' : i + 1 \in DOMAIN copy /\ copy'[i] = copy[i + 1]
  BY <1>2, <1>3
<1>5. Filled(copy, heap)'
  BY <1>4 DEF Filled, CopyInv
<1>6. Pointers(copy)' \subseteq Pointers(copy)
  BY <1>4 DEF Pointers
<1>7. /\ IsFiniteSet(Pointers(copy)')
      /\ Cardinality(Pointers(copy)') <= Cardinality(Pointers(copy))
      /\ Cardinality(Pointers(copy)') \in Nat /\ Cardinality(Pointers(copy)) \in Nat
      /\ Cardinality(Keys) \in Nat
  BY <1>6, FS_Subset, FS_CardinalityType, InjectCacheAssumption DEF CopyInv
<1>8. (Cardinality(Pointers(copy)) <= Cardinality(Keys))'
  BY <1>7 DEF CopyInv
<1> QED
  BY <1>2, <1>5, <1>7, <1>8

LEMMA PrepareStep ==
  ASSUME IInv, Prepare
  PROVE  IInv' /\ KeepsAttestations
<1>1. LockInv' /\ CallInv'
  BY ConsensusLocks DEF Prepare
<1>2. Good(items, heap, recent)' /\ BlockInv'
  BY DEF IInv, Prepare, dataVars, BlockInv
<1>3. CopyInv'
  BY DEF IInv, Prepare, dataVars, CopyInv, Pointers
<1>4. KeepsAttestations
  BY ConsensusKeeps DEF Prepare, dataVars
<1> QED
  BY <1>1, <1>2, <1>3, <1>4 DEF IInv

LEMMA GetStep ==
  ASSUME IInv, Get
  PROVE  IInv' /\ KeepsAttestations
<1>1. LockInv' /\ CallInv'
  BY ConsensusLocks DEF Get
<1>2. Good(items, heap, recent)' /\ BlockInv'
  BY EmptySeq DEF IInv, Get, dataVars, BlockInv
<1>3. CopyInv'
  <2>1. copy' = items /\ heap' = heap /\ pc' = "size"
    BY DEF Get, dataVars
  <2>2. items \in Seq(Ptrs) /\ Filled(items, heap) /\ heap \in [Ptrs -> Item]
    BY DEF IInv, Good
  <2>3. \A i \in DOMAIN items : heap[items[i]].key \in Keys
    BY <2>2, Entries DEF Item
  <2>4. IsFiniteSet(Pointers(items)) /\ Cardinality(Pointers(items)) <= Cardinality(Keys)
    BY <2>3, PointersFit DEF IInv
  <2>5. Pointers(copy)' = Pointers(items)
    BY <2>1 DEF Pointers
  <2> QED
    BY <2>1, <2>2, <2>4, <2>5 DEF CopyInv
<1>4. KeepsAttestations
  BY ConsensusKeeps DEF Get, dataVars
<1> QED
  BY <1>1, <1>2, <1>3, <1>4 DEF IInv

LEMMA HeadOfCopy ==
  ASSUME IInv, copy # <<>>
  PROVE  /\ heap[Head(copy)] \in Item /\ heap[Head(copy)].atts # {}
         /\ heap[Head(copy)] \in Message
<1>1. copy \in Seq(Ptrs) /\ heap \in [Ptrs -> Item] /\ Filled(copy, heap)
  BY DEF IInv, CopyInv, Good
<1>2. Head(copy) \in Ptrs /\ Len(copy) \in Nat \ {0} /\ Head(copy) = copy[1]
  BY <1>1, HeadTailProperties, EmptySeq, LenProperties
<1>3. 1 \in DOMAIN copy
  BY <1>1, <1>2, LenProperties
<1>4. heap[Head(copy)] \in Item /\ heap[Head(copy)].atts # {}
  BY <1>1, <1>2, <1>3 DEF Filled
<1> QED
  BY <1>4 DEF Item, Message

LEMMA MarshalSizeStep ==
  ASSUME IInv, MarshalSize
  PROVE  IInv' /\ KeepsAttestations
<1>1. LockInv' /\ CallInv'
  BY ConsensusLocks DEF MarshalSize
<1>2. heap[Head(copy)] \in Item
  BY HeadOfCopy DEF MarshalSize
<1>3. Good(items, heap, recent)'
  BY DEF IInv, MarshalSize, dataVars
<1>4. BlockInv'
  BY <1>2 DEF IInv, MarshalSize, BlockInv, Item
<1>5. CopyInv'
  BY DEF IInv, MarshalSize, dataVars, CopyInv, Pointers
<1>6. KeepsAttestations
  BY ConsensusKeeps DEF MarshalSize, dataVars
<1> QED
  BY <1>1, <1>3, <1>4, <1>5, <1>6 DEF IInv

LEMMA MarshalBytesStep ==
  ASSUME IInv, MarshalBytes
  PROVE  IInv' /\ KeepsAttestations
<1>1. LockInv' /\ CallInv'
  BY ConsensusLocks DEF MarshalBytes
<1>2. pc = "bytes" /\ pc' = "size" /\ UNCHANGED <<items, heap, recent, block>> /\ size' = {}
  BY DEF MarshalBytes, dataVars
<1>3. copy # <<>>
  BY <1>2 DEF IInv, CopyInv
<1>4. Good(items, heap, recent)'
  BY <1>2 DEF IInv
<1>7. CopyInv' /\ BlockInv'
  <2>1. CASE heap[Head(copy)].atts = size
    <3>1. copy' = Tail(copy) /\ proposal' \in {proposal, Append(proposal, heap[Head(copy)])}
      BY <2>1 DEF MarshalBytes
    <3>2. CopyInv'
      BY <1>2, <1>3, <3>1, TailCopy DEF IInv, CopyInv
    <3>3. proposal' \in Seq(Message)
      <4>1. heap[Head(copy)] \in Message /\ proposal \in Seq(Message)
        BY <1>3, HeadOfCopy DEF IInv, BlockInv
      <4>2. Append(proposal, heap[Head(copy)]) \in Seq(Message)
        BY <4>1, AppendProperties
      <4> QED
        BY <3>1, <4>1, <4>2
    <3> QED
      BY <1>2, <3>2, <3>3 DEF IInv, BlockInv
  <2>2. CASE heap[Head(copy)].atts # size
    <3>1. copy' = <<>> /\ proposal' = <<>>
      BY <2>2 DEF MarshalBytes
    <3>2. CopyInv'
      BY <1>2, <3>1, EmptyCopy DEF CopyInv
    <3>3. proposal' \in Seq(Message)
      BY <3>1, EmptySeq
    <3> QED
      BY <1>2, <3>2, <3>3 DEF IInv, BlockInv
  <2> QED
    BY <2>1, <2>2
<1>8. KeepsAttestations
  BY <1>2, ConsensusKeeps DEF MarshalBytes
<1> QED
  BY <1>1, <1>4, <1>7, <1>8 DEF IInv

LEMMA BlockStep ==
  ASSUME IInv, OwnBlock \/ OtherBlock
  PROVE  IInv' /\ KeepsAttestations
<1>1. LockInv' /\ CallInv'
  BY ConsensusLocks DEF OwnBlock, OtherBlock
<1>2. /\ pc' = "deliver" /\ UNCHANGED <<items, heap, recent, copy, size, call>>
      /\ copy = <<>> /\ proposal' = <<>>
  BY DEF OwnBlock, OtherBlock, dataVars, IInv, CopyInv
<1>3. Good(items, heap, recent)'
  BY <1>2 DEF IInv
<1>4. CopyInv'
  BY <1>2, EmptyCopy DEF CopyInv
<1>5. block' \in Seq(Message)
  <2>1. CASE OwnBlock
    BY <2>1 DEF OwnBlock, IInv, BlockInv
  <2>2. CASE OtherBlock
    <3>1. \A m \in Message : <<m>> \in Seq(Message)
      OBVIOUS
    <3> QED
      BY <2>2, <3>1, EmptySeq DEF OtherBlock
  <2> QED
    BY <2>1, <2>2
<1>6. BlockInv'
  BY <1>2, <1>5, EmptySeq DEF IInv, BlockInv
<1>7. KeepsAttestations
  BY <1>2, ConsensusKeeps
<1> QED
  BY <1>1, <1>3, <1>4, <1>6, <1>7 DEF IInv

LEMMA DeliverStep ==
  ASSUME IInv, Deliver
  PROVE  IInv' /\ KeepsAttestations
<1>1. LockInv' /\ CallInv'
  BY ConsensusLocks DEF Deliver
<1>2. Good(items, heap, recent)'
  BY DEF IInv, Deliver, dataVars
<1>3. BlockInv'
  BY DEF IInv, Deliver, BlockInv
<1>4. CopyInv'
  BY DEF IInv, Deliver, dataVars, CopyInv, Pointers
<1>5. KeepsAttestations
  BY ConsensusKeeps DEF Deliver, dataVars
<1> QED
  BY <1>1, <1>2, <1>3, <1>4, <1>5 DEF IInv

LEMMA MarkStep ==
  ASSUME IInv, MarkAttestationsConfirmedAndAddToBlock
  PROVE  IInv' /\ KeepsAttestations
<1>1. /\ pc = "mark" /\ pc' = "deliver" /\ block' = Tail(block) /\ Unlock(Consensus)
      /\ UNCHANGED <<copy, size, proposal, call, calls>>
  BY DEF MarkAttestationsConfirmedAndAddToBlock
<1>2. LockInv' /\ CallInv'
  BY <1>1, ConsensusLocks
<1>3. block \in Seq(Message) /\ block # <<>>
  BY <1>1 DEF IInv, BlockInv
<1>4. Head(block) \in Message /\ Tail(block) \in Seq(Message)
  BY <1>3, HeadTailProperties
<1>5. Good(items', heap', recent') /\ \A x \in InCache \ InCache' : recent'[x] = 0
  BY <1>4, GoodMark DEF IInv
<1>6. Good(items, heap, recent)'
  BY <1>5
<1>7. CopyInv'
  BY <1>1, EmptyCopy DEF IInv, CopyInv
<1>8. BlockInv'
  BY <1>1, <1>4 DEF IInv, BlockInv
<1>9. KeepsAttestations
  <2>1. \A u \in Senders : call[u].op = "add" /\ call'[u] = NoCall => FALSE
    BY <1>1, CallIs DEF IInv, CallInv
  <2> QED
    BY <1>5, <2>1 DEF KeepsAttestations
<1> QED
  BY <1>2, <1>6, <1>7, <1>8, <1>9 DEF IInv

LEMMA EndBlockStep ==
  ASSUME IInv, EndBlock
  PROVE  IInv' /\ KeepsAttestations
<1>1. /\ pc = "deliver" /\ pc' = "idle"
      /\ UNCHANGED <<items, heap, copy, size, proposal, block, call>>
      /\ recent' = [x \in Attestations |-> IF recent[x] < Old THEN recent[x] + 1 ELSE recent[x]]
  BY DEF EndBlock
<1>2. LockInv' /\ CallInv'
  BY ConsensusLocks DEF EndBlock
<1>3. recent \in [Attestations -> 0 .. Never]
  BY DEF IInv, Good
<1>4. recent' \in [Attestations -> 0 .. Never]
  BY <1>1, <1>3, NeverIs
<1>5. \A x \in Attestations : recent[x] = Never => recent'[x] = Never
  BY <1>1, <1>3, NeverIs
<1>6. Fresh(items, heap, recent')
  <2>1. ASSUME NEW i \in DOMAIN items, NEW a \in heap[items[i]].atts
        PROVE  recent'[<<heap[items[i]].key, a>>] = Never
    <3>1. items[i] \in Ptrs /\ heap \in [Ptrs -> Item]
      BY Entries DEF IInv, Good
    <3>2. <<heap[items[i]].key, a>> \in Attestations
      BY <3>1 DEF Item, Attestations
    <3> QED
      BY <1>5, <3>2 DEF IInv, Good, Fresh
  <2> QED
    BY <2>1 DEF Fresh
<1>7. Good(items, heap, recent)'
  BY <1>1, <1>4, <1>6 DEF IInv, Good
<1>8. CopyInv' /\ BlockInv'
  BY <1>1, EmptyCopy DEF IInv, CopyInv, BlockInv
<1>9. KeepsAttestations
  BY <1>1, ConsensusKeeps
<1> QED
  BY <1>2, <1>7, <1>8, <1>9 DEF IInv

-----------------------------------------------------------------------------
(* The theorems                                                            *)

LEMMA InitInv == Init => IInv
<1> SUFFICES ASSUME Init
             PROVE  IInv
  OBVIOUS
<1>1. LockInv
  BY LockInitially DEF Init
<1>2. Good(items, heap, recent)
  <2>1. heap \in [Ptrs -> Item]
    BY InjectCacheAssumption DEF Init, Item
  <2>2. recent \in [Attestations -> 0 .. Never]
    BY NeverIs DEF Init
  <2>3. items = <<>> /\ items \in Seq(Ptrs)
    BY EmptySeq DEF Init
  <2> QED
    BY <2>1, <2>2, <2>3 DEF Good, Distinct, Filled, Fresh
<1>3. CopyInv
  <2>1. Pointers(copy) = {} /\ copy = <<>> /\ pc = "idle"
    BY DEF Pointers, Init
  <2>2. IsFiniteSet({}) /\ Cardinality({}) = 0 /\ Cardinality(Keys) \in Nat
    BY FS_EmptySet, FS_CardinalityType, InjectCacheAssumption
  <2> QED
    BY <2>1, <2>2, EmptySeq DEF CopyInv, Filled
<1>4. BlockInv
  BY EmptySeq DEF Init, BlockInv
<1>5. CallInv
  BY InjectCacheAssumption, ThreadsAre DEF Init, LockInit, CallInv
<1> QED
  BY <1>1, <1>2, <1>3, <1>4, <1>5 DEF IInv

LEMMA NextInv ==
  ASSUME IInv, [Next]_vars
  PROVE  IInv' /\ [KeepsAttestations]_vars
<1>1. CASE UNCHANGED vars
  BY <1>1 DEF vars, lockVars, dataVars, consensusVars, IInv, LockInv, LockCounts, On,
              Exclusive, CopyInv, Pointers, BlockInv, CallInv
<1>2. CASE Next
  BY <1>2, CallStep, RetryStep, AddItemStep, ErrataStep, PruneStep, CheckStep, PrepareStep,
     GetStep, MarshalSizeStep, MarshalBytesStep, BlockStep, DeliverStep, MarkStep, EndBlockStep
     DEF Next, SenderStep, ConsensusStep
<1> QED
  BY <1>1, <1>2

LEMMA Invariance == Spec => []IInv
<1>1. IInv /\ [Next]_vars => IInv'
  BY NextInv
<1> QED
  BY InitInv, <1>1, PTL DEF Spec

LEMMA FreshMeansNotReadded == IInv => NotReadded
  BY InCacheIs DEF IInv, Good, Fresh, NotReadded

(* Every reachable state is well typed, so that no proposal and no block    *)
(* holds an item without attestations.                                      *)
THEOREM InjectCacheTypes == Spec => []TypeOK
  BY Invariance, TypesFollow, PTL

(* Whatever the threads and the order of their calls, a goroutine that      *)
(* writes is alone inside the lock (Lock, RLock, RLockPriority, Unlock,     *)
(* RUnlock).                                                                *)
THEOREM LockExcludes == Spec => []Exclusive
<1>1. IInv => Exclusive
  BY DEF IInv, LockInv
<1> QED
  BY Invariance, <1>1, PTL

(* An attestation of a recent block is not in the cache, for any keys and   *)
(* attesters and any number of senders (AddItem filters it, and             *)
(* MarkAttestationsConfirmedAndAddToBlock removes it).                      *)
THEOREM ConfirmedIsNotReadded == Spec => []NotReadded
  BY Invariance, FreshMeansNotReadded, PTL

(* No attestation is lost: what AddItem is given is in the cache or in a    *)
(* recent block when it returns, and it leaves the cache only in a block    *)
(* or with an item that is pruned or reorged.                               *)
THEOREM AttestationsAreKept == Spec => NothingLost
<1>1. IInv /\ [Next]_vars => [KeepsAttestations]_vars
  BY NextInv
<1>2. Spec => [][KeepsAttestations]_vars
  BY Invariance, <1>1, PTL DEF Spec
<1> QED
  BY <1>2 DEF NothingLost, KeepsAttestations

=============================================================================
