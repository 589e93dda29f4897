--------------------------- MODULE PriorityRWLock ---------------------------
(***************************************************************************)
(* The read-write lock of the injection caches, as operators on the state  *)
(* of one lock (x/thorchain/ebifrost/priority_lock.go).  A method holds    *)
(* the mutex from entry to exit or to a Wait, so each of the operators     *)
(* below is one atomic step; a thread that waits on a condition is woken   *)
(* by a Signal or a Broadcast and then tests its condition again, at a     *)
(* time of its own.                                                        *)
(***************************************************************************)
EXTENDS Integers, FiniteSets

CONSTANT Threads

ASSUME ThreadsAssumption == IsFiniteSet(Threads)

VARIABLES
  readerCount, writerActive, writersWaiting, highPriorityReaders,
  where,        \* per thread: outside, on one of the conditions, or holding
  awake         \* threads woken on their condition that have not run yet

lockVars == <<readerCount, writerActive, writersWaiting, highPriorityReaders,
              where, awake>>

Waits == {"writerCond", "readerCond", "priorityReaderCond"}

LockInit ==
  /\ readerCount = 0
  /\ writerActive = FALSE
  /\ writersWaiting = 0
  /\ highPriorityReaders = 0
  /\ where = [t \in Threads |-> "out"]
  /\ awake = {}

\* A thread calls a method, or was woken and continues its loop.
Enters(t, cond) ==
  \/ where[t] = "out"
  \/ where[t] = cond /\ t \in awake

\* How many threads wait after t's call, counted once however often it wakes.
Counted(t, n) == IF where[t] = "out" THEN n + 1 ELSE n

\* The writers that wait once t is let in.
WritersLeft(t) == Counted(t, writersWaiting) - 1

MayWrite == readerCount = 0 /\ ~ writerActive

Lock(t) ==
  /\ Enters(t, "writerCond")
  /\ IF MayWrite
     THEN /\ where' = [where EXCEPT ![t] = "write"]
          /\ writersWaiting' = WritersLeft(t)
          /\ writerActive' = TRUE
     ELSE /\ where' = [where EXCEPT ![t] = "writerCond"]
          /\ writersWaiting' = Counted(t, writersWaiting)
          /\ writerActive' = writerActive
  /\ awake' = awake \ {t}
  /\ UNCHANGED <<readerCount, highPriorityReaders>>

\* mutant: a reader does not wait for the writer that is active
MayReadAtOnce == writersWaiting = 0

MayRead == ~ writerActive /\ writersWaiting = 0

RLock(t) ==
  /\ Enters(t, "readerCond")
  /\ IF MayRead
     THEN /\ where' = [where EXCEPT ![t] = "read"]
          /\ readerCount' = readerCount + 1
     ELSE /\ where' = [where EXCEPT ![t] = "readerCond"]
          /\ readerCount' = readerCount
  /\ awake' = awake \ {t}
  /\ UNCHANGED <<writerActive, writersWaiting, highPriorityReaders>>

\* A priority reader does not wait for the writers that wait.
RLockPriority(t) ==
  /\ Enters(t, "priorityReaderCond")
  /\ IF ~ writerActive
     THEN /\ where' = [where EXCEPT ![t] = "read"]
          /\ readerCount' = readerCount + 1
          /\ highPriorityReaders' = Counted(t, highPriorityReaders) - 1
     ELSE /\ where' = [where EXCEPT ![t] = "priorityReaderCond"]
          /\ readerCount' = readerCount
          /\ highPriorityReaders' = Counted(t, highPriorityReaders)
  /\ awake' = awake \ {t}
  /\ UNCHANGED <<writerActive, writersWaiting>>

On(cond) == {t \in Threads : where[t] = cond}

Broadcast(cond) == On(cond) \ awake

\* Signal wakes one of the threads still asleep, if there is one.
Signal(cond) ==
  IF On(cond) \subseteq awake THEN {{}} ELSE {{t} : t \in On(cond) \ awake}

Unlock(t) ==
  /\ where[t] = "write"
  /\ where' = [where EXCEPT ![t] = "out"]
  /\ writerActive' = FALSE
  /\ \E woken \in IF highPriorityReaders > 0 THEN {Broadcast("priorityReaderCond")}
                  ELSE IF writersWaiting > 0 THEN Signal("writerCond")
                  ELSE {Broadcast("readerCond")} :
       awake' = awake \cup woken
  /\ UNCHANGED <<readerCount, writersWaiting, highPriorityReaders>>

\* mutant: the last reader does not wake the ordinary readers
WokenButReaders ==
  {s \cup (IF highPriorityReaders > 0 THEN Broadcast("priorityReaderCond") ELSE {}) :
     s \in Signal("writerCond")}

\* Whom the last reader wakes.
WokenByLastReader ==
  {s \cup (IF highPriorityReaders > 0 THEN Broadcast("priorityReaderCond") ELSE {})
     \cup Broadcast("readerCond") : s \in Signal("writerCond")}

RUnlock(t) ==
  /\ where[t] = "read"
  /\ where' = [where EXCEPT ![t] = "out"]
  /\ readerCount' = readerCount - 1
  /\ \E woken \in IF readerCount = 1 THEN WokenByLastReader ELSE {{}} :
       awake' = awake \cup woken
  /\ UNCHANGED <<writerActive, writersWaiting, highPriorityReaders>>

-----------------------------------------------------------------------------

LockTypeOK ==
  /\ readerCount \in 0 .. Cardinality(Threads)
  /\ writerActive \in BOOLEAN
  /\ writersWaiting \in 0 .. Cardinality(Threads)
  /\ highPriorityReaders \in 0 .. Cardinality(Threads)
  /\ where \in [Threads -> Waits \cup {"out", "read", "write"}]
  /\ awake \subseteq {t \in Threads : where[t] \in Waits}

\* A thread that writes is alone inside the lock.
Exclusive ==
  \A t, u \in Threads :
    where[t] = "write" /\ where[u] \in {"read", "write"} => t = u

=============================================================================
