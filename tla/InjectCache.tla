---------------------------- MODULE InjectCache ----------------------------
(***************************************************************************)
(* One injection cache of thornode (x/thorchain/ebifrost/inject_cache.go,  *)
(* ebifrost.go): bifrost sends items with the attestations it has          *)
(* gathered, from several gRPC goroutines; the consensus thread copies the *)
(* items into a proposal when the node is the proposer, and takes the      *)
(* attestations of every committed block, its own or another's, out of the *)
(* cache again; a ticker prunes old items.                                 *)
(*                                                                         *)
(* An item is a pointer: Get copies the pointers under the lock, and the   *)
(* proposal marshals what they point to after it released the lock, first  *)
(* the size and then the bytes, while AddItem may merge more attestations  *)
(* into the same item.  A key is what Equals compares of an item; heights  *)
(* are counted back from the current block.                                *)
(***************************************************************************)
EXTENDS PriorityRWLock, Sequences

CONSTANTS
  Keys,
  Attesters,
  Senders,          \* goroutines that send, prune or check
  Consensus,        \* the consensus thread
  Ptrs,             \* item pointers, an initial segment of the naturals
  CachedBlocks,     \* cachedBlocks
  BlockItems,       \* items that fit into a block (maxTxBytes)
  MaxCalls          \* bound on the calls of the senders

ASSUME InjectCacheAssumption ==
  /\ Threads = Senders \cup {Consensus} /\ Consensus \notin Senders
  /\ IsFiniteSet(Keys) /\ Keys # {} /\ IsFiniteSet(Attesters) /\ Attesters # {}
  /\ Ptrs \subseteq Nat /\ IsFiniteSet(Ptrs)
  /\ 2 * Cardinality(Keys) <= Cardinality(Ptrs)   \* for items and copy
  /\ CachedBlocks \in Nat /\ BlockItems \in Nat \ {0} /\ MaxCalls \in Nat

VARIABLES
  items,        \* the pointers in the cache, in order
  heap,         \* what they point to
  recent,       \* recentBlockItems: how many blocks ago an attestation was last confirmed
  call,         \* per sender: the call it is in
  pc,           \* what the consensus thread is doing
  copy,         \* the proposal's copy of the pointers still to be marshalled
  size,         \* the attestations counted when the size was computed
  proposal,     \* the messages of the proposal
  block,        \* the messages of the committed block still to be delivered
  calls         \* calls made so far

dataVars == <<items, heap, recent>>
consensusVars == <<pc, copy, size, proposal, block>>
vars == <<lockVars, dataVars, consensusVars, call, calls>>

Attestations == Keys \X Attesters
Old == CachedBlocks + 1             \* deleted when the next item is remembered
Never == CachedBlocks + 2           \* not in recentBlockItems, or no more

Item == [key : Keys, atts : SUBSET Attesters]
Message == [key : Keys, atts : (SUBSET Attesters) \ {{}}]
NoCall == [op |-> "none"]
Calls == [op : {"add"}, item : Message] \cup [op : {"errata"}, key : Keys]
           \cup {[op |-> "prune"], [op |-> "check"]}

Init ==
  /\ LockInit
  /\ items = <<>>
  /\ heap = [p \in Ptrs |-> [key |-> CHOOSE k \in Keys : TRUE, atts |-> {}]]
  /\ recent = [x \in Attestations |-> Never]
  /\ call = [s \in Senders |-> NoCall]
  /\ pc = "idle"
  /\ copy = <<>>
  /\ size = {}
  /\ proposal = <<>>
  /\ block = <<>>
  /\ calls = 0

Of(k, atts) == {k} \X atts

InCache == UNION {Of(heap[items[i]].key, heap[items[i]].atts) : i \in DOMAIN items}

\* The indices of the items with key k; the code stops at the first.
WithKey(k) == {i \in DOMAIN items : heap[items[i]].key = k}
First(S) == CHOOSE i \in S : \A j \in S : i <= j

Without(seq, i) == SubSeq(seq, 1, i - 1) \o SubSeq(seq, i + 1, Len(seq))

\* The i-th smallest of the positions S, and what is there, in order.
Nth(S, i) == CHOOSE j \in S : Cardinality({k \in S : k < j}) = i - 1
Picked(seq, S) == [i \in 1 .. Cardinality(S) |-> seq[Nth(S, i)]]

-----------------------------------------------------------------------------
(* The senders: every call takes the lock, does its work and releases it.  *)

Call(s) ==
  /\ call[s] = NoCall
  /\ calls < MaxCalls
  /\ calls' = calls + 1
  /\ \E c \in Calls :
       /\ call' = [call EXCEPT ![s] = c]
       /\ IF c.op = "check" THEN RLock(s) ELSE Lock(s)
  /\ UNCHANGED <<dataVars, consensusVars>>

\* A sender that was woken tests its condition again.
Retry(s) ==
  /\ s \in awake
  /\ IF where[s] = "readerCond" THEN RLock(s) ELSE Lock(s)
  /\ UNCHANGED <<dataVars, consensusVars, call, calls>>

Return(s) == call' = [call EXCEPT ![s] = NoCall]

\* mutant: what was confirmed a moment ago is not filtered out
NewAttestationsAll(m) == m.atts

\* The attestations of m that no recent block has.
NewAttestations(m) == {a \in m.atts : recent[<<m.key, a>>] = Never}

\* mutant: merging replaces the attestations that were there
MergedNew(old, new) == new

Merged(old, new) == old \cup new

Unused == {p \in Ptrs : \A i \in DOMAIN items : items[i] # p}
            \ {copy[i] : i \in DOMAIN copy}

AddItem(s) ==
  /\ where[s] = "write"
  /\ call[s].op = "add"
  /\ LET m   == call[s].item
         new == NewAttestations(m)
     IN  IF new = {}
         THEN UNCHANGED <<items, heap>>
         ELSE IF WithKey(m.key) # {}
              THEN LET p == items[First(WithKey(m.key))]
                   IN  /\ heap' = [heap EXCEPT ![p].atts = Merged(@, new)]
                       /\ items' = items
              ELSE LET p == First(Unused)
                   IN  /\ heap' = [heap EXCEPT ![p] = [key |-> m.key, atts |-> new]]
                       /\ items' = Append(items, p)
  /\ Unlock(s)
  /\ Return(s)
  /\ UNCHANGED <<recent, consensusVars, calls>>

\* An errata removes the first item of its transaction.
SendQuorumErrataTx(s) ==
  /\ where[s] = "write"
  /\ call[s].op = "errata"
  /\ IF WithKey(call[s].key) = {}
     THEN items' = items
     ELSE items' = Without(items, First(WithKey(call[s].key)))
  /\ Unlock(s)
  /\ Return(s)
  /\ UNCHANGED <<heap, recent, consensusVars, calls>>

\* The ticker removes the items that are too old, whichever they are.
PruneExpiredItems(s) ==
  /\ where[s] = "write"
  /\ call[s].op = "prune"
  /\ \E young \in SUBSET DOMAIN items : items' = Picked(items, young)
  /\ Unlock(s)
  /\ Return(s)
  /\ UNCHANGED <<heap, recent, consensusVars, calls>>

CheckRecentBlocks(s) ==
  /\ where[s] = "read"
  /\ RUnlock(s)
  /\ Return(s)
  /\ UNCHANGED <<dataVars, consensusVars, calls>>

-----------------------------------------------------------------------------
(* The consensus thread                                                    *)

\* PrepareProposal: Get takes the lock as a priority reader ...
Prepare ==
  /\ \/ pc = "idle"
     \/ pc = "get" /\ Consensus \in awake
  /\ RLockPriority(Consensus)
  /\ pc' = "get"
  /\ UNCHANGED <<dataVars, copy, size, proposal, block, call, calls>>

\* ... and copies the pointers.
Get ==
  /\ pc = "get"
  /\ where[Consensus] = "read"
  /\ copy' = items
  /\ proposal' = <<>>
  /\ RUnlock(Consensus)
  /\ pc' = "size"
  /\ UNCHANGED <<dataVars, size, block, call, calls>>

\* Marshalling the next item: its size first ...
MarshalSize ==
  /\ pc = "size"
  /\ copy # <<>>
  /\ size' = heap[Head(copy)].atts
  /\ pc' = "bytes"
  /\ UNCHANGED <<lockVars, dataVars, copy, proposal, block, call, calls>>

\* mutant: an item that fills the block exactly does not fit
FitsWithRoom == Len(proposal) + 1 < BlockItems

Fits == Len(proposal) < BlockItems

\* ... then its bytes, if the item has not grown.  Otherwise they do not fit
\* into the buffer, and the panic costs the proposal its injected items.
MarshalBytes ==
  /\ pc = "bytes"
  /\ size' = {}
  /\ IF heap[Head(copy)].atts = size
     THEN /\ proposal' = IF Fits
                         THEN Append(proposal, heap[Head(copy)])
                         ELSE proposal
          /\ copy' = Tail(copy)
     ELSE proposal' = <<>> /\ copy' = <<>>
  /\ pc' = "size"
  /\ UNCHANGED <<lockVars, dataVars, block, call, calls>>

\* The node's own proposal is committed ...
OwnBlock ==
  /\ pc = "size"
  /\ copy = <<>>
  /\ block' = proposal
  /\ proposal' = <<>>
  /\ pc' = "deliver"
  /\ UNCHANGED <<lockVars, dataVars, copy, size, call, calls>>

\* ... or another node's block, with or without an item of this cache.
OtherBlock ==
  /\ pc = "idle" \/ (pc = "size" /\ copy = <<>>)
  /\ block' \in {<<>>} \cup {<<m>> : m \in Message}
  /\ proposal' = <<>>
  /\ pc' = "deliver"
  /\ UNCHANGED <<lockVars, dataVars, copy, size, call, calls>>

\* The post handler of the next message takes the lock ...
Deliver ==
  /\ \/ pc = "deliver" /\ block # <<>>
     \/ pc = "mark" /\ Consensus \in awake
  /\ Lock(Consensus)
  /\ pc' = "mark"
  /\ UNCHANGED <<dataVars, copy, size, proposal, block, call, calls>>

\* recentBlockItems of the current height, after old heights were deleted.
Remembered(m) ==
  [x \in Attestations |-> IF x \in Of(m.key, m.atts) THEN 0
                           ELSE IF recent[x] >= Old THEN Never ELSE recent[x]]

\* ... removes its attestations from the first item that equals it, and
\* remembers them.
MarkAttestationsConfirmedAndAddToBlock ==
  /\ pc = "mark"
  /\ where[Consensus] = "write"
  /\ LET m == Head(block)
     IN  /\ IF WithKey(m.key) = {}
            THEN UNCHANGED <<items, heap>>
            ELSE LET i    == First(WithKey(m.key))
                     rest == heap[items[i]].atts \ m.atts
                 IN  /\ heap' = [heap EXCEPT ![items[i]].atts = rest]
                     /\ items' = IF rest = {} THEN Without(items, i) ELSE items
         /\ recent' = Remembered(m)
  /\ block' = Tail(block)
  /\ pc' = "deliver"
  /\ Unlock(Consensus)
  /\ UNCHANGED <<copy, size, proposal, call, calls>>

EndBlock ==
  /\ pc = "deliver"
  /\ block = <<>>
  /\ recent' = [x \in Attestations |-> IF recent[x] < Old THEN recent[x] + 1 ELSE recent[x]]
  /\ pc' = "idle"
  /\ UNCHANGED <<lockVars, items, heap, copy, size, proposal, block, call, calls>>

-----------------------------------------------------------------------------

SenderStep(s) ==
  Retry(s) \/ AddItem(s) \/ SendQuorumErrataTx(s) \/ PruneExpiredItems(s)
  \/ CheckRecentBlocks(s)

ConsensusStep ==
  Prepare \/ Get \/ MarshalSize \/ MarshalBytes \/ OwnBlock \/ OtherBlock
  \/ Deliver \/ MarkAttestationsConfirmedAndAddToBlock \/ EndBlock

Next ==
  \/ \E s \in Senders : Call(s) \/ SenderStep(s)
  \/ ConsensusStep

Spec == Init /\ [][Next]_vars

\* A woken goroutine runs, and gets the mutex while the lock is free (Go's
\* mutex does not starve); the consensus thread keeps making blocks, and the
\* node's own proposals are committed again and again.
FairSpec ==
  /\ Spec
  /\ \A s \in Senders :
       /\ WF_vars(SenderStep(s))
       /\ SF_vars(Retry(s) /\ where'[s] \in {"read", "write"})
  /\ WF_vars(ConsensusStep)
  /\ SF_vars(Prepare /\ pc = "idle")
  /\ SF_vars(OwnBlock)

-----------------------------------------------------------------------------
(* Properties                                                              *)

\* The types of the variables.
TypeOK ==
  /\ LockTypeOK
  /\ items \in Seq(Ptrs)
  /\ heap \in [Ptrs -> Item]
  /\ recent \in [Attestations -> 0 .. Never]
  /\ call \in [Senders -> Calls \cup {NoCall}]
  /\ pc \in {"idle", "get", "size", "bytes", "deliver", "mark"}
  /\ copy \in Seq(Ptrs)
  /\ size \subseteq Attesters
  /\ proposal \in Seq(Message)
  /\ block \in Seq(Message)
  /\ calls \in 0 .. MaxCalls

\* No attestation is lost: what bifrost has sent is in the cache or in a recent
\* block when its call returns, and it leaves the cache only in a block or with
\* an item that is pruned or reorged (AddItem against the consensus thread).
NothingLost ==
  [][/\ \A s \in Senders :
          call[s].op = "add" /\ call'[s] = NoCall =>
            \A x \in Of(call[s].item.key, call[s].item.atts) :
              x \in InCache' \/ recent'[x] # Never
     /\ \A x \in InCache \ InCache' :
          \/ recent'[x] = 0
          \/ \E s \in Senders :
               call[s].op \in {"prune", "errata"} /\ call'[s] = NoCall]_vars

\* An attestation of a recent block is not in the cache, so it is not put
\* into a block again ("potentially re-adding a just-confirmed item").
NotReadded == \A x \in InCache : recent[x] = Never

\* Whoever waits for the lock gets it: no wake-up is lost between the three
\* conditions (Unlock and RUnlock choose whom to wake).
LockIsGranted ==
  \A t \in Threads : where[t] \in Waits ~> where[t] \in {"read", "write"}

\* An attestation in the cache leaves it: it gets into a block or its item is
\* dropped, whatever the panics of single proposals.
CacheDrains ==
  \A x \in Attestations : x \in InCache ~> x \notin InCache

=============================================================================
