SPECIFICATION FairSpec
CONSTANTS
  s1 = s1  s2 = s2  cs = cs
  Threads <- MCThreads
  Senders = {s1, s2}
  Consensus = cs
  Keys = {"final"}
  Attesters = {"a", "b"}
  Ptrs = {1, 2}
  CachedBlocks = 1
  BlockItems = 1
  MaxCalls = 2
INVARIANTS Exclusive NotReadded
PROPERTIES NothingLost LockIsGranted 
