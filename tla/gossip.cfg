SPECIFICATION FairSpec
CONSTANTS
  n1 = n1
  n2 = n2
  n3 = n3
  Nodes = {n1, n2}
  Observers = {n1, n2}
  Proposers = {n1}
  Faulty = {n1}
  MaxFaults = 1
CHECK_DEADLOCK FALSE
INVARIANTS TypeOK KeptUntilCommitted QuorumHandedOver
 
