SPECIFICATION Spec
CONSTANTS
  n1 = n1
  n2 = n2
  n3 = n3
  Nodes = {n1, n2, n3}
  LastWindow = 2
  LeaderNode <- Leaders
  MaxCalls <- TwoCalls
  MaxFaults = 1
CHECK_DEADLOCK FALSE
INVARIANTS PartySize SignatureIsTaken SigChanRoom TogetherSign
