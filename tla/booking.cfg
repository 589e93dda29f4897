SPECIFICATION Spec
CONSTANTS
  n1 = n1
  n2 = n2
  n3 = n3
  Nodes <- MCNodes
  Memos = {"add", "migrate", "outbound", "cancel", "swap", "consolidate", "fakegas"}
  InObs <- BookingIn
  OutObs <- BookingOut
  ActiveSets <- NoChurn
  Statuses <- RetiringVaults
  InitFunds = 4
  InitPool = 2
  InitSlash = 0
  ObserveSlashPoints = 0
  LackOfObservationPenalty = 0
  ObserveFlex = 0
  QuorumSizes = {2}
  MaxHeight = 2
  MaxSlash = 0
SYMMETRY Symmetry
INVARIANTS OutboundBooked MigrationTakenBack ConsensusHasMajority
