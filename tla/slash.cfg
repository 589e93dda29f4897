SPECIFICATION Spec
CONSTANTS
  n1 = n1
  n2 = n2
  n3 = n3
  Nodes <- MCNodes
  Memos = {"migrate"}
  InObs <- UnfinalThenFinal
  OutObs <- NoObservations
  ActiveSets <- NoChurn
  Statuses <- ActiveVaults
  InitFunds = 0
  InitPool = 2
  InitSlash = 2
  ObserveSlashPoints = 1
  LackOfObservationPenalty = 2
  ObserveFlex = 0
  QuorumSizes = {2}
  MaxHeight = 2
  MaxSlash = 3
SYMMETRY Symmetry
INVARIANTS NoNetReward
