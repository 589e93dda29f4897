SPECIFICATION Spec
CONSTANTS
  n1 = n1
  n2 = n2
  n3 = n3
  Nodes <- MCNodes
  Memos = {"swap"}
  InObs <- UnfinalThenFinal
  OutObs <- NoObservations
  ActiveSets <- AnyChurn
  Statuses <- InboundVaults
  InitFunds = 2
  InitPool = 1
  InitSlash = 0
  ObserveSlashPoints = 0
  LackOfObservationPenalty = 0
  ObserveFlex = 0
  QuorumSizes = {2, 3}
  MaxHeight = 2
  MaxSlash = 0
SYMMETRY Symmetry
INVARIANTS TypeOK InboundBooked DispatchedOnce
PROPERTIES RevertedIsFinal FinalIsFinal ImplementsLedger
