SPECIFICATION FairSpec
CONSTANTS
  t1 = t1
  Txs = {t1}
  Start = 1
  PrefetchBlocks = 2
  MaxReorgRescanBlocks = 3
  MaxResumeBlockLag = 1
  MaxHeight = 3
  MaxReorgs = 1
  Conf = 1
  Workers = 1
  MaxFaults = 2
CHECK_DEADLOCK FALSE
INVARIANTS PositionIsHanded   
PROPERTY CatchesUp
