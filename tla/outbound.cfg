SPECIFICATION Spec
CONSTANTS
  v1 = v1  v2 = v2  n1 = n1  n2 = n2  n3 = n3  a1 = a1  x1 = x1
  Nodes = {n1, n2, n3}
  Vaults = {v1, v2}
  Members <- MCMembers
  Actions <- OneAction
  Asset <- OneAsset
  FirstVault <- AllFirst
  SigningTransactionPeriod = 2
  ConstantPeriod = 2
  RescheduleCoalesceBlocks = 2
  MaxOutboundAttempts = 4
  MaxRetiredVaultRecoveryAttempts = 3
  MaxHeight = 9
  MaxEvents = 3
SYMMETRY Alike
CHECK_DEADLOCK FALSE
INVARIANTS OneOpenItem  NotForgotten ChargedWasReplaced
PROPERTY SentIsNotReassigned
