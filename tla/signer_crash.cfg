SPECIFICATION Spec
CONSTANTS
  v1 = v1  w1 = w1  w2 = w2  t1 = t1  t2 = t2  NoTx = NoTx
  Items = {1, 2}
  VaultChains <- OneVault
  VaultChain <- AllOnOne
  Workers = {w1}
  TxIds = {t1, t2}
  Concurrency = 1
  Period = 1
  Buffer = 0
  MaxAttempts = 1
  Timeouts = FALSE
  ListRaces = FALSE
  Churned = {}
  Others = FALSE
  MaxCrashes = 2
  MaxFaults = 0
  MaxDeliveries = 1
  MaxHeight = 3
SYMMETRY Alike
INVARIANTS OnePayment
