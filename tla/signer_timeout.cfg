SPECIFICATION Spec
CONSTANTS
  v1 = v1  w1 = w1  w2 = w2  t1 = t1  t2 = t2  NoTx = NoTx
  Items = {1}
  VaultChains <- OneVault
  VaultChain <- AllOnOne
  Workers = {w1, w2}
  TxIds = {t1}
  Concurrency = 1
  Period = 1
  Buffer = 0
  MaxAttempts = 1
  Timeouts = TRUE
  ListRaces = TRUE
  Churned = {}
  Others = FALSE
  MaxCrashes = 0
  MaxFaults = 0
  MaxDeliveries = 2
  MaxHeight = 2
SYMMETRY Alike
INVARIANTS TypeOK SigningIsFresh
