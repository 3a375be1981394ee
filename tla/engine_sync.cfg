CONSTANTS
  v1 = v1
  v2 = v2
  validators <- TwoValidators
  Tx = {}
  Clients <- ClientsOfV2
  InitialAccounts <- Funded
  MaxTransactionsPerBlock <- Limits
  maxBlocks = 3
  keepCount = 2
  MaxWave = 2
  MaxRestarts <- NoRestart
  Syncing = {v1}
SPECIFICATION FairSpec
INVARIANT BlocksFromLeaders
PROPERTIES
  EveryWaveEnds
  EveryBlockSpreads
CHECK_DEADLOCK FALSE
