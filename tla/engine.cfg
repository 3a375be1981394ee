CONSTANTS
  v1 = v1
  v2 = v2
  validators <- TwoValidators
  Tx <- ThreeTxs
  Clients <- ClientsOfV2
  InitialAccounts <- Funded
  MaxTransactionsPerBlock <- Limits
  maxBlocks = 10
  keepCount = 5
  MaxWave = 1
  MaxRestarts <- OneRestart
  Syncing = {v2}
SPECIFICATION Spec
INVARIANTS
  TypeOK
  BalanceConserved
  AccountsFollowApplied
  AppliedInTurn
  NoTransactionLost
CHECK_DEADLOCK FALSE
