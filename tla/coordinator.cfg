CONSTANTS
  validators <- TwoValidators
  validatorID = "validator2"
  PoolSize = 1
  ChanCapacity = 2
  keepCount = 2
  keepRounds = 1
  perRound = 2
  UintSize = 16
  MaxRound = 4
  MaxBlocks = 4
SPECIFICATION FairSpec
INVARIANTS
  HeightsFollowReferences
  KeepBound
  
PROPERTY DAGGoesOn
CHECK_DEADLOCK FALSE
