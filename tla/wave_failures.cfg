CONSTANTS
  v1 = v1
  v2 = v2
  v3 = v3
  b1 = b1
  b2 = b2
  b3 = b3
  mock = mock
  Address = {v1, v2, v3}
  Node = {v1, v2, v3}
  validators <- ThreeValidators
  peers <- FullMesh
  Block = {b1, b2}
  MockBlock = {}
  Round <- BlockRound
  Height <- BlockHeight
  InProcess = FALSE
  DagCapacity = 2
  InitialDag <- OneLateBlock
  InitiallyConnected = TRUE
  maxWaves = 1
  minWavesKept = 1
  maxConfirmedBlocks = 1
  minConfirmedKept = 1
  MaxWave = 1
  MaxBreaks = 1
  MaxRestarts = 0
SPECIFICATION Spec
INVARIANTS
  TypeOK
  CompletedWavesHaveQuorum
  VotesFollowLeader
  OneBlockPerWave
  QuorumAgreement
  StatusReflectsQuorum
CHECK_DEADLOCK FALSE
