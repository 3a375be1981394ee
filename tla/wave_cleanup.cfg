CONSTANTS
  v1 = v1
  v2 = v2
  v3 = v3
  b1 = b1
  b2 = b2
  b3 = b3
  mock = mock
  Address = {v1, v2, v3}
  Node = {v1, v2}
  validators <- TwoValidators
  peers <- FullMesh
  Block = {b1, b2}
  MockBlock = {mock}
  Round <- BlockRound
  Height <- BlockHeight
  InProcess = FALSE
  DagCapacity = 2
  InitialDag <- FirstBlockEverywhere
  InitiallyConnected = TRUE
  maxWaves = 1
  minWavesKept = 1
  maxConfirmedBlocks = 1
  minConfirmedKept = 1
  MaxWave = 3
  MaxBreaks = 0
  MaxRestarts = 1
SPECIFICATION Spec
INVARIANTS
  ConfirmedUnderQuorum
  
PROPERTIES
  CurrentWaveStaysFinalized
CHECK_DEADLOCK FALSE
