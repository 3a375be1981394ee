CONSTANTS
  v1 = v1
  v2 = v2
  v3 = v3
  b1 = b1
  b2 = b2
  b3 = b3
  mock = mock
  Address = {v1, v2, v3}
  Node = {v1}
  validators <- SingleValidators
  peers <- FullMesh
  Block = {b1, b2, b3}
  MockBlock = {}
  Round <- BlockRound
  Height <- BlockHeight
  InProcess = TRUE
  DagCapacity = 2
  InitialDag <- EmptyDags
  InitiallyConnected = TRUE
  maxWaves = 1
  minWavesKept = 1
  maxConfirmedBlocks = 1
  minConfirmedKept = 1
  MaxWave = 5
  MaxBreaks = 0
  MaxRestarts = 0
SPECIFICATION Spec
INVARIANTS
  StatusReflectsQuorum
CHECK_DEADLOCK FALSE
