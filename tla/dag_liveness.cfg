CONSTANTS
  v1 = v1
  v2 = v2
  t1 = t1
  Node = {v1, v2}
  peers <- OneWay
  Tx = {t1}
  DagCapacity = 2
  RoundLimit = 1000
  MaxRound = 2
  MaxOverlap = 1
  MaxBreaks = 0
  MaxRestarts = 0
SPECIFICATION FairSpec
PROPERTIES
  EveryRoundSpreads
  EveryTransactionSpreads
CHECK_DEADLOCK FALSE
