CONSTANTS
  a = a
  b = b
  Account = {a, b}
  Genesis <- Balances
  Request <- Requests
  NewContract = NewContract
  None = None
  ChanCapacity = 1
  MaxNonce = 3
  MaxForwards = 1
SPECIFICATION FairSpec
INVARIANTS
  TypeOK
  
  NonceCountsSuccesses
  OneSuccessPerNonce
  AcceptedIsVisible
PROPERTIES
  QueuedGetsReceipt
  
  
CHECK_DEADLOCK FALSE
