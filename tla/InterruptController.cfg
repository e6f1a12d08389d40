SPECIFICATION Spec
CONSTANTS
  nil = nil
  RequestLevels <- MCRequestLevels
  Vectors <- MCVectors
  NoVector = nil
  MaxRequests = 4
INVARIANTS
  TypeOK
  CacheExact
  ArrivalOrder
PROPERTY
  ImplementsPrioritizedRequests
