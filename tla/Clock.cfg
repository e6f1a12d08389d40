SPECIFICATION FairSpec
CONSTANTS
  nil = nil
  Program <- MCProgram
  Waits <- MCWaits
  StopTick = 1
  InterruptCycles = 1
  GroupZeroCycles = 1
  Delays <- MCDelays
  Budgets <- MCBudgets
  MaxStep = 5
  MaxRun = 6
  NumListeners = 0
  ListenerMay <- MCScheduling
  EventMay <- MCConsuming
  MaxTime = 15
  MaxEvents = 1
  MaxDepth = 2
  RequestLevels <- MCLevels
  Vectors <- MCNoVectors
  NoVector = nil
  MaxRequests = 1
INVARIANTS
  TypeOK
  CountersReconcile
PROPERTIES
  OldTimersSilent
  RunCyclesReturns
  StoppedWakes
  
