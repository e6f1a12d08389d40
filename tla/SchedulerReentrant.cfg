SPECIFICATION Spec
CONSTANTS
  NumListeners = 2
  ListenerMay <- MCScheduling
  EventMay <- MCReentrant
  MaxTime = 2
  MaxEvents = 4
  MaxDepth = 2
INVARIANTS
  TypeOK
  WaitingInOrder
  FiresOnce
  ListenersInStep
PROPERTIES
  ImplementsTimerQueue
