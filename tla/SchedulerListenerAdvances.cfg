SPECIFICATION Spec
CONSTANTS
  NumListeners = 1
  ListenerMay <- MCNested
  EventMay <- MCNothing
  MaxTime = 4
  MaxEvents = 2
  MaxDepth = 2
INVARIANT
  FiresOnce
