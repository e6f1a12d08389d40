SPECIFICATION Spec
CONSTANTS
  PCs <- MCPCs
  Options <- MCOptions
  Limits <- MCLimits
  MaxSteps = 2
  MaxEvents = 2
INVARIANTS
  TypeOK
  FlagsFollowUse
  TraceShowsOwnBytes
PROPERTIES
  StopsInTime
  ImplementsRecentEvents
