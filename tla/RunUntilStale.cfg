SPECIFICATION Spec
CONSTANTS
  PCs <- MCPCs
  Options <- MCOptions
  Limits <- MCLimits
  MaxSteps = 2
  MaxEvents = 3
INVARIANT
  StopReasonFresh
