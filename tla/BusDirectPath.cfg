SPECIFICATION Spec
CONSTANTS
  Space = 8
  PageSize = 4
  Available <- MCAvailable
  WaitSettings <- MCWaitSettings
  Tags <- MCTags
  MaxDevices = 3
  MaxSteps = 3
INVARIANT
  DirectPathFaultsAlike
