SPECIFICATION Spec
CONSTANTS
  nil = nil
  Space = 64
  Code <- MCCode
  Ram <- MCOneStack
  VectorTable <- MCVectorTable
  ResetSSP = 52
  ResetPC = 2
  BootProgram <- MCSupervisor
  HandlerProgram <- MCFirmware
  UserProgram <- MCMischief
  Disciplined = FALSE
  HostRetries = FALSE
  MaxFrames = 2
  RequestLevels <- MCLevel5
  Vectors <- MCNoVectors
  NoVector = nil
  MaxRequests = 1
PROPERTIES
  UserModeConfined
