SPECIFICATION Spec
CONSTANTS
  nil = nil
  Space = 64
  Code <- MCCode
  Ram <- MCRam
  VectorTable <- MCVectorTable
  ResetSSP = 52
  ResetPC = 2
  BootProgram <- MCBoot
  HandlerProgram <- MCTrapping
  UserProgram <- MCUser
  Disciplined = TRUE
  HostRetries = FALSE
  MaxFrames = 5
  RequestLevels <- MCLevels
  Vectors <- MCNoVectors
  NoVector = nil
  MaxRequests = 2
INVARIANTS
  TypeOK
  FramesIntact
  LevelsNest
  SupervisorStackBalanced
PROPERTIES
  ReturnsExactly
  StopHolds
