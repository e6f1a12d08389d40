SPECIFICATION Spec
CONSTANTS
  Space = 16
  Base = 2
  Registers <- MCRegisters
  Ram <- MCRam
  Late <- MCLate
  StackTop = 14
  Lists <- MCLists
  Moves <- MCMoves
  Immediates <- MCImmediates
  Displacements <- MCDisplacements
  MaxFrames = 2
INVARIANTS
  TypeOK
  SavedIntact
  RetriesExact
PROPERTIES
  BlocksRestored
