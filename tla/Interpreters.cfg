SPECIFICATION Interpreters
CONSTANTS
  PageSize = 32
  SafeLimit = 8191
  MaxInstructions = 40
  WriteLimit = 8
  CodeBase = 64
  CodeStride = 2
  DataBase = 128
  StackTop = 4000
  StackBytes = 128
  PageBudget = 12
  ImageStackTop = 4096
  ImageStackBytes = 256
  ImageBudget = 16
  ImageIoLimit = 8
  Syscalls = TRUE
  Sources <- AllSources
  Inputs <- Given
INVARIANTS
  ProgramsAgree
PROPERTIES
  ArithmeticIsTrue
  StoresAreKept
  DrivenEnds
CHECK_DEADLOCK FALSE
