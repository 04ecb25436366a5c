SPECIFICATION Workbench
CONSTANTS
  Setups <- Instances
  RestingFiles <- Smallest
  Tasks <- TasksMC
  RestingTask <- Short
  Output <- OutputMC
  Texts <- TextsMC
  MaxStamp = 1
  MaxFiles = 2
  MaxRuntime = 2
  MaxOutput = 2
  MaxPreemptions = 2
  MaxMounted = 2
  MaxCaptured = 2
  Sizes <- SizesMC
  MaxClock = 3
  MaxWrites = 3
  None = None
  a = a
  b = b
  c = c
  p1 = p1
  p2 = p2
  s1 = s1
  s2 = s2
  program = program
INVARIANTS
  WorkspaceIsSound
  BuildsAreSound
  ResultsAreWhole
PROPERTIES
  CommandsAreWhole
  CommandsEnd
CHECK_DEADLOCK FALSE
