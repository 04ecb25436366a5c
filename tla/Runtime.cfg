SPECIFICATION Runtime
CONSTANTS
  Names = {1, 2, 3}
  ElfImages <- KnownLibraries
  Worlds <- SomeWorlds
  Programs <- SomePrograms
  Changing <- Exchanged
  MaxModules = 3
  MaxBytes = 3
  MaxChanges = 1
  Targets <- AllTargets
  Chunk = 3
  MaxInstructions = 2
  MaxEvidence = 1
  Unreadable = Unreadable
  None = None
  Nothing = None
  Guests <- Loaded
  Nearby = 2
  Observed = 3
  MinSignature = 2
  MaxWindow = 5
  Enough = 3
  Unknown = None
INVARIANTS
  SweepMissesNothing
  ClosureIsSound
  ImagesAreTrue
PROPERTIES
  ImagesStayKnown
  AuditsEnd
CHECK_DEADLOCK FALSE
