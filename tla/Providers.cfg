SPECIFICATION Providers
CONSTANTS
  Setups <- SetupsMC
  Resting <- RestingMC
  None = None
  Prompt <- PromptMC
  Prompts <- PromptsMC
  Bytes = {1, 2}
  MaxOutput = 3
  MaxSteps = 3
  Kept = 4
  Pages = 9
  MmapBase = 3
  StackTop = 4
  Stack = 1
  Gap = 1
  Budget = 6
  Segments <- SegmentsMC
  MaxCalls = 5
INVARIANTS
  UnicornIsFollowed
  BlinkIsFollowed
  MemoryIsCounted
PROPERTIES
  CallsAreHonest
  OthersAreHonest
CHECK_DEADLOCK FALSE
