CONSTANTS
  dynamicElf = dynamicElf
  staticElf = staticElf
  sharedObject = sharedObject
  None = None
  Targets = {dynamicElf, staticElf, sharedObject}
  Supported <- MCSupported
  MaxGeneration = 3
  Limit = 3
  Slice = 2
  Ends = {"exited"}

SPECIFICATION FairSpec

INVARIANT TypeOK
INVARIANT OneLiveSession
INVARIANT CurrentTaskOwnsTheSlot
INVARIANT SnapshotShowsTheSession
INVARIANT RunningIsDriven
PROPERTY DisposedIsFinal
PROPERTY RefinesOneGuest
PROPERTY StartsAreAnswered
PROPERTY RunsEnd

CHECK_DEADLOCK FALSE
