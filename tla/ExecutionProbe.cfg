CONSTANTS
  dynamicElf = dynamicElf
  staticElf = staticElf
  sharedObject = sharedObject
  None = None
  Targets = {dynamicElf}
  Supported <- MCSupported
  MaxGeneration = 4
  Limit = 3
  Slice = 2
  Ends = {"exited"}

SPECIFICATION Spec

PROPERTY NormalRunAvoidsBlink

CHECK_DEADLOCK FALSE
