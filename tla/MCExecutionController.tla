------------------------ MODULE MCExecutionController ------------------------
EXTENDS ExecutionController

CONSTANTS dynamicElf, staticElf, sharedObject

\* One target for each route binaryExecutionSupport knows.
MCSupported == [t \in Targets |->
  CASE t = dynamicElf -> "linux" [] t = staticElf -> "machine" [] OTHER -> "none"]

==============================================================================
