SPECIFICATION FairSpec
CONSTANTS
  Calls <- MCCalls
  MaxCalls = 4
  NULL = NULL
CHECK_DEADLOCK FALSE
INVARIANTS
  OkMeansDone
  InStep
  NoDeadFrame
PROPERTIES
  CallReturns
