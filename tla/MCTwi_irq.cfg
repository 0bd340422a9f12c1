SPECIFICATION Spec
CONSTANTS
  Calls <- MCCalls
  MaxCalls = 2
  NULL = NULL
CHECK_DEADLOCK FALSE
INVARIANTS
  IrqOnlyWhenTransferring
