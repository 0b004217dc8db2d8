SPECIFICATION LinkSpec
CONSTANTS
  Fsm <- Machines
  MaxTxn = 2
  MaxReads = 1
  MaxTimeouts = 1
  NULL = NULL
INVARIANTS
  TouchesOwnTransaction
  FlushedWithItsWrite
  TablesHoldOpenCalls
  DeathNeedsTimeout
PROPERTY CallsReturn
CHECK_DEADLOCK FALSE
