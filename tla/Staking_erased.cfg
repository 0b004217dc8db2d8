SPECIFICATION Spec
CONSTANTS
  NULL = NULL
  Address = {1, 2}
  Chain = {"root", "nested"}
  Own = "root"
  Param <- Parameters
  Genesis <- Founder
  InitialAccount <- Holdings
  Offer <- Offers
  Report <- Reports
  Subsidized = {"root", "nested"}
  Mint = 12
  DaoReward = 2
  Upgrade = {3, 6}
  MaxHeight = 6
  MaxTransactions = 1
INVARIANTS
  RemovedCompletely
CHECK_DEADLOCK FALSE
