SPECIFICATION RootChainSpec
CONSTANTS
  NULL = NULL
  Address = {1, 2}
  Chain = {"root", "nested"}
  Own = "root"
  Param <- Parameters
  Genesis <- Founder
  InitialAccount <- Holdings
  Offer <- Offers
  Report <- Reports
  Subsidized = {"root", "nested"}
  Mint = 12
  DaoReward = 2
  Upgrade = {3, 6}
  MaxHeight = 6
  MaxTransactions = 1
  OrderId = {1}
  User = {s, b1, b2}
  Seller = {s}
  Buyer = {b1, b2}
  Terms = {"cheap", "dear"}
  Listing <- Listings
  MinimumOrderSize = 1
  InitialFunds = 2
  BuyDeadlineBlocks = 2
  RecheckFrom = 1
  RecheckTo = 0
  NoOrder = NoOrder
  NoBuyer = NoBuyer
  NoTx = NoTx
  LastBlock = 4
  MaxOrderTransactions = 3
SYMMETRY BuyersAlike
INVARIANT
  ResetOnlyUnpaid
CHECK_DEADLOCK FALSE
