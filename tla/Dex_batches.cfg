CONSTANTS
  NULL = NULL
  DeadAddress = "dead"
  Provider = {"provider"}
  Order <- Trades
  Deposit <- Deposits
  Withdrawal <- Withdrawals
  InitialAccount <- Accounts
  InitialLiquidity <- Pools
  MaxOrdersPerDexBatch = 2
  MaxDepositsPerDexBatch = 1
  MaxWithdrawsPerDexBatch = 1
  Serial = 3
  FallbackMax = 1
SPECIFICATION DexSpec
INVARIANTS
  EscrowKept
  PointsMirrored
  MirrorExact
  ExchangeAtomic
PROPERTY OrdersSettle
CHECK_DEADLOCK FALSE
