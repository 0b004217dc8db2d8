SPECIFICATION DailySpec
CONSTANTS
  Player = {p1, p2, p3}
  GameId = {1, 2}
  NULL = NULL
  InitialBalance = 25
  InitialDao = 25
  Date = {1, 2}
  DayLength = 1
  Time = {3}
  DailyFee = {25}
  Result <- TwoResults
  DailyMaxMoves = 2
  PayoutBps <- TwoRanks
INVARIANTS
  OnePaidEntryPerPlayer
  PrizeAccounted
  ClaimsBacked
PROPERTIES
  AllocationsImmutable
  EscrowSpec
SYMMETRY Symmetry
CHECK_DEADLOCK FALSE
