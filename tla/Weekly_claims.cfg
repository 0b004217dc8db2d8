SPECIFICATION WeeklySpec
CONSTANTS
  Player = {1, 2}
  GameId = {1, 2}
  NULL = NULL
  InitialBalance = 60
  InitialDao = 0
  DayLength = 2
  WeekLength = 4
  EpochOffset = 2
  Time = {5, 7, 8}
  WeeklyFee = 20
  RunsPerDay = 2
  Duration = 1
  Grace = 1
  RunScore = {0, 2}
  WeeklyConfig <- SmallConfig
  WeekReadLimit = 3
  WeekSpells <- HonestIds
INVARIANT RankedCanClaim
CHECK_DEADLOCK FALSE
