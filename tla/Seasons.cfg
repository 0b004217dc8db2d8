SPECIFICATION SeasonsSpec
CONSTANTS
  Player = {1, 2}
  GameId = {1, 2}
  FullGameId = {1}
  NULL = NULL
  InitialBalance = 40
  InitialDao = 5
  Time = {3, 5, 6, 7, 8, 9, 10, 42}
  DayLength = 2
  MonthLength = 6
  WeekLength = 4
  EpochOffset = 2
  WeeklyFee = 20
  RunsPerDay = 1
  Duration = 2
  Grace = 1
  RunScore = {2}
  WeeklyConfig <- SmallConfig
  WeekReadLimit = 3
  WeekSpells <- SpellingIds
  ClassicFee = {17, 20}
  ClassicScore = {0, 48, 72, 96}
  MaxTotal = 200
  MonthlyConfig <- SmallConfig
  MonthReadLimit = 3
  MonthSpells <- SpellingIds
  PointsCap = 5
  Burn = {1, 2, 4}
  LoginRewardPoints <- TwoDays
  LoginBonusBps = 5000
  RatePoints = 2
  RateCnpy = 3
  MinRedeemPoints = 2
  RedeemStepPoints = 2
INVARIANTS
  BoardShowsTotals
  EarnedIsExplained
  StreakWitnessed
  BoardResultsPaid
  EntriesReachable
PROPERTIES
  SeasonEscrowsSpec
CHECK_DEADLOCK FALSE
