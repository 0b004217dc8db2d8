SPECIFICATION ArcadeSpec
CONSTANTS
  Player = {1}
  GameId = {1}
  FullGameId = {1}
  NULL = NULL
  InitialBalance = 24
  InitialDao = 3
  Time = {5, 7}
  DayLength = 2
  MonthLength = 6
  WeekLength = 6
  EpochOffset = 0
  Date = {2}
  DailyFee = {20}
  Result <- OneResult
  DailyMaxMoves = 1
  PayoutBps <- OneRank
  WeeklyFee = 4
  RunsPerDay = 1
  Duration = 1
  Grace = 1
  RunScore = {2}
  WeeklyConfig <- LoneConfig
  WeekReadLimit = 2
  WeekSpells <- SpellingIds
  ClassicFee = {20}
  ClassicScore = {72}
  MaxTotal = 400
  MonthlyConfig <- LoneConfig
  MonthReadLimit = 2
  MonthSpells <- SpellingIds
  PointsCap = 5
  Burn = {2}
  LoginRewardPoints <- OneDay
  LoginBonusBps = 5000
  RatePoints = 2
  RateCnpy = 3
  MinRedeemPoints = 2
  RedeemStepPoints = 2
  Amount = {9}
  SendFee = {15}
INVARIANTS
  ArcadeTypeOK
  CountedRunsPaid
PROPERTIES
  TokensNeverCreated
  GamesKeepBooks
CHECK_DEADLOCK FALSE
