SPECIFICATION ResultsSpec
CONSTANTS
  PoolAmount = {7, 1000}
  MaxParticipants = 520
  Rows = 2
  Columns = 3
  MoveCaps = {0, 4}
  ReplayBound = 6
  Player = {p1, p2}
  Name = {"Ann", "ann", "bob", "x"}
  ValidName = {"Ann", "ann", "bob"}
  Key = {"ann", "bob", "x"}
  Folded <- FoldedNames
  Time = {0, 1, 2}
  NULL = NULL
INVARIANTS
  RewardsAgree
  ResultExplained
  LookupAgrees
PROPERTIES
  RegistrationKept
  RegistrySpec
CHECK_DEADLOCK FALSE
