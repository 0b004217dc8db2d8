CONSTANTS
  n1 = n1
  n2 = n2
  n3 = n3
  NULL = NULL
  Node = {n1, n2, n3}
  Block = {b1, b2}
  View <- ThreeViews
  Candidate <- FirstThenLarge
  Quorum <- HeavyFirst
  Third <- Pairs
  Forgetful = {n3}
SPECIFICATION BFTSpec
INVARIANTS
  Agreement
  PromiseKept
  ElectorsHeeded
  UnlockedWhenRefuted
PROPERTY DecisionSpec
CONSTRAINT Attendance
SYMMETRY BlockSymmetry
CHECK_DEADLOCK FALSE
