SPECIFICATION Spec
CONSTANTS
  Channels = {c1, c2}
  Amounts <- MCAmounts
  FailPoints <- CleanErrors
  Faults = {"power"}
  MaxLines = 3
INVARIANTS AckedSurvive OpenKnowsAcked
PROPERTY Register
