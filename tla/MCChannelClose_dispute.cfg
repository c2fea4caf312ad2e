SPECIFICATION FairSpec
CONSTANTS
  Amounts = {1}
  MaxDeposit = 2
  HasRecord = TRUE
  Closer = {"monitor"}
  Poll = {p1, p2}
  Burst = 2
  Attempts = 2
  Faults = {"rpc", "crash"}
INVARIANT TypeOK
PROPERTIES AttemptHasCause DisputeAnswered
