CONSTANTS
  Missions = {m1, m2}
  None = none
  Jobs = {j1, j2}
  Polls = {p1, p2}
  MaxOps = 4
  MaxFaults = 1
SPECIFICATION FairSpec
INVARIANTS TypeOK PaysItsMission
PROPERTY Converges
CHECK_DEADLOCK FALSE
