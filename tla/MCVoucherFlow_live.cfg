SPECIFICATION FairSpec
CONSTANTS
  Req = {r1, r2}
  Dlv = {d1}
  Amounts <- Amounts1
  MaxDelta = 1
  MaxDeposit = 1
  Nobody = Nobody
PROPERTY EveryRequestSettles
