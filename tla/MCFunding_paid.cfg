SPECIFICATION Spec
CONSTANTS
  BytesPerMb = 2
  BytesPerMib = 2
  Markup = 2
  Rate = 1
  Scale = 1
  RawPerCent = 1
  MaxCents = 10
  PricePerMb = 1
  PricePerMib = 1
  Calls = {c1}
  Asks = {a1, a2}
  Nobody = Nobody
  Deposits = {4, 10}
  Slack = 2
  MaxFaults = 3
  MaxEsims = 2
  MaxTrips = 1
SYMMETRY Symmetry
INVARIANTS TypeOK FundedWithinDeposit OnRecord BoughtOnce
CHECK_DEADLOCK FALSE
