SPECIFICATION FairSpec
CONSTANTS
  BytesPerMb = 2
  BytesPerMib = 3
  Markup = 3
  Rate = 2
  Scale = 1
  RawPerCent = 1
  MaxCents = 10
  PricePerMb = 1
  PricePerMib = 2
  Trips = 1
  Wallet = 2
  Deposit = 2
  Cap = 1
  MaxDefunds = 2
  MaxFaults = 2
INVARIANTS TypeOK BillsOwnTrip FinalBill NothingLeftBehind
PROPERTIES CoveredIsResumed DrivenWalkEnds
CHECK_DEADLOCK FALSE
