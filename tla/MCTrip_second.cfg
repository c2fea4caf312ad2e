SPECIFICATION SpecOfTrips
CONSTANTS
  BytesPerMb = 2
  BytesPerMib = 3
  Markup = 3
  Rate = 2
  Scale = 1
  RawPerCent = 1
  MaxCents = 10
  PricePerMb = 1
  PricePerMib = 2
  Trips = 2
  Wallet = 2
  Deposit = 4
  Cap = 1
  MaxDefunds = 1
  MaxFaults = 0
INVARIANT BillsOwnTrip
CHECK_DEADLOCK FALSE
