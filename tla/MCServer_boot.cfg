SPECIFICATION FairSpec
CONSTANTS
  BytesPerMb = 2
  BytesPerMib = 2
  Markup = 2
  Rate = 1
  Scale = 1
  RawPerCent = 1
  MaxCents = 10
  PricePerMb = 1
  PricePerMib = 1
  Charges = {c1, c2}
  Deliveries = {d1}
  MaxBytes = 3
  MaxPaid = 1
  MaxFaults = 1
  MaxBuilds = 2
INVARIANTS TypeOK OneMonitored BilledIsPaid PaidOnce
PROPERTIES RecoversByItself
CHECK_DEADLOCK FALSE
