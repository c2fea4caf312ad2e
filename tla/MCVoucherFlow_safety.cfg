SPECIFICATION Spec
CONSTANTS
  Req = {r1, r2}
  Dlv = {d1, d2}
  Amounts <- Amounts2
  MaxDelta = 1
  MaxDeposit = 2
  Nobody = Nobody
SYMMETRY Symmetry
VIEW View
INVARIANTS TypeOK SignedIsBacked Collectable OneFreshAnswer ExposureBounded
PROPERTY Ledger
