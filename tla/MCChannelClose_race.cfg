SPECIFICATION Spec
CONSTANTS
  Amounts = {1, 2}
  MaxDeposit = 2
  HasRecord = FALSE
  Closer = {"monitor", "cli"}
  Poll = {}
  Burst = 2
  Attempts = 2
  Faults = {"rpc", "crash", "trustline"}
INVARIANTS LatchedIsSettled OneClosedEvent
PROPERTY Settlement
