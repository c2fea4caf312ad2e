SPECIFICATION Spec
CONSTANTS
  Channels = {c1}
  Amounts <- MCAmounts
  FailPoints <- AnyError
  Faults = {"crash", "power"}
  MaxLines = 4
INVARIANT TypeOK
PROPERTY SyncedNeverRewritten
