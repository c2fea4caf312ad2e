CONSTANTS
  Missions = {m1, m2}
  Handlers = {h1, h2}
  Users = {"usr_astroam"}
  UserOf <- OneUser
  NoMission = nobody
  Budget = 3
  Top = 2
  ChannelDeposit = 3
  OneMb = 1
  Quota = 1
  Bursts = {2}
  MaxBytes = 4
  MaxOps = 6
  MaxFaults <- Faults
SPECIFICATION Spec
SYMMETRY MissionSymmetry
INVARIANTS TypeOK PaymentsBack AnsweredIsKept QuotaIsPaid
CHECK_DEADLOCK FALSE
