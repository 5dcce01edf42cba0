CONSTANTS
  s1 = s1
  s2 = s2
  Staff = {s1}
  Admins = {s1}
  NoStaff = NoStaff
  SyncTimeout = 2
  ClockWrap = 4
  MaxLines = 1
  MaxFill = 1
  Faults = {}
SPECIFICATION FairSpec
PROPERTIES
  LockdownEnds
  ColdSyncEnds
