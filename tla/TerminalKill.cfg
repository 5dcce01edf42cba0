CONSTANTS
  s1 = s1
  s2 = s2
  Staff = {s1}
  Admins = {}
  NoStaff = NoStaff
  SyncTimeout = 2
  ClockWrap = 4
  MaxLines = 2
  MaxFill = 2
  Faults = {"power"}
SPECIFICATION Spec
INVARIANTS
  KillSwitch
