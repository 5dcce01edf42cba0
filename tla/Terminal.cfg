CONSTANTS
  s1 = s1
  s2 = s2
  Staff = {s1, s2}
  Admins = {s2}
  NoStaff = NoStaff
  SyncTimeout = 1
  ClockWrap = 3
  MaxLines = 1
  MaxFill = 1
  Faults = {"lock", "write", "power"}
SPECIFICATION Spec
INVARIANTS
  TypeOK
  SessionAgrees
  ShiftStaysClosed
  FareInWindow
  DenialIsDue
  StaleLockdownHolds
  
