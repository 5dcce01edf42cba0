CONSTANTS
  r1 = r1
  r2 = r2
  Uids = {r1}
  NoUid = NoUid
  ChunkLines = 2
  MaxTapsPerUid = 2
  MaxLines = 3
  Bearers = {"gsm"}
  Faults = {"net"}
  MaxRecords = 2
  MaxFaults = 1
SPECIFICATION Spec
INVARIANTS
  AckedBeforeDelete
CHECK_DEADLOCK FALSE
