CONSTANTS
  r1 = r1
  r2 = r2
  Uids = {r1, r2}
  NoUid = NoUid
  ChunkLines = 2
  MaxTapsPerUid = 2
  MaxLines = 3
  Bearers = {"wifi", "gsm"}
  Faults = {"net", "lock", "power", "tear", "short"}
  MaxRecords = 4
  MaxFaults = 2
SPECIFICATION Spec
SYMMETRY RiderSymmetry
INVARIANTS
  TypeOK
  FareCap
  
  ChunkIsPrefix
  OldestFirst
  
  RecordsKept
CHECK_DEADLOCK FALSE
