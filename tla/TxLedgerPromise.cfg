CONSTANTS
  r1 = r1
  r2 = r2
  Uids = {r1}
  NoUid = NoUid
  ChunkLines = 2
  MaxTapsPerUid = 2
  MaxLines = 3
  Bearers = {"wifi"}
  Faults = {"net", "lock", "power"}
  MaxRecords = 3
  MaxFaults = 3
SPECIFICATION FairSpec
INVARIANTS
  InductiveInvariant
PROPERTIES
  ImplementsStoreForward
  Drains
CHECK_DEADLOCK FALSE
