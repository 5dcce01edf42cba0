CONSTANTS
  Cards <- McCards
  UidOf <- McUids
  CountTo = 5
  MaxMoves = 3
  MaxFaults = 2
  Rows = 2
  Cols = 2
  KeyAt <- McKeyAt
  Digits = {"0", "1"}
  ListMax = 2
  PinLen = 2
  NoKey = NoKey
  MaxPresses = 3
  Columns = 4
  Messages <- McMessages
  MaxShows = 2
  MaxResets = 1
  MaxGlitches = 1
  WdtTimeout = 30
  SocketTimeout = 30
  LockTimeout = 6
  HoldMax = 1
SPECIFICATION Spec
INVARIANTS
  TypeOK
  Shown
  
PROPERTIES
  SelectsOne
  ReadOncePerVisit
  ReportsArePresses
  EveryCardIsRead
  AlertFollowsReader
  KeysAreHeard
CHECK_DEADLOCK FALSE
