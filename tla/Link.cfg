CONSTANTS
  MsgIds = {1, 2, 3}
  Texts <- McTexts
  WifiLimit = 2
  GsmLimit = 2
  FailWrap = 3
  MaxEvents = 3
SPECIFICATION FairSpec
INVARIANTS
  TypeOK
  AckIsReal
  ModeObeyed
PROPERTIES
  FlipIsEarned
  DownlinksInOrder
  LinesLeave
