CONSTANTS
  MsgIds = {1, 2, 3}
  Texts <- OneText
  WifiLimit = 2
  GsmLimit = 2
  FailWrap = 3
  MaxEvents = 1
SPECIFICATION FairSpec
PROPERTIES
  DownlinkApplied
