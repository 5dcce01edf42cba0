CONSTANTS
  c1 = c1
  c2 = c2
  p1 = p1
  p2 = p2
  Cards = {c1, c2}
  Pins = {p1, p2}
  NoPin = NoPin
  Absent = Absent
  NoFile = NoFile
  NoCard = NoCard
  Fares = {0, 1}
  DefaultFare = 1
  Seed <- McSeed
  Downlinks <- McDownlinks
  Faults = {"lock", "power", "tear", "short"}
  MaxDownlinks = 3
  MaxFaults = 2
SPECIFICATION Spec
INVARIANTS
  TypeOK
  OneEntryPerCard
  
  VerdictIsCurrent
  LoginIsCurrent
  LostListHoldsService
CHECK_DEADLOCK FALSE
