\* One market over many windows: two passes to enter, two failures to leave.
SPECIFICATION Spec
CONSTANTS
  m1 = m1
  m2 = m2
  NoMarket = NoMarket
  Markets <- OneMarket
  MaxRecording = 1
  MaxCandidates = 1
  HystK = 2
  HystM = 2
  Window = 2
  Faults = {"fetch", "upsert", "send", "commit", "connector"}
  MaxWindows = 8
CHECK_DEADLOCK FALSE
INVARIANTS PassListEarned DroppedIsStored
PROPERTY ImplementsWatchList
