\* Two markets for one recording slot: one passed window is enough.
SPECIFICATION Spec
CONSTANTS
  m1 = m1
  m2 = m2
  NoMarket = NoMarket
  Markets <- MCMarkets
  MaxRecording = 1
  MaxCandidates = 2
  HystK = 1
  HystM = 1
  Window = 1
  Faults = {"send"}
  MaxWindows = 3
SYMMETRY AnyMarket
CHECK_DEADLOCK FALSE
INVARIANTS TypeOK PromotionVisible WithinLimits
PROPERTIES PromotedOnMerit ImplementsWatchList
