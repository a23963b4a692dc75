\* Two levels of two sizes; three versions of the book.
SPECIFICATION Spec
CONSTANTS
  bid = bid
  ask = ask
  Levels <- MCLevels
  Sizes = {0, 1}
  MaxVersion = 3
  MaxWire = 2
  MaxRows = 4
  MaxSessions = 2
CHECK_DEADLOCK FALSE
INVARIANTS TypeOK StreamReplays AnchorAheadHeals
