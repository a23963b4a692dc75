\* An ask that may go, two bids; a snapshot and two changes over two connectors.
SPECIFICATION Spec
CONSTANTS
  Asks = {3}
  Bids = {1, 2}
  None = None
  MaxSize = 1
  Filtered = TRUE
  MaxChange = 1
  MaxVersion = 3
  MaxSessions = 2
CHECK_DEADLOCK FALSE
INVARIANTS TypeOK CacheFollows ReplayFollows QuoteFollows
