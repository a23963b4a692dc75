\* Books and trades to ClickHouse, three rows over two connectors.
SPECIFICATION Spec
CONSTANTS
  Routes <- BothRoutes
  BufSize <- BothBufSize
  OutCap = 1
  MaxSeq = 3
  MaxSessions = 2
INVARIANTS TypeOK StoredInOrder BuffersBounded
