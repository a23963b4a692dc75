\* Books to both storages: rows reach the storages, connectors end.
SPECIFICATION FairSpec
CONSTANTS
  Routes <- BookRoutes
  BufSize <- BookBufSize
  OutCap = 1
  MaxSeq = 2
  MaxSessions = 1
PROPERTIES ConnectorEnds AcceptedIsStored ImplementsRowLog AliveLosesNothing
