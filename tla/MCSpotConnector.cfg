\* Batches of two rows; three batches and a row more of the first connector.
SPECIFICATION FairSpec
CONSTANTS
  Storages = {"clickhouse"}
  CommitBuf <- BatchesOfTwo
  Subs = 1
  Number = 1
  MaxInstances = 2
  MaxRows <- RowsRead
CHECK_DEADLOCK FALSE
INVARIANTS TypeOK ThreeBatchesLost WaitedForIsGone
PROPERTIES AppEnds LostConnectorEnds
