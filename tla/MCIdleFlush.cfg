\* A period of three units; batches of two and of three rows.
SPECIFICATION Spec
CONSTANTS
  FlushInt = 3
  BufSize <- MCBufSize
INVARIANT RowsWaitBelowPeriod
