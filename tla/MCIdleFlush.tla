--------------------------- MODULE MCIdleFlush ---------------------------
EXTENDS IdleFlush

\* ClickHouse fills at two rows, the terminal is slower to fill.
MCBufSize == [s \in Storages |-> IF s = "terminal" THEN 3 ELSE 2]
==========================================================================
