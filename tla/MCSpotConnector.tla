------------------------- MODULE MCSpotConnector -------------------------
EXTENDS SpotConnector

BatchesOfTwo == [s \in Storages |-> 2]

\* Three batches and a row more for the first connector: enough to see more
\* than three lost.
RowsRead == <<7, 1>>
==========================================================================
