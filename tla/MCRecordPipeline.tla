------------------------- MODULE MCRecordPipeline -------------------------
EXTENDS RecordPipelineLog

\* Books go to both storages, the terminal's row by row; nobody records trades.
BookRoutes  == [k \in {"book", "trade"} |->
                  IF k = "book" THEN {{"terminal", "clickhouse"}} ELSE {}]
BookBufSize == [l \in {"book"} \X {"terminal", "clickhouse"} |->
                  IF l[2] = "terminal" THEN 1 ELSE 2]

\* Books and trades, both to ClickHouse.
BothRoutes  == [k \in {"book", "trade"} |-> {{"clickhouse"}}]
BothBufSize == [l \in {"book", "trade"} \X {"clickhouse"} |-> IF l[1] = "book" THEN 2 ELSE 1]
==========================================================================
