------------------------ MODULE RecordPipelineLog ------------------------
(***************************************************************************)
(* RecordPipeline implements RowLog: for each lane, the rows between the   *)
(* channel of its batcher and its commit worker, read from the worker      *)
(* backwards, are the abstract queue.                                      *)
(***************************************************************************)
EXTENDS RecordPipeline

\* The rows that go to s, in their order.
Routed(rows, s) ==
  LET upto[i \in 0..Len(rows)] ==
        IF i = 0 THEN <<>>
        ELSE IF s \in rows[i].to THEN Append(upto[i - 1], rows[i]) ELSE upto[i - 1]
  IN upto[Len(rows)]

\* The row the batcher is distributing and has not yet served to s.
InHand(k, s) ==
  IF item[k] # NoRow /\ (at[k] = s \/ (at[k] = "terminal" /\ s = "clickhouse"))
    THEN Routed(<<item[k]>>, s) ELSE <<>>

Upstream(l) ==
  IF l[1] \in batchers
    THEN batch[l] \o InHand(l[1], l[2]) \o Routed(out[l[1]], l[2])
    ELSE <<>>

\* What l has accepted and not yet stored.
Waiting(l) == IF l \in workers THEN busy[l] \o box[l] \o Upstream(l) ELSE <<>>

queueBar == [l \in Lanes |-> Waiting(l)]
openBar  == [l \in Lanes |-> l \in workers /\ l[1] \in batchers]

Log == INSTANCE RowLog WITH log <- stored, queue <- queueBar, open <- openBar

\* Every step of the pipeline is one step of the abstract log or none: a
\* storage's contents grow by consecutive runs of what its lane accepted, and
\* what a failing connector loses is the end of the queue, never its middle.
ImplementsRowLog == Log!Spec

---------------------------------------------------------------------------
(* RowLog lets a lane close at any time; the pipeline closes one only when *)
(* the whole connector ends.                                               *)

\* All that l has accepted, in the order of acceptance.
Accepted(l) == stored[l] \o Waiting(l)

\* p gets rid of its row.
Leaves(p) == held[p] # NoRow /\ held'[p] = NoRow

\* While the errgroup's context is not done no row is lost, doubled or moved:
\* what a lane has accepted stays as it is, stage by stage, but for the row a
\* producer gets rid of, which enters every lane it is routed to, and at the
\* end.
AliveLosesNothing ==
  [][~cancelled' /\ session' = session =>
       \A l \in Lanes :
         \/ /\ Accepted(l)' = Accepted(l)
            /\ \A p \in Producers : Leaves(p) => l \notin LanesOf(held[p])
         \/ \E p \in Producers : /\ Leaves(p) /\ l \in LanesOf(held[p])
                                 /\ Accepted(l)' = Append(Accepted(l), held[p])]_vars
==========================================================================
