------------------------------ MODULE RowLog ------------------------------
(***************************************************************************)
(* What the recorder promises of one connector's rows, and nothing of how  *)
(* it batches them.  A lane is one stream of rows into one storage.  Rows  *)
(* accepted for a lane wait in its queue; the storage receives them in the *)
(* order of acceptance, a consecutive run at a time.  When the connection  *)
(* is torn down a lane closes: it may lose the END of its queue and it     *)
(* accepts nothing more until the next connection reopens it empty.  So a  *)
(* storage never holds a row twice, never holds two rows of one connection *)
(* out of order, and never has a hole between them.                        *)
(***************************************************************************)
EXTENDS Naturals, Sequences, SequencesExt

CONSTANTS
  Lanes,
  Row,
  LanesOf(_)   \* the lanes a row is routed to

VARIABLES
  log,         \* log[l]: the rows storage lane l has received, in that order
  queue,       \* queue[l]: rows accepted for l and neither stored nor lost
  open         \* open[l]: whether l still accepts rows

vars == <<log, queue, open>>

Init ==
  /\ log   = [l \in Lanes |-> <<>>]
  /\ queue = [l \in Lanes |-> <<>>]
  /\ open  = [l \in Lanes |-> TRUE]

\* A row enters the queue of every open lane it is routed to.
Accept(r) ==
  /\ queue' = [l \in Lanes |-> IF l \in LanesOf(r) /\ open[l]
                                 THEN Append(queue[l], r) ELSE queue[l]]
  /\ UNCHANGED <<log, open>>

\* The storage takes the first n rows of l's queue as one batch.
Store(l, n) ==
  /\ log'   = [log EXCEPT ![l] = @ \o SubSeq(queue[l], 1, n)]
  /\ queue' = [queue EXCEPT ![l] = SubSeq(@, n + 1, Len(@))]
  /\ UNCHANGED open

\* The lanes of L close, each keeping a prefix of its queue.
Close(L) ==
  /\ open' = [l \in Lanes |-> open[l] /\ l \notin L]
  /\ DOMAIN queue' = Lanes
  /\ \A l \in Lanes : IF l \in L THEN IsPrefix(queue'[l], queue[l])
                                 ELSE queue'[l] = queue[l]
  /\ UNCHANGED log

\* A batch whose fate the writer does not learn: the storage took it (n > 0)
\* or not (n = 0); the lane closes and loses the rest.
Break(l, n) ==
  /\ log'   = [log EXCEPT ![l] = @ \o SubSeq(queue[l], 1, n)]
  /\ queue' = [queue EXCEPT ![l] = <<>>]
  /\ open'  = [open EXCEPT ![l] = FALSE]

\* The next connection starts with every lane empty and open.
Reopen ==
  /\ queue' = [l \in Lanes |-> <<>>]
  /\ open'  = [l \in Lanes |-> TRUE]
  /\ UNCHANGED log

Next ==
  \/ \E r \in Row : Accept(r)
  \/ \E l \in Lanes : \E n \in 1..Len(queue[l]) : Store(l, n)
  \/ \E L \in SUBSET Lanes : Close(L)
  \/ \E l \in Lanes : \E n \in 0..Len(queue[l]) : Break(l, n)
  \/ Reopen

Spec == Init /\ [][Next]_vars
=============================================================================
