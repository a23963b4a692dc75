-------------------------- MODULE RecordPipeline --------------------------
(***************************************************************************)
(* One Polymarket connector and the rows it records, from the websocket    *)
(* reader and the REST anchor loop, through the batchers and the commit    *)
(* workers, to the storages; and the connector's death and reconstruction. *)
(*                                                                         *)
(*   readWs, fullBookLoop --out--> batcher --box--> commit worker --> log  *)
(*                                                                         *)
(* There is one batcher per kind of row (bookBatcher, tradeBatcher) and    *)
(* one commit worker per lane, a lane being a kind and a storage.  out is  *)
(* the channel bookOut / tradeOut (capacity 256 in the code, OutCap here), *)
(* box the one-place channel wsTerBook / wsClickHouseBook / wsTerTrade /   *)
(* wsClickHouseTrade.  Every goroutine runs under one errgroup: the first  *)
(* that returns an error cancels the context, the others return when they  *)
(* notice, and when all have returned StartPolymarket builds the next      *)
(* connector, with the same sequence counter and everything else new.      *)
(***************************************************************************)
EXTENDS Naturals, Sequences, FiniteSets

CONSTANTS
  Routes,       \* Routes[k]: the storage sets the subjects route kind k to
  BufSize,      \* BufSize[l]: rows that make a full batch in lane l
  OutCap,       \* capacity of bookOut and of tradeOut
  MaxSeq,       \* bound: rows stamped in a behaviour
  MaxSessions   \* bound: connectors built in a behaviour

Kinds    == {"book", "trade"}
Storages == {"terminal", "clickhouse"}
Lanes    == {l \in Kinds \X Storages : \E to \in Routes[l[1]] : l[2] \in to}

\* bookBatcher always runs, tradeBatcher only when some subject records trades.
Batchers == {"book"} \cup {l[1] : l \in Lanes}

ASSUME RoutesAssumption  == Routes \in [Kinds -> SUBSET SUBSET Storages]
ASSUME BufSizeAssumption == BufSize \in [Lanes -> Nat \ {0}]
ASSUME OutCapAssumption  == OutCap \in Nat \ {0}
ASSUME BoundsAssumption  == MaxSeq \in Nat /\ MaxSessions \in Nat \ {0}

Producers == {"readWs", "fullBookLoop"}
\* The websocket carries books and trades, the REST anchors are books only.
KindsOf(p) == IF p = "readWs" THEN Kinds ELSE {"book"}

\* A stamped row: its seq, the goroutine that stamped it, its kind, and the
\* storages its subject's configuration routes it to.
Row   == [seq : 1..MaxSeq, src : Producers, kind : Kinds, to : SUBSET Storages]
NoRow == [seq |-> 0]

LanesOf(r) == {l \in Lanes : l[1] = r.kind /\ l[2] \in r.to}

VARIABLES
  session,    \* connectors built so far
  seq,        \* the counter shared by every connector (p.seq)
  cancelled,  \* the errgroup's context is done
  connOpen,   \* the websocket has not been closed by this side
  procs,      \* running: Producers, closeWsConnOnError
  batchers,   \* running batchers, by kind
  workers,    \* running commit workers, by lane
  pc,         \* pc[p]: p waits for input, has rows left in a frame, or sends
  held,       \* held[p]: the row p has stamped and not yet sent
  out,        \* out[k]: the channel to the batcher of kind k
  at,         \* at[k]: the batcher's next step
  item,       \* item[k]: the row being distributed, NoRow in a timed flush
  batch,      \* batch[l]: terBatch / chBatch
  box,        \* box[l]: the batch in the one-place channel, <<>> when empty
  busy,       \* busy[l]: the batch being committed, <<>> when idle
  stored      \* stored[l]: what the storage has received

conn  == <<session, cancelled, connOpen, procs, batchers, workers>>
prod  == <<seq, pc, held>>
flow  == <<at, item, batch>>
vars  == <<session, seq, cancelled, connOpen, procs, batchers, workers, pc,
           held, out, at, item, batch, box, busy, stored>>

AllProcs == Producers \cup {"closeWsConnOnError"}

Init ==
  /\ session = 1 /\ seq = 0
  /\ cancelled = FALSE /\ connOpen = TRUE
  /\ procs = AllProcs /\ batchers = Batchers /\ workers = Lanes
  /\ pc     = [p \in Producers |-> "io"]
  /\ held   = [p \in Producers |-> NoRow]
  /\ out    = [k \in Kinds |-> <<>>]
  /\ at     = [k \in Kinds |-> "select"]
  /\ item   = [k \in Kinds |-> NoRow]
  /\ batch  = [l \in Lanes |-> <<>>]
  /\ box    = [l \in Lanes |-> <<>>]
  /\ busy   = [l \in Lanes |-> <<>>]
  /\ stored = [l \in Lanes |-> <<>>]

---------------------------------------------------------------------------
(* The producers: readWs and fullBookLoop *)

\* The head of p's loop: it returns when the context is done and otherwise
\* goes to wait for a frame (readWs) or for a REST answer (fullBookLoop).
LoopHead(p) ==
  /\ procs' = IF cancelled THEN procs \ {p} ELSE procs
  /\ pc'    = [pc EXCEPT ![p] = "io"]

\* persistBook / persistTrade: a row of the frame takes the next number of
\* the shared counter before it is offered to the channel.
Stamp(p) ==
  /\ p \in procs /\ pc[p] \in {"io", "rows"} /\ seq < MaxSeq
  /\ pc[p] = "io" /\ p = "readWs" => connOpen
  /\ \E k \in KindsOf(p) : \E to \in Routes[k] \ {{}} :
       held' = [held EXCEPT ![p] = [seq |-> seq + 1, src |-> p, kind |-> k, to |-> to]]
  /\ seq' = seq + 1
  /\ pc'  = [pc EXCEPT ![p] = "send"]
  /\ UNCHANGED <<conn, out, flow, box, busy, stored>>

\* Mutant of Send: the row sent is offered again.
SendAgain(p) ==
  /\ p \in procs /\ pc[p] = "send"
  /\ LET k == held[p].kind IN
       /\ Len(out[k]) < OutCap
       /\ out' = [out EXCEPT ![k] = Append(@, held[p])]
  /\ LoopHead(p)
  /\ UNCHANGED <<session, seq, cancelled, connOpen, batchers, workers, held, flow,
                 box, busy, stored>>

\* The channel accepts the row.  A frame may carry further rows, an anchor
\* answer is one row.
Send(p) ==
  /\ p \in procs /\ pc[p] = "send"
  /\ LET k == held[p].kind IN
       /\ Len(out[k]) < OutCap
       /\ out' = [out EXCEPT ![k] = Append(@, held[p])]
  /\ held' = [held EXCEPT ![p] = NoRow]
  /\ IF p = "readWs" THEN /\ pc' = [pc EXCEPT ![p] = "rows"]
                          /\ UNCHANGED procs
                     ELSE LoopHead(p)
  /\ UNCHANGED <<session, seq, cancelled, connOpen, batchers, workers, flow, box,
                 busy, stored>>

\* Nothing (more) of the frame or answer is recorded: it is unknown, its
\* token is not tracked, its subject does not record the channel, or the
\* REST call failed.
EndFrame(p) ==
  /\ p \in procs /\ pc[p] \in {"io", "rows"}
  /\ pc[p] = "io" /\ p = "readWs" => connOpen
  /\ LoopHead(p)
  /\ UNCHANGED <<session, seq, cancelled, connOpen, batchers, workers, held, out,
                 flow, box, busy, stored>>

\* ctx.Done while the channel is full, or while waiting: the REST call ends
\* with the context, the websocket Read only once the connection is closed.
ProducerExit(p) ==
  /\ p \in procs /\ cancelled
  /\ pc[p] = "send" \/ (pc[p] = "io" /\ (p = "readWs" => ~connOpen))
  /\ procs' = procs \ {p}
  /\ held'  = [held EXCEPT ![p] = NoRow]
  /\ pc'    = [pc EXCEPT ![p] = "io"]
  /\ UNCHANGED <<session, seq, cancelled, connOpen, batchers, workers, out, flow,
                 box, busy, stored>>

---------------------------------------------------------------------------
(* The batchers: bookBatcher and tradeBatcher *)

Receive(k) ==
  /\ k \in batchers /\ at[k] = "select" /\ out[k] # <<>>
  /\ item' = [item EXCEPT ![k] = Head(out[k])]
  /\ out'  = [out EXCEPT ![k] = Tail(@)]
  /\ at'   = [at EXCEPT ![k] = "terminal"]
  /\ UNCHANGED <<conn, prod, batch, box, busy, stored>>

\* Mutant of TimerFires: the timer waits for every batch to hold something.
TimerFiresWhenAllPending(k) ==
  /\ k \in batchers /\ at[k] = "select"
  /\ \A s \in Storages : <<k, s>> \in Lanes => batch[<<k, s>>] # <<>>
  /\ \E s \in Storages : <<k, s>> \in Lanes
  /\ item' = [item EXCEPT ![k] = NoRow]
  /\ at'   = [at EXCEPT ![k] = "terminal"]
  /\ UNCHANGED <<conn, prod, out, batch, box, busy, stored>>

\* The idle timer: both batches are to be flushed, full or not.
TimerFires(k) ==
  /\ k \in batchers /\ at[k] = "select"
  /\ \E s \in Storages : <<k, s>> \in Lanes /\ batch[<<k, s>>] # <<>>
  /\ item' = [item EXCEPT ![k] = NoRow]
  /\ at'   = [at EXCEPT ![k] = "terminal"]
  /\ UNCHANGED <<conn, prod, out, batch, box, busy, stored>>

\* Mutant of Flush: the batch is handed over and kept.
FlushAndKeep(l, b) ==
  /\ box[l] = <<>>
  /\ box'   = [box EXCEPT ![l] = b]
  /\ batch' = [batch EXCEPT ![l] = b]

\* flushTer / flushCh: hand the batch to the commit worker; blocks while the
\* one-place channel is occupied.
Flush(l, b) ==
  /\ box[l] = <<>>
  /\ box'   = [box EXCEPT ![l] = b]
  /\ batch' = [batch EXCEPT ![l] = <<>>]

After(s) == IF s = "terminal" THEN "clickhouse" ELSE "select"

\* Mutant of Serve: a batch is flushed one row late.
ServeLate(k) ==
  /\ k \in batchers /\ at[k] # "select"
  /\ LET l == <<k, at[k]>>
         b == IF item[k] = NoRow THEN batch[l] ELSE Append(batch[l], item[k])
     IN  IF l \in Lanes /\ (item[k] # NoRow => at[k] \in item[k].to)
           THEN IF b # <<>> /\ (item[k] = NoRow \/ Len(b) > BufSize[l])
                  THEN Flush(l, b)
                  ELSE /\ batch' = [batch EXCEPT ![l] = b]
                       /\ UNCHANGED box
           ELSE UNCHANGED <<batch, box>>
  /\ at'   = [at EXCEPT ![k] = After(at[k])]
  /\ item' = IF at[k] = "clickhouse" THEN [item EXCEPT ![k] = NoRow] ELSE item
  /\ UNCHANGED <<conn, prod, out, busy, stored>>

\* The batcher serves storage at[k]: it appends the row when the row is
\* routed there and flushes a batch that became full, or flushes whatever
\* the batch holds when the timer fired.
Serve(k) ==
  /\ k \in batchers /\ at[k] # "select"
  /\ LET l == <<k, at[k]>>
         b == IF item[k] = NoRow THEN batch[l] ELSE Append(batch[l], item[k])
     IN  IF l \in Lanes /\ (item[k] # NoRow => at[k] \in item[k].to)
           THEN IF b # <<>> /\ (item[k] = NoRow \/ Len(b) >= BufSize[l])
                  THEN Flush(l, b)
                  ELSE /\ batch' = [batch EXCEPT ![l] = b]
                       /\ UNCHANGED box
           ELSE UNCHANGED <<batch, box>>
  /\ at'   = [at EXCEPT ![k] = After(at[k])]
  /\ item' = IF at[k] = "clickhouse" THEN [item EXCEPT ![k] = NoRow] ELSE item
  /\ UNCHANGED <<conn, prod, out, busy, stored>>

\* Mutant of BatcherExit: a blocked flush does not watch the context.
BatcherExitAtSelect(k) ==
  /\ k \in batchers /\ cancelled /\ at[k] = "select"
  /\ batchers' = batchers \ {k}
  /\ UNCHANGED <<session, cancelled, connOpen, procs, workers, prod, out, flow,
                 box, busy, stored>>

\* ctx.Done in the batcher's select or in a blocked flush.
BatcherExit(k) ==
  /\ k \in batchers /\ cancelled
  /\ batchers' = batchers \ {k}
  /\ UNCHANGED <<session, cancelled, connOpen, procs, workers, prod, out, flow,
                 box, busy, stored>>

---------------------------------------------------------------------------
(* The commit workers: WsPolymarketBookToStorage, WsPolymarketTradeToStorage *)

Take(l) ==
  /\ l \in workers /\ busy[l] = <<>> /\ box[l] # <<>>
  /\ busy' = [busy EXCEPT ![l] = box[l]]
  /\ box'  = [box EXCEPT ![l] = <<>>]
  /\ UNCHANGED <<conn, prod, out, flow, stored>>

\* The batch is stored whole.
Commit(l) ==
  /\ l \in workers /\ busy[l] # <<>>
  /\ stored' = [stored EXCEPT ![l] = @ \o busy[l]]
  /\ busy'   = [busy EXCEPT ![l] = <<>>]
  /\ UNCHANGED <<conn, prod, out, flow, box>>

\* Mutant of CommitFails: the worker drops the batch and carries on.
CommitFailsQuietly(l) ==
  /\ l \in workers /\ busy[l] # <<>> /\ l[2] = "clickhouse"
  /\ busy' = [busy EXCEPT ![l] = <<>>]
  /\ UNCHANGED <<conn, prod, out, flow, box, stored>>

\* The insert returns an error and so does the worker, which cancels the
\* group.  The server may have stored the batch all the same.  The terminal
\* storage never reports an error.
CommitFails(l) ==
  /\ l \in workers /\ busy[l] # <<>> /\ l[2] = "clickhouse"
  /\ stored' \in {stored, [stored EXCEPT ![l] = @ \o busy[l]]}
  /\ busy'      = [busy EXCEPT ![l] = <<>>]
  /\ workers'   = workers \ {l}
  /\ cancelled' = TRUE
  /\ UNCHANGED <<session, connOpen, procs, batchers, prod, out, flow, box>>

\* ctx.Done in the worker's select, a commit being past it.
WorkerExit(l) ==
  /\ l \in workers /\ cancelled /\ busy[l] = <<>>
  /\ workers' = workers \ {l}
  /\ UNCHANGED <<session, cancelled, connOpen, procs, batchers, prod, out, flow,
                 box, busy, stored>>

---------------------------------------------------------------------------
(* The connection, the errgroup and the retry loop *)

\* Read fails: the server closed the connection or the read timed out.
ReadFails ==
  /\ "readWs" \in procs /\ pc["readWs"] = "io"
  /\ procs'     = procs \ {"readWs"}
  /\ cancelled' = TRUE
  /\ UNCHANGED <<session, prod, connOpen, batchers, workers, out, flow, box,
                 busy, stored>>

\* pingWs fails to write its frame, or the whole application is cancelled.
\* Nothing waits for pingWs, so that it returns is not tracked.
GroupCancelled ==
  /\ ~cancelled
  /\ cancelled' = TRUE
  /\ UNCHANGED <<session, connOpen, procs, batchers, workers, prod, out, flow, box,
                 busy, stored>>

\* closeWsConnOnError waits for the context and closes the connection.
CloseConn ==
  /\ "closeWsConnOnError" \in procs /\ cancelled
  /\ connOpen' = FALSE
  /\ procs'    = procs \ {"closeWsConnOnError"}
  /\ UNCHANGED <<session, cancelled, batchers, workers, prod, out, flow, box, busy,
                 stored>>

Ended == procs = {} /\ batchers = {} /\ workers = {}

\* Wait returned; StartPolymarket builds a new connector around the same seq.
Reconnect ==
  /\ Ended /\ session < MaxSessions
  /\ session' = session + 1
  /\ cancelled' = FALSE /\ connOpen' = TRUE
  /\ procs' = AllProcs /\ batchers' = Batchers /\ workers' = Lanes
  /\ pc'    = [p \in Producers |-> "io"]
  /\ held'  = [p \in Producers |-> NoRow]
  /\ out'   = [k \in Kinds |-> <<>>]
  /\ at'    = [k \in Kinds |-> "select"]
  /\ item'  = [k \in Kinds |-> NoRow]
  /\ batch' = [l \in Lanes |-> <<>>]
  /\ box'   = [l \in Lanes |-> <<>>]
  /\ busy'  = [l \in Lanes |-> <<>>]
  /\ UNCHANGED <<seq, stored>>

\* The retries are used up.
GiveUp == Ended /\ session = MaxSessions /\ UNCHANGED vars

Next ==
  \/ \E p \in Producers : Stamp(p) \/ Send(p) \/ EndFrame(p) \/ ProducerExit(p)
  \/ \E k \in Kinds : Receive(k) \/ TimerFires(k) \/ Serve(k) \/ BatcherExit(k)
  \/ \E l \in Lanes : Take(l) \/ Commit(l) \/ CommitFails(l) \/ WorkerExit(l)
  \/ ReadFails \/ GroupCancelled \/ CloseConn \/ Reconnect \/ GiveUp

\* Go schedules every goroutine that can run, timers fire, and a commit ends
\* (in success or in error); nothing says when a frame comes or what fails.
Fairness ==
  /\ \A p \in Producers : WF_vars(Send(p)) /\ WF_vars(ProducerExit(p))
  /\ WF_vars(pc["readWs"] = "rows" /\ EndFrame("readWs"))
  /\ \A k \in Kinds : /\ WF_vars(Receive(k) \/ TimerFires(k) \/ Serve(k))
                      /\ WF_vars(BatcherExit(k))
  /\ \A l \in Lanes : /\ WF_vars(Take(l) \/ Commit(l) \/ CommitFails(l))
                      /\ WF_vars(WorkerExit(l))
  /\ WF_vars(CloseConn) /\ WF_vars(Reconnect)

Spec     == Init /\ [][Next]_vars
FairSpec == Spec /\ Fairness

---------------------------------------------------------------------------
(* Properties *)

\* The shape of the state; in particular a producer holds a row exactly while
\* it is sending one, and the row is its own.
ConnTypeOK ==
  /\ session \in 1..MaxSessions /\ cancelled \in BOOLEAN /\ connOpen \in BOOLEAN
  /\ procs \subseteq AllProcs /\ batchers \subseteq Batchers /\ workers \subseteq Lanes
ProdTypeOK ==
  /\ seq \in 0..MaxSeq
  /\ pc \in [Producers -> {"io", "rows", "send"}]
  /\ held \in [Producers -> Row \cup {NoRow}]
  /\ \A p \in Producers : pc[p] = "send" <=> held[p] # NoRow
  /\ \A p \in Producers : held[p] # NoRow => held[p].src = p
FlowTypeOK ==
  /\ out \in [Kinds -> Seq(Row)]
  /\ at \in [Kinds -> Storages \cup {"select"}]
  /\ item \in [Kinds -> Row \cup {NoRow}]
  /\ batch \in [Lanes -> Seq(Row)]
StoreTypeOK ==
  /\ box \in [Lanes -> Seq(Row)] /\ busy \in [Lanes -> Seq(Row)]
  /\ stored \in [Lanes -> Seq(Row)]
TypeOK == ConnTypeOK /\ ProdTypeOK /\ FlowTypeOK /\ StoreTypeOK

\* A storage receives the rows of one goroutine in the order they were
\* stamped, and none of them twice: over reconnects, failed inserts whose
\* batch was stored all the same, and timed flushes between full ones.
StoredInOrder ==
  \A l \in Lanes : \A i, j \in 1..Len(stored[l]) :
    i < j /\ stored[l][i].src = stored[l][j].src
      => stored[l][i].seq < stored[l][j].seq

\* Buffers stay within their configuration however the timer and the counts
\* interleave: a batch at rest is short of its commit buffer, what a worker
\* gets is at most one buffer, and the channels respect their capacity.
BuffersBounded ==
  /\ \A l \in Lanes : /\ Len(batch[l]) < BufSize[l]
                      /\ Len(box[l]) <= BufSize[l] /\ Len(busy[l]) <= BufSize[l]
  /\ \A k \in Kinds : Len(out[k]) <= OutCap

\* Once anything has failed every goroutine of the connector returns, also
\* one that is blocked on a full channel or in a read: nothing is left behind
\* by a connector, and the retry loop gets its turn.
ConnectorEnds == cancelled ~> Ended

\* A row the batcher's channel has accepted is stored in every storage it is
\* routed to, unless the connector fails first: no row is held hostage in a
\* batch that never fills.
Pending(n, l) ==
  /\ ~cancelled
  /\ \E i \in 1..Len(out[l[1]]) : out[l[1]][i].seq = n /\ l[2] \in out[l[1]][i].to
InStore(n, l) == \E i \in 1..Len(stored[l]) : stored[l][i].seq = n
AcceptedIsStored ==
  \A n \in 1..MaxSeq, l \in Lanes : Pending(n, l) ~> (InStore(n, l) \/ cancelled)
=============================================================================
