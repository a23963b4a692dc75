-------------------------- MODULE SpotConnector --------------------------
(***************************************************************************)
(* A spot or futures exchange: its supervisor (StartBinance) and the       *)
(* connectors it builds one after another (newBinance).  The code of       *)
(* Binance, KuCoin and Bybit, spot and futures, is the same up to names    *)
(* and message formats.                                                    *)
(*                                                                         *)
(* A connector is an error group: readWs, which fills a buffer per storage *)
(* and hands full ones over, a commit worker per storage, and the          *)
(* goroutine that closes the websocket when the group's context ends.      *)
(* newBinance only waits for the group when all subscriptions were sent;   *)
(* what it leaves behind otherwise is part of the model.  One channel of   *)
(* data stands for all: each has buffers and workers of its own.           *)
(***************************************************************************)
EXTENDS Naturals, Sequences

CONSTANTS
  Storages,      \* the storages of the data
  CommitBuf,     \* CommitBuf[s]: rows of a batch for s
  Subs,          \* subscriptions of a connector
  Number,        \* retry.Number
  MaxInstances,  \* bound: connectors built in a behaviour
  MaxRows        \* bound: MaxRows[i], rows connector i reads

ASSUME CommitBufAssumption == CommitBuf \in [Storages -> Nat \ {0}]
ASSUME SubsAssumption      == Subs \in Nat \ {0}
ASSUME NumberAssumption    == Number \in Nat
ASSUME SpotBoundsAssumption == MaxInstances \in Nat \ {0}
ASSUME RowsReadAssumption == MaxRows \in [1..MaxInstances -> Nat]

Instances == 1..MaxInstances
Lanes     == Instances \X Storages
Procs     == {"close", "read"} \cup Storages   \* a worker is named by its storage

VARIABLES
  \* StartBinance, and the context of the program
  sup,         \* "new", "running", "gap", "returned"
  retryCount,
  inst,        \* connectors built so far
  appDone,     \* appCtx is cancelled
  \* newBinance
  step,        \* step[i]: "none", "connect", "subscribe", "wait", "returned"
  subs,        \* subs[i]: subscriptions sent
  \* the error group of a connector
  failed,      \* failed[i]: a function of the group has returned an error
  procs,       \* procs[i]: functions running
  conn,        \* conn[i]: "none", "open", "lost", "closed"
  \* readWs and processWs
  blocked,     \* blocked[i]: in the call that reads a frame
  count,       \* count[i]: rows read
  todo,        \* todo[i]: storages the row in hand is still to be buffered for
  full,        \* full[l]: the buffer waits to be handed over
  buf,         \* buf[l]: the buffer
  \* the commit workers
  box,         \* box[l]: the channel, <<>> or one batch
  busy,        \* busy[l]: the batch being committed
  stored       \* stored[l]: rows of the connector in the storage

super == <<sup, retryCount, inst, appDone>>
build == <<step, subs>>
group == <<failed, procs, conn>>
rows  == <<count, todo, full, buf>>
read  == <<blocked, count, todo, full, buf>>
work  == <<box, busy, stored>>
vars  == <<sup, retryCount, inst, appDone, step, subs, failed, procs, conn,
           blocked, count, todo, full, buf, box, busy, stored>>

\* The group's context, derived from appCtx.
Done(i) == failed[i] \/ appDone

Init ==
  /\ sup = "new" /\ retryCount = 0 /\ inst = 0 /\ appDone = FALSE
  /\ step = [i \in Instances |-> "none"] /\ subs = [i \in Instances |-> 0]
  /\ failed = [i \in Instances |-> FALSE] /\ procs = [i \in Instances |-> {}]
  /\ conn = [i \in Instances |-> "none"]
  /\ blocked = [i \in Instances |-> FALSE]
  /\ count = [i \in Instances |-> 0] /\ todo = [i \in Instances |-> {}]
  /\ full = [l \in Lanes |-> FALSE]
  /\ buf = [l \in Lanes |-> <<>>] /\ box = [l \in Lanes |-> <<>>]
  /\ busy = [l \in Lanes |-> <<>>] /\ stored = [l \in Lanes |-> <<>>]

---------------------------------------------------------------------------
(* StartBinance *)

\* The next connector is built, from a value of its own.
Start ==
  /\ sup = "new"
  /\ sup' = "running" /\ inst' = inst + 1
  /\ step' = [step EXCEPT ![inst + 1] = "connect"]
  /\ UNCHANGED <<retryCount, appDone, subs, group, read, work>>

\* newBinance has returned an error.  soon: it did so less than retry.ResetSec
\* after the error before.
CountRetry(soon) == IF soon THEN retryCount + 1 ELSE 1

Retry ==
  /\ sup = "running" /\ step[inst] = "returned" /\ Number # 0
  /\ \E soon \in BOOLEAN :
       /\ retryCount' = CountRetry(soon)
       /\ retryCount' <= Number
  /\ sup' = "gap"
  /\ UNCHANGED <<inst, appDone, build, group, read, work>>

\* The supervisor returns an error, which cancels appCtx.
GiveUp ==
  /\ sup = "running" /\ step[inst] = "returned"
  /\ Number = 0 \/ CountRetry(TRUE) > Number
  /\ retryCount' = IF Number = 0 THEN retryCount ELSE CountRetry(TRUE)
  /\ sup' = "returned" /\ appDone' = TRUE
  /\ UNCHANGED <<inst, build, group, read, work>>

GapEnds ==
  /\ sup = "gap" /\ ~appDone /\ inst < MaxInstances
  /\ sup' = "new"
  /\ UNCHANGED <<retryCount, inst, appDone, build, group, read, work>>

\* During the gap the supervisor sees that the program is ending.
ReturnDone ==
  /\ sup = "gap" /\ appDone
  /\ sup' = "returned"
  /\ UNCHANGED <<retryCount, inst, appDone, build, group, read, work>>

\* Another exchange has given up.
OtherGivesUp ==
  /\ ~appDone
  /\ appDone' = TRUE
  /\ UNCHANGED <<sup, retryCount, inst, build, group, read, work>>

---------------------------------------------------------------------------
(* newBinance *)

\* Mutant of Connect: the connection is not watched.
ConnectUnwatched(i) ==
  /\ step[i] = "connect"
  /\ step' = [step EXCEPT ![i] = "subscribe"]
  /\ conn' = [conn EXCEPT ![i] = "open"]
  /\ procs' = [procs EXCEPT ![i] = Procs \ {"close"}]
  /\ UNCHANGED <<super, subs, failed, read, work>>

\* Connected, and the functions of the group are started.
Connect(i) ==
  /\ step[i] = "connect"
  /\ step' = [step EXCEPT ![i] = "subscribe"]
  /\ conn' = [conn EXCEPT ![i] = "open"]
  /\ procs' = [procs EXCEPT ![i] = Procs]
  /\ UNCHANGED <<super, subs, failed, read, work>>

ConnectFails(i) ==
  /\ step[i] = "connect"
  /\ step' = [step EXCEPT ![i] = "returned"]
  /\ UNCHANGED <<super, subs, group, read, work>>

\* A subscription is sent.  After the last one newBinance waits for the group.
Subscribe(i) ==
  /\ step[i] = "subscribe" /\ conn[i] = "open"
  /\ subs' = [subs EXCEPT ![i] = @ + 1]
  /\ step' = IF subs[i] + 1 = Subs THEN [step EXCEPT ![i] = "wait"] ELSE step
  /\ UNCHANGED <<super, group, read, work>>

\* It could not be sent: newBinance returns, and nobody cancels the group.
SubscribeFails(i) ==
  /\ step[i] = "subscribe"
  /\ step' = [step EXCEPT ![i] = "returned"]
  /\ UNCHANGED <<super, subs, group, read, work>>

\* Mutant of WaitReturns: the first error is enough.
WaitReturnsFirst(i) ==
  /\ step[i] = "wait" /\ failed[i]
  /\ step' = [step EXCEPT ![i] = "returned"]
  /\ UNCHANGED <<super, subs, group, read, work>>

\* Wait returns when all functions have, with the error of the first.
WaitReturns(i) ==
  /\ step[i] = "wait" /\ procs[i] = {}
  /\ step' = [step EXCEPT ![i] = "returned"]
  /\ UNCHANGED <<super, subs, group, read, work>>

\* Function p of the group returns its error.
Exit(i, p) ==
  /\ procs' = [procs EXCEPT ![i] = @ \ {p}]
  /\ failed' = [failed EXCEPT ![i] = TRUE]

\* closeWsConnOnError.
CloseConn(i) ==
  /\ "close" \in procs[i] /\ Done(i)
  /\ Exit(i, "close")
  /\ conn' = [conn EXCEPT ![i] = "closed"]
  /\ UNCHANGED <<super, build, read, work>>

\* The exchange drops the connection.
LoseConn(i) ==
  /\ conn[i] = "open"
  /\ conn' = [conn EXCEPT ![i] = "lost"]
  /\ UNCHANGED <<super, build, failed, procs, read, work>>

---------------------------------------------------------------------------
(* readWs *)

\* Mutant of AtHead: a full buffer does not hold the reader up.
AtHeadEarly(i) == "read" \in procs[i] /\ ~blocked[i] /\ todo[i] = {}

\* The reader is done with the row before, full buffers included.
AtHead(i) == /\ "read" \in procs[i] /\ ~blocked[i] /\ todo[i] = {}
             /\ \A s \in Storages : ~full[<<i, s>>]

\* The select at the loop's head: it has a default, which goes on to read.
LoopHead(i) ==
  /\ AtHead(i) /\ ~Done(i)
  /\ blocked' = [blocked EXCEPT ![i] = TRUE]
  /\ UNCHANGED <<super, build, group, rows, work>>

LoopEnds(i) ==
  /\ AtHead(i) /\ Done(i)
  /\ Exit(i, "read")
  /\ UNCHANGED <<super, build, conn, read, work>>

\* A frame that passes the filters becomes a row.
Read(i) ==
  /\ blocked[i] /\ conn[i] = "open" /\ count[i] < MaxRows[i]
  /\ blocked' = [blocked EXCEPT ![i] = FALSE]
  /\ count' = [count EXCEPT ![i] = @ + 1]
  /\ todo' = [todo EXCEPT ![i] = Storages]
  /\ UNCHANGED <<super, build, group, full, buf, work>>

\* A frame cannot be read or understood, or a pong cannot be sent.
ReadFails(i) ==
  /\ blocked[i]
  /\ blocked' = [blocked EXCEPT ![i] = FALSE]
  /\ Exit(i, "read")
  /\ UNCHANGED <<super, build, conn, rows, work>>

\* processWs: the row in hand is buffered for s ...
Buffer(i, s) ==
  LET l == <<i, s>> IN
    /\ buf' = [buf EXCEPT ![l] = Append(@, count[i])]
    /\ full' = [full EXCEPT ![l] = Len(buf[l]) + 1 = CommitBuf[s]]

\* ... the terminal first when it is one of them ...
Serve(i, s) ==
  /\ "read" \in procs[i] /\ s \in todo[i]
  /\ s # "terminal" => "terminal" \notin todo[i]
  /\ \A t \in Storages : ~full[<<i, t>>]
  /\ Buffer(i, s)
  /\ todo' = [todo EXCEPT ![i] = @ \ {s}]
  /\ UNCHANGED <<super, build, group, blocked, count, work>>

\* Mutant of HandOver: the channel has room for more batches.
HandOverQueued(i, s) ==
  LET l == <<i, s>> IN
    /\ "read" \in procs[i] /\ full[l]
    /\ box' = [box EXCEPT ![l] = @ \o buf[l]]
    /\ buf' = [buf EXCEPT ![l] = <<>>]
    /\ full' = [full EXCEPT ![l] = FALSE]
    /\ UNCHANGED <<super, build, group, blocked, count, todo, busy, stored>>

\* ... and a full buffer is handed over, which waits for the channel ...
HandOver(i, s) ==
  LET l == <<i, s>> IN
    /\ "read" \in procs[i] /\ full[l] /\ box[l] = <<>>
    /\ box' = [box EXCEPT ![l] = buf[l]]
    /\ buf' = [buf EXCEPT ![l] = <<>>]
    /\ full' = [full EXCEPT ![l] = FALSE]
    /\ UNCHANGED <<super, build, group, blocked, count, todo, busy, stored>>

\* Mutant of HandOverDone: the context is looked at when the channel is free.
HandOverDoneFree(i, s) ==
  /\ "read" \in procs[i] /\ full[<<i, s>>] /\ box[<<i, s>>] = <<>> /\ Done(i)
  /\ Exit(i, "read")
  /\ UNCHANGED <<super, build, conn, read, work>>

\* ... or for the end of the context.
HandOverDone(i, s) ==
  /\ "read" \in procs[i] /\ full[<<i, s>>] /\ Done(i)
  /\ Exit(i, "read")
  /\ UNCHANGED <<super, build, conn, read, work>>

---------------------------------------------------------------------------
(* WsTickersToStorage *)

Take(i, s) ==
  LET l == <<i, s>> IN
    /\ s \in procs[i] /\ busy[l] = <<>> /\ box[l] # <<>>
    /\ busy' = [busy EXCEPT ![l] = box[l]]
    /\ box'  = [box EXCEPT ![l] = <<>>]
    /\ UNCHANGED <<super, build, group, read, stored>>

Commit(i, s) ==
  LET l == <<i, s>> IN
    /\ s \in procs[i] /\ busy[l] # <<>>
    /\ stored' = [stored EXCEPT ![l] = @ \o busy[l]]
    /\ busy'   = [busy EXCEPT ![l] = <<>>]
    /\ UNCHANGED <<super, build, group, read, box>>

\* An error of the storage ends the worker, whether or not the batch is there.
CommitFails(i, s) ==
  LET l == <<i, s>> IN
    /\ s \in procs[i] /\ busy[l] # <<>>
    /\ Exit(i, s)
    /\ busy' = [busy EXCEPT ![l] = <<>>]
    /\ \/ stored' = [stored EXCEPT ![l] = @ \o busy[l]]
       \/ UNCHANGED stored
    /\ UNCHANGED <<super, build, conn, read, box>>

WorkerExit(i, s) ==
  /\ s \in procs[i] /\ busy[<<i, s>>] = <<>> /\ Done(i)
  /\ Exit(i, s)
  /\ UNCHANGED <<super, build, conn, read, work>>

---------------------------------------------------------------------------

Next ==
  \/ Start \/ Retry \/ GiveUp \/ GapEnds \/ ReturnDone \/ OtherGivesUp
  \/ \E i \in Instances :
       \/ Connect(i) \/ ConnectFails(i) \/ Subscribe(i) \/ SubscribeFails(i) \/ WaitReturns(i)
       \/ CloseConn(i) \/ LoseConn(i)
       \/ LoopHead(i) \/ LoopEnds(i) \/ Read(i) \/ ReadFails(i)
       \/ \E s \in Storages :
            \/ Serve(i, s) \/ HandOver(i, s) \/ HandOverDone(i, s)
            \/ Take(i, s) \/ Commit(i, s) \/ CommitFails(i, s) \/ WorkerExit(i, s)

\* Every goroutine takes its steps - StartBinance and the newBinance it calls
\* are one -, a call that connects or writes ends, a read from a connection
\* that is gone fails, and a storage answers.
Fairness ==
  /\ WF_vars(\/ Start \/ Retry \/ GiveUp \/ GapEnds \/ ReturnDone
             \/ \E i \in Instances : \/ Connect(i) \/ ConnectFails(i)
                                    \/ Subscribe(i) \/ SubscribeFails(i) \/ WaitReturns(i))
  /\ \A i \in Instances :
       /\ WF_vars(CloseConn(i))
       /\ WF_vars(\/ LoopHead(i) \/ LoopEnds(i) \/ (conn[i] # "open" /\ ReadFails(i))
                  \/ \E s \in Storages : Serve(i, s) \/ HandOver(i, s) \/ HandOverDone(i, s))
       /\ \A s \in Storages :
            WF_vars(Take(i, s) \/ Commit(i, s) \/ CommitFails(i, s) \/ WorkerExit(i, s))

Spec     == Init /\ [][Next]_vars
FairSpec == Spec /\ Fairness

---------------------------------------------------------------------------
(* Properties *)

\* The shape of the state; a function runs only of a connector that has
\* connected, and a reader in its call has no row in hand.
SuperTypeOK ==
  /\ sup \in {"new", "running", "gap", "returned"}
  /\ retryCount \in 0..(Number + 1) /\ inst \in 0..MaxInstances /\ appDone \in BOOLEAN
GroupTypeOK ==
  /\ step \in [Instances -> {"none", "connect", "subscribe", "wait", "returned"}]
  /\ subs \in [Instances -> 0..Subs]
  /\ failed \in [Instances -> BOOLEAN] /\ procs \in [Instances -> SUBSET Procs]
  /\ conn \in [Instances -> {"none", "open", "lost", "closed"}]
  /\ \A i \in Instances : conn[i] = "none" => procs[i] = {}
ReadTypeOK ==
  /\ blocked \in [Instances -> BOOLEAN] /\ count \in [Instances -> Nat]
  /\ todo \in [Instances -> SUBSET Storages]
  /\ full \in [Lanes -> BOOLEAN] /\ buf \in [Lanes -> Seq(Nat)]
  /\ \A i \in Instances : blocked[i] => todo[i] = {} /\ \A s \in Storages : ~full[<<i, s>>]
WorkTypeOK ==
  /\ box \in [Lanes -> Seq(Nat)] /\ busy \in [Lanes -> Seq(Nat)]
  /\ stored \in [Lanes -> Seq(Nat)]
TypeOK == SuperTypeOK /\ GroupTypeOK /\ ReadTypeOK /\ WorkTypeOK

\* What a storage holds of a connector are the first rows it has read, in
\* order, none missing and none twice; and however the connector ends, at
\* most three batches of what it has read are lost: the one that fills, the
\* one in the channel and the one being committed.
ThreeBatchesLost ==
  \A i \in Instances, s \in Storages :
    LET done == stored[<<i, s>>] IN
      /\ \A n \in 1..Len(done) : done[n] = n
      /\ count[i] - Len(done) <= 3 * CommitBuf[s]

\* A connector whose subscriptions were all sent is gone, with all of its
\* functions, before the next one is built.
WaitedForIsGone ==
  \A i \in Instances : i < inst /\ procs[i] # {} => subs[i] < Subs

\* When any exchange gives up, this one's supervisor returns and everything
\* it has ever started ends, also what a failed subscription left behind.
AppEnds == appDone ~> sup = "returned" /\ \A i \in Instances : procs[i] = {}

\* A connector that loses its connection ends, whatever its functions were
\* waiting for: the exchange is not left without a connector.
LostConnectorEnds ==
  \A i \in Instances : conn[i] = "lost" ~> step[i] = "returned" /\ procs[i] = {}
=============================================================================
