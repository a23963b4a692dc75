---------------------------- MODULE IdleFlush ----------------------------
(***************************************************************************)
(* The timer of a batcher (tradeBatcher; bookBatcher is the same code with *)
(* another interval).  The batcher flushes a batch when it is full or when *)
(* its ticker fires, and restarts the ticker when a row leaves both        *)
(* batches empty.  Time is counted in units of which FlushInt make the     *)
(* ticker's period; it passes between any two steps, so that the batcher   *)
(* may be slow, or blocked on a commit worker, for as long as it likes.    *)
(* Rows are only counted here: which row is where is RecordPipeline's.     *)
(***************************************************************************)
EXTENDS Naturals

CONSTANTS
  FlushInt,    \* the ticker's period, in units of time
  BufSize      \* BufSize[s]: rows that make a full batch for storage s

Storages == {"terminal", "clickhouse"}

ASSUME FlushIntAssumption == FlushInt \in Nat \ {0}
ASSUME BufSizeAssumption  == BufSize \in [Storages -> Nat \ {0}]

VARIABLES
  count,       \* count[s]: rows in the batch
  age,         \* age[s]: time the batch's oldest row has waited, up to FlushInt
  elapsed,     \* time since the ticker's current period began
  fired,       \* tick.C holds a tick (it has room for one)
  at,          \* the batcher: at its select, or serving a storage
  item,        \* the storages the row in hand is routed to
  timed,       \* the batcher is flushing because the ticker fired
  boxFull      \* boxFull[s]: the commit worker's channel is occupied

batches == <<count, age>>
ticker  == <<elapsed, fired>>
vars    == <<count, age, elapsed, fired, at, item, timed, boxFull>>

Init ==
  /\ count = [s \in Storages |-> 0] /\ age = [s \in Storages |-> 0]
  /\ elapsed = 0 /\ fired = FALSE
  /\ at = "select" /\ item = {} /\ timed = FALSE
  /\ boxFull = [s \in Storages |-> FALSE]

\* One unit of time.  At the end of a period the ticker offers a tick, which
\* is dropped when the previous one was not yet received.
Clock ==
  /\ elapsed' = IF elapsed + 1 = FlushInt THEN 0 ELSE elapsed + 1
  /\ fired'   = (fired \/ elapsed + 1 = FlushInt)
  /\ age' = [s \in Storages |-> IF count[s] > 0 /\ age[s] < FlushInt
                                  THEN age[s] + 1 ELSE age[s]]
  /\ UNCHANGED <<count, at, item, timed, boxFull>>

\* The select takes a row, or the tick; Go picks either when both are ready.
ReceiveRow ==
  /\ at = "select"
  /\ item' \in SUBSET Storages \ {{}}
  /\ at' = "terminal" /\ timed' = FALSE
  /\ UNCHANGED <<batches, ticker, boxFull>>

ReceiveTick ==
  /\ at = "select" /\ fired
  /\ fired' = FALSE
  /\ at' = "terminal" /\ timed' = TRUE /\ item' = {}
  /\ UNCHANGED <<batches, elapsed, boxFull>>

\* flushTer / flushCh, blocking while the channel is occupied.
Flush(s) ==
  /\ ~boxFull[s]
  /\ boxFull' = [boxFull EXCEPT ![s] = TRUE]
  /\ count'   = [count EXCEPT ![s] = 0]
  /\ age'     = [age EXCEPT ![s] = 0]

\* The row in hand joins the batch of s, which is flushed when it is full.
AddRow(s) ==
  IF count[s] + 1 >= BufSize[s]
    THEN Flush(s)
    ELSE /\ count' = [count EXCEPT ![s] = @ + 1]
         /\ UNCHANGED <<age, boxFull>>

ServeStorage(s) ==
  /\ at = s
  /\ \/ timed /\ count[s] > 0 /\ Flush(s)
     \/ timed /\ count[s] = 0 /\ UNCHANGED <<batches, boxFull>>
     \/ ~timed /\ s \in item /\ AddRow(s)
     \/ ~timed /\ s \notin item /\ UNCHANGED <<batches, boxFull>>

\* Mutant of ResetIdle: the period begins anew when any batch is empty.
ResetWhenAnyEmpty ==
  IF \E s \in Storages : count'[s] = 0
    THEN elapsed' = 0 /\ UNCHANGED fired
    ELSE UNCHANGED ticker

\* resetIdle: the ticker's period begins anew when every batch is empty.  A
\* tick already offered stays in the channel.
ResetIdle ==
  IF \A s \in Storages : count'[s] = 0
    THEN elapsed' = 0 /\ UNCHANGED fired
    ELSE UNCHANGED ticker

ServeTerminal ==
  /\ ServeStorage("terminal")
  /\ at' = "clickhouse"
  /\ UNCHANGED <<ticker, item, timed>>

ServeClickHouse ==
  /\ ServeStorage("clickhouse")
  /\ at' = "select" /\ item' = {} /\ timed' = FALSE
  /\ IF timed THEN UNCHANGED ticker ELSE ResetIdle

\* The commit worker of s takes the batch out of the channel.
WorkerTakes(s) ==
  /\ boxFull[s]
  /\ boxFull' = [boxFull EXCEPT ![s] = FALSE]
  /\ UNCHANGED <<batches, ticker, at, item, timed>>

Next == \/ Clock \/ ReceiveRow \/ ReceiveTick \/ ServeTerminal \/ ServeClickHouse
        \/ \E s \in Storages : WorkerTakes(s)

Spec == Init /\ [][Next]_vars

---------------------------------------------------------------------------
(* Properties *)

\* The shape of the state.
TypeOK ==
  /\ count \in [Storages -> Nat] /\ age \in [Storages -> 0..FlushInt]
  /\ elapsed \in 0..(FlushInt - 1) /\ fired \in BOOLEAN
  /\ at \in Storages \cup {"select"} /\ item \in SUBSET Storages
  /\ timed \in BOOLEAN /\ boxFull \in [Storages -> BOOLEAN]

\* The timer bounds how long a row may sit unflushed: whenever the batcher
\* is back at its select with no tick to take, every row it holds has waited
\* less than one period - also the rows of a slow storage while a busy one
\* keeps filling and flushing its own batch.
RowsWaitBelowPeriod ==
  at = "select" /\ ~fired => \A s \in Storages : count[s] > 0 => age[s] < FlushInt
==========================================================================
