# TLA+ models of the cryptoLogger recorder

cryptoLogger records market data: one Go process connects to the websockets of
several exchanges, turns frames into rows, and writes the rows in batches to a
terminal and to ClickHouse.  The Polymarket connector does more than the
others: it finds the markets to record by itself, follows them until they are
settled, re-reads full order books by REST, and has a screener that watches
candidate markets and promotes the best ones to be recorded.

This directory holds models of the parts of that program that are concurrent
and hard to test, TLC runs that check them on small instances, and proofs for
every instance of the results that matter most.

## 1. Inventory

| Part | Source | State it keeps | Operations | Model |
|---|---|---|---|---|
| Recording pipeline of Polymarket | `polymarket.go` (readWs, fullBookLoop, bookBatcher, tradeBatcher), `exchange.go`, `clickhouse.go` | the shared `seq` counter, the channels, the batches | stamp, send, batch, flush by size or timer, commit, fail, restart | `RecordPipeline`, `RowLog`, `RecordPipelineLog` |
| The batchers' idle timer | `polymarket.go:1353-1429` | the ticker, the batches' ages | receive a row or a tick, flush, reset | `IdleFlush` |
| Market life cycle of Polymarket | `polymarket.go` (discover, reconcileSubscriptions, checkResolutions), `polymarket_auto.go` | `known`, `meta`, `subscribed`, the market table | discovery cycle, subscribe, unsubscribe, poll a resolution, store it, forget | `MarketTracking` |
| Auto screener | `polymarket_auto.go` | the watch list with its streaks, samples and states; the screener table | scan, poll window, score, promote, release, retire, restore after a reconnect | `AutoScreener`, `WatchList` |
| What the recorded books say | `polymarket.go` (persistBook, fullBookSweep, discover) | the rows of one token | record a websocket book or change, a REST book; subscribe, withdraw | `BookReplay` |
| Spot and futures connectors | `binance.go`, `binanceFutures.go`, `kucoin.go`, `kucoinFutures.go`, `bybit.go`, `bybitFutures.go` | a buffer and a counter per data channel and storage | connect, subscribe, read, buffer, hand over, commit, fail | `SpotConnector` |
| Supervisor | the `Start...` functions, `initializer.go` | retry counter, last retry time | build a connector, retry, give up | `SpotConnector`, `RecordPipeline` |
| Storages | `clickhouse.go`, `terminal.go` | none of their own | commit a batch | the commit actions of `RecordPipeline` and `SpotConnector` |
| Message codecs | `polymarket.go:1154-1178, 1670-1688` | none | parse, normalise, marshal | by their effect, in `BookReplay` |
| Bybit's cached book | `bybit.go`, `bybitFutures.go` (tickOB, readWs) | `cacheOB`, the latest quote, the consider interval | subscribe, read a snapshot or a delta, merge, store, copy and store on a clock | `ByBitBook` |
| REST client with retry | `polymarket_auto.go:1100-1199` | none | attempt, back off | not modelled |
| Tables and migrations | `clickhouse_ddl.go`, `initializer.go`, `newPolymarket` | once-per-process flags and their lock; the database | create, migrate, connect, discover, retry, give up, crash, start again | `TableSetup` |
| Scoring formulas, offline screener | `polymarket_auto.go`, `screener.go` | none | floating-point arithmetic | not modelled |
| Configuration, transports, command line, scripts, `logParser` | `config`, `connector`, `cmd`, `scripts`, `logParser` | none that the recorder shares | read once, or thin wrappers over libraries | not modelled |

How the parts interact.  `initializer.Start` runs one supervisor per exchange
under an error group; the first that gives up cancels all.  A supervisor builds
one connector after another.  A connector is again an error group: its readers,
batchers, workers and pollers share channels and, in Polymarket, three maps
under mutexes; the first to return an error cancels the context of the others.
Polymarket's watch list and its `seq` counter outlive connectors, everything
else is rebuilt.  Websocket and REST answers come in any order relative to each
other; the database may answer an insert with an error whether or not the rows
are there.

What makes it hard, and what makes each part correct:

* Pipeline: blocking channels between goroutines that die one by one.  A
  storage must hold a producer's rows in the order they were stamped, without
  holes before the loss at a connector's end; nothing may block for ever.
* Timer: a ticker that is reset, whose old tick may still be queued.  A row
  must not wait a whole period while the batcher could flush it.
* Life cycle: three goroutines read a map under a lock, act without it, and
  write another map later.  What is recorded must be polled for its outcome;
  subscriptions may end for a reason only; outcomes must reach the table.
* Screener: promotion and release interleave without a lock across the insert
  and the send.  The budget must hold, a promotion must be earned, a recording
  must not be demoted.
* Replay: two sources of books with no common clock but the counter given at
  persist time.
* Spot connectors: count-driven buffers, a reader that blocks on dead workers,
  and an early return that leaves goroutines behind.
* Bybit's book: one goroutine merges deltas into a book that another one copies
  on a clock and stamps later, and a filter may drop a frame before it is merged.
  The cached book must be one the exchange had, and the stored rows must lead to it.
* Tables: several connectors create and migrate the same tables at once and
  again after each reconnect, statement by statement, and a statement may fail or the
  process die between two of them.  Who is told that the tables are ready must find them so.

`PROJECT.json` lists the hazards line by line with the properties meant for
each.

## 2. Modules

Abstract specifications: `RowLog` (what the recorder promises of a lane of
rows), `WatchList` (what the screener promises of its list).
Detailed ones: `RecordPipeline`, `IdleFlush`, `MarketTracking`, `AutoScreener`,
`BookReplay`, `SpotConnector`, `ByBitBook`, `TableSetup`.
Refinement: `RecordPipelineLog` maps the pipeline to `RowLog`;
`AutoScreener!ImplementsWatchList` maps the screener to `WatchList`.
Proofs: `RecordPipelineProofs`, `IdleFlushProofs`, `MarketTrackingProofs`,
`AutoScreenerProofs`, `BookReplayProofs`, `SpotConnectorProofs`,
`ByBitBookProofs`, `TableSetupProofs`.
The `MC...` modules give constants their values.  An operator whose comment
begins "Mutant of" is a plausible mistake in the definition that follows it; it
is used by no specification and stands there so that each property can be seen
to fail.

### RecordPipeline

A connector's goroutines from the producers to the storages.  A *lane* is a kind
of row (book, trade) and a storage; it has a batch in its batcher, a channel of
one batch and a commit worker.  A row carries its `seq`, its producer, its kind
and its subject's storages, and no content.

* `Stamp` and `Send` are `persistBook`/`persistTrade`: the counter is taken
  *before* the send, and another producer may send in between.  So `seq` rises
  per producer in a storage and not across them; that is what `StoredInOrder`
  says.
* `Serve` is the body of the batchers' select for one storage, `at` the storage
  it serves: terminal first, then ClickHouse, each flush blocking on a full
  channel.  `TimerFires` starts the same round without a row.  When the timer
  fires is left open here; `IdleFlush` is about that.
* `ReadFails`, `CommitFails`, `GroupCancelled` cancel the group;
  `ProducerExit`, `BatcherExit`, `WorkerExit`, `CloseConn` are the places where
  the code looks at the context.  `readWs` blocked in a read ends only when
  the connection is closed.
* `Reconnect` keeps `seq` and the storages, and rebuilds the rest.
* An early return of `newPolymarket` cancels its group (deferred cancel, lines
  298-304) before its loops are started; it is part of `Reconnect`.

`OutCap` stands for the capacity 256 of `bookOut`/`tradeOut`.

### IdleFlush

One batcher with an explicit clock: `Clock` is one unit of time, the ticker's
channel holds one tick, `Reset` begins a new period and does not take away a
tick already offered (the module's `go` line is 1.17, so the timers have the
semantics before Go 1.23).  Time passes between any two steps, so a batcher may
be arbitrarily slow or blocked.

### MarketTracking

The connector's tables `known`, `meta` and `subscribed`, the table
`polymarket_market`, and the three goroutines that change them: a discovery
cycle (`DiscoverStarts`, `FetchEvents`, `StoreNew`, `Publish`, `Reconcile`,
`Resubscribe`), a resolution check (`CheckStarts`, `FetchMarket`,
`StoreResolutions`, `Forget`, `Unsubscribe`) and promotions (`PromoteStore`,
`PromoteSubscribe`).  A market stands for its tokens.  Each market has one home
(`SubjectOf`), and a configured subject's markets are not the screener's.
`Undated` are the markets whose end date is missing or cannot be parsed: discovery
registers them like the others, but for the check they never expire (`Expire`), so it
never asks for them.  A market may settle before its end date (`Settle`).
`StoreNew` merges a subject's insert and its registration in `known`, which no
other goroutine can tell apart.  Failures of the first discovery end the
connector and are `Reconnect`.  `Faults` says what may fail: `gamma` (a query for
events or for a market is not answered, or incompletely), `clob`, `upsert`,
`send`, `connector`.

### AutoScreener

The screener's three threads of control over the watch list.  A market is its
Yes/No pair.  Scores are floating point and come out as a choice: `Score` takes
any subset of the judged markets as the passed ones.  A window is
`WindowStarts` (retireStale and the snapshot of tokens, both under the list's
lock in a row) then `FetchFails` or `Score`, `Select`, for each selected market
`Upsert`, `Subscribe`, `Mark`, and last `Commit`.  `Release` is
`releaseResolved` with its final rows.  `checked` is the market between
`considerEvent`'s question to `tokenOwned` and its entry in the list.
`verdicts` and `missed` are history variables.  While a window runs a market
changes its phase of life at most once, and a scan is quick against a market's
life.

### BookReplay

One token of a configured subject: the exchange's book as a sequence of versions, the messages under
way, the connector's tables for the token, and the rows recorded since the
latest websocket anchor, each with the version it was taken from.  The reader of
the README is the operator `Replay`.  That the exchange sends a full book on
subscription and on each trade is taken from the comment at
`polymarket.go:1475` and its protocol is external to the code: subscribe and
unsubscribe frames are obeyed in order, and a frame that cannot be sent counts
as a lost connection.

* `Publish`, then `Subscribe` and `SendSubscribe`, or `StaySubscribed`, are a discovery
  that finds the token: its `meta` entry is written in any case, a frame is sent only when
  it is not in `subscribed`.
* `Withdraw` and `SendUnsubscribe` are a discovery that does not find it; both entries go.
* `Forget` is `checkResolutions` once the outcome is stored: the `meta` entry goes alone, and
  what the subscription still brings is dropped by `persistBook`.  It may come at any moment, also
  between discovery's two locks.
* `spliced` is a history variable: when the token got its `meta` entry back, it was still
  subscribed, or old messages were unread, and no websocket anchor has followed yet.

### SpotConnector

The supervisor and the connectors of one spot or futures exchange; the six files
are the same code up to names and formats.  It has several connectors at once
because `newBinance` returns on a failed subscription *without* cancelling the
group it has started (line 220-223): the next connector then runs beside the one
left behind, until the connection of the latter fails or the program ends.  One
channel of data (say tickers) stands for all four, which have buffers and
workers of their own.  A frame the filters drop leaves no trace.  Not in this
model: the pingers and KuCoin's REST pollers (further members of the group that
end with its context); Bybit's `tickOB` is in `ByBitBook`.  `GapEnds` needs a live context:
when the gap's timer and the context are ready together, building a connector that
fails at once is the same as returning.  Whether a failure came *soon* after
the one before is a choice (`CountRetry`).

### ByBitBook

One market of Bybit on the channels `ticker` and `ordersbook`; `bybitFutures.go` is
`bybit.go` up to names.  The exchange's book is a sequence of versions (`past`), a
frame is a snapshot or the levels that changed since the frame before, and the connector
has the latest quote (`quote`, `storeTick`), the cached book (`cache`, `cacheOB`) and, in
tickOB's hand, a copy of it.

* `Subscribe`, `ReadSnapshot`, `ReadDelta`, `ReadQuote` and `StoreRow` are `newByBit` and
  `readWs`: a frame is dropped by the consider interval *before* it is merged (`Skip`);
  merging it and stamping its row are two steps, because tickOB may run between them.
* `Copy` and `StoreCopy` are `tickOB`: it copies the book under the lock and stamps the copy
  after it, so a row of `readWs` may come between (`overtaken`).
* `GroupFails`, `ReaderEnds`, `TickEnds`, `CloseConn` and `Reconnect` end a connector and build the
  next.
* `view` is what a reader of the tables has who applies each row in the order of its
  time: a book row replaces his book, a change row is merged into it.  `astray`,
  `skipped` and `overtaken` are history variables that name the cases in which he is wrong.
* Rows go straight into their table, and a connector ends before the next one begins:
  batches, workers and overlapping connectors are in `SpotConnector`.  The code also
  leaves a `tickOB` behind for each connection that fails (`bybit.go:174`); it stores
  nothing of a book it never gets, and is not in this model.

### TableSetup

`Main` is `Start` before it starts the exchanges: `CreateExchangeTables` once, errors
logged.  A Polymarket connector with a book in ClickHouse goes through `Create`,
`Lock`, `Migrate` each time it is built, `Connect`, the first `Discover`, and records
until `StopsRecording`; `Retry` and `GiveUp` are its supervisor, `Crash` and
`StartAgain` the process.  The database is a set of facts: a table is there, has its
interval (TTL), has its column.  A statement takes effect or not, an error may come after
it did.  `Installations` are the tables an older version may have left.  `ensured` and
`passes` are history variables.  Not in this model: a Polymarket configuration that
stores trades only never sets up its tables (`polymarket.go:434`; such a connector is not in
`BookConnectors`), other exchanges' shutdown (`SpotConnector`), and what the exchange tables' rows need.

## 3. Runs

| Run | Instance | What it shows |
|---|---|---|
| `record_safe` | books and trades to ClickHouse, three rows, two connectors, batches of 2 and 1 | `StoredInOrder`, `BuffersBounded`: order, no repetition and bounds, under every interleaving and failure |
| `record_live` | books to both storages, two rows, one connector | `ConnectorEnds`: a cancelled connector ends whatever its goroutines wait for. `AcceptedIsStored`: while it stays up, what a channel accepted reaches its storages. `ImplementsRowLog`. `AliveLosesNothing`: until the group is cancelled a row enters each lane it is routed to once, and nothing else about a lane's rows changes |
| `idle_flush` | a period of three units, batches of two and three rows | `RowsWaitBelowPeriod` |
| `screener_budget` | two markets, one slot, three windows, one passed window is enough, failing sends | `WithinLimits`, `PromotionVisible`, `PromotedOnMerit`, `ImplementsWatchList` |
| `screener_hysteresis` | one market, eight windows, two to enter, two to leave, every fault, reconnects | `PassListEarned`, `DroppedIsStored`, and `ImplementsWatchList` over reconnects |
| `tracking_safe` | two configured subjects and AUTO, one market each (the two are interchangeable), every fault, two connectors | `RecordedIsTracked`, `UnsubscribedWithReason` |
| `tracking_live` | two markets of one subject, one of them without an end date, and one of AUTO; single queries fail | `SettledIsStored`, of the two that have an end date |
| `tracking_upsert` | two markets; inserts fail | violation: see section 6 |
| `replay_stream` | two levels of two sizes, three versions, two connectors, a `meta` entry that may go at any time | `StreamReplays`, `AnchorAheadHeals` |
| `spot` | two connectors of one subscription, batches of two; the first reads up to seven rows | `ThreeBatchesLost`, `WaitedForIsGone`, and under fairness `AppEnds`, `LostConnectorEnds` |
| `bybit_book` | one ask and two bids, three versions, two connectors, with the consider interval | `CacheFollows`, `ReplayFollows`, `QuoteFollows` |
| `table_setup` | two connectors on a fresh or an older database, two faults, two starts, one retry | `EnsuredMeansReady`, `OncePerProcess`, and under fairness `BooksRecord` |

Bounds.  Every bound is a constant used in a guard: `MaxSeq`, `MaxSessions`,
`MaxWindows`, `MaxVersion`, `MaxWire`, `MaxRows`, `MaxInstances`, `MaxSize`, `MaxChange`,
`MaxFaults`, `MaxStarts`.  They are
chosen so that each case a property speaks of occurs: three rows make a full
batch of two and a row behind it, and a second connector follows the first; seven
rows are three batches of two and a row more, so a storage may lose a batch in its worker's
hand, one in the channel and one in the buffer, a buffer may be left partly filled, and the
reader blocks before it could lose a fourth batch (longer streams and batches are the theorem's); one ask and two bids are a
side that can empty and a side whose best level can pass to another; two faults are a
statement that fails and then a crash, or one failure each of two connectors; eight windows are twice what
a market needs to fill its observation window, enter the pass list, leave it
and enter again; two versions after an anchor let a REST answer be older or newer than
the stream.  The mutants confirm it: each property fails in its run when the
code is changed the way the mutant names.

Deadlock.  The runs of the pipeline, the timer and the market life cycle check
for deadlock.  In the others a behaviour may end at a bound (windows, versions
or instances used up), and the supervisor of `SpotConnector` does return; there
the liveness properties say what must still happen.  Likewise a process that is down in
`TableSetup` need not be started again.

Fairness.  Weak fairness of a goroutine's own steps: the Go scheduler runs what
can run, and each select, channel operation or call that can complete does.  A
commit, a connection attempt and a write end, in success or in failure (contexts
and timeouts); a read from a dead connection fails.  No fairness for frames,
failures, settlements or the application's end; end dates come (`Expire`).  The supervisor of an
exchange and the function that builds its connector are one goroutine and have one
fairness condition (`SpotConnector`).  In `MarketTracking` the two
inserts have strong fairness (`StoreNew`, `StoreResolutions`): an insert tried
again and again succeeds some time.  With weak fairness only, a database that
always refuses would have to store.  In `TableSetup` a goroutine goes on, the lock is
handed to one who waits for it, and a failed connector is built again or gives up;
nothing makes a statement or a connection fail, and nobody need start the process again.

## 4. Proofs

All are safety results: invariants, action properties and the two refinements, for
every value of the constants that satisfies the modules' named assumptions.  The assumptions
are: batch lengths, limits and capacities are positive, bounds are naturals, markets
and the levels of a book are finitely many, a size may be 0, a market has one home among
the subjects and AUTO, AUTO is no configured subject, and values that stand for "none"
are none of the others.

* `RecordPipelineProofs!TypeCorrect`, `BuffersAreBounded`.  `TypeOK` is inductive as
  it stands; so is `BuffersBounded` together with it.
* `RecordPipelineProofs!StorageOrder` (`StoredInOrder`).  Not inductive: it says
  nothing about rows under way.  The invariant reads a lane as a chain of six
  stages (stored, committing, in the channel, in the batch, in the batcher's
  hand, in the channel to it), each in order and each older than the ones
  behind (`Chained`), and says that what a producer holds is younger than all
  its rows in any stage (`Ages`).  A step moves rows one stage ahead, drops a
  stage, or adds the youngest row at the end.
* `RecordPipelineProofs!ImplementsRowLogHolds`.  All stages but the stored one, joined, are
  a lane's abstract queue (`Waiting`; empty once the worker is gone, and without the stages
  upstream once the batcher is).  `Receive`, `TimerFires`, `Serve` and `Take` leave it as it is
  (`...IsQuiet`), `Send` appends to the lanes a row is routed to (`SendAccepts`), a commit
  takes its head (`CommitStores`), a failing commit and a goroutine's exit drop its end or all of it,
  `Reconnect` empties it.  No invariant is needed but `TypeOK`.  What the channel to a
  batcher holds for one storage is `Routed`, a recursive function; `RoutedGrows` and `RoutedSplits` say that
  it goes along with a row put at the end and one taken from the front.
* `RecordPipelineProofs!StopTogetherHolds`, `AliveLosesNothingHolds`.  `RowLog` lets a lane close
  whenever it likes.  `StopTogether` says that none does before its connector is cancelled: all
  producers, batchers and workers are there while the context is not done.  With it the quiet
  steps and the commits of the refinement keep what a lane has accepted, stored or waiting, and `Send`
  appends to it.
* `IdleFlushProofs!RowsWaitBelowPeriodHolds`.  The invariant (`AgeWithinPeriod`): a row is
  no older than the ticker's current period, except while a tick waits or while
  a flush begun by a tick has still to reach the row's storage.
* `MarketTrackingProofs!RecordedMarketsAreTracked`, `TrackingTypeCorrect`,
  `UnsubscribedWithReasonHolds`.  The
  invariant `Tracked` adds what holds between a goroutine's look at `known` and its
  later write: what discovery is about to publish is known or about to be stored
  (`Covered`), what a check calls resolved stays known until stored
  (`ResolvedIsKept`), rows exist for what is known (`RowsExist`).  For the subscriptions
  `Reasons` adds that what is subscribed and not recorded any more has its
  resolution stored, that discovery never stores such a market anew, and that a cycle
that found nothing does not come to reconcile.
* `AutoScreenerProofs`: all safety properties of the screener and its refinement.  The invariant
  `Inv` has `TypeOK` and eight parts.  `Windows` says what each step of a window leaves
  behind (between windows no rows and no selection; a member of the pass list
  has its samples, is polled, and once scored is not in its final phase).  `Merit` says that
  what is selected stays in the pass list or has settled for good, so that the scan
  cannot bring it back between selection and promotion.  `Budget` counts recordings *and*
  pending promotions, which is what makes the limit hold although `promote` checks nothing;
  with `Listable` it gives `WithinLimits`.
  `RowsShow`, `Stored` and `Times` relate the rows of the window, the table and the
  clock.  `Listed` says that the two streaks are the runs at the end of the
  verdicts; `EarnsAppend` is the fact about sequences that makes it inductive: one more
  verdict earns the place by the run it completes, or keeps it unless it
  completes a run of failures.  `ImplementsWatchListHolds`: `Consider` is `Watch`, `Mark` is
  `Promote` (by `Budget`), `Release` and `WindowStarts` are `Release`, all other steps leave
  the list alone.
* `BookReplayProofs!TypeCorrect`, `StreamReplaysHolds`, `AnchorAheadHealsHolds`.  That the next
  change fits what was recorded last depends on messages that are still under way, so
  the invariant (`IInv`) says of those that they have no hole before a change and end in today's
  book while the exchange streams (`WireRuns`), that the first of them continues the
  latest row unless the token has lost its `meta` entry or got it back too late (`StreamGoesOn`), and that the
  exchange streams only what the connector has subscribed or is about to unsubscribe
  (`Discovered`).  A REST anchor ahead of the stream is healed because each level of the
  reader's book is, from the anchor on, the anchor's or the stream's (`AnchorView`): at the anchor's
  version the two are the same.  `ReplayGrows` is the lemma about `Replay` that all of it
  rests on: a recorded row is one more step of the reader.
* `ByBitBookProofs!QuoteFollowsHolds`.  `QuoteFollows` is inductive but for the first frame
  (`QuoteRead`).  A delta merged into a quote that has the old best level, or no level,
  gives the new one in either order of the entries (`DeltaGivesBest`), a snapshot gives it
  outright, and the versions between two frames do not change the quote (`QuoteHolds`).
* `ByBitBookProofs!TypeCorrect`, `CacheFollowsHolds`, `ReplayFollowsHolds`.  The invariant `Follows`
  adds to `CacheFollows` what tickOB's copy is (`CopyHolds`: the cached book of some
  version, today's row pending or not) and where the reader of the tables stands
  (`ViewHolds`).
* `TableSetupProofs!TypeCorrect`, `EnsuredMeansReadyHolds`, `OncePerProcessHolds`.  The invariant
  adds that an actor at a statement has all earlier ones in the database
  (`Progress`, since nothing is ever dropped) and that a raised flag means the tables
  are ready (`FlagHolds`).
* `SpotConnectorProofs!TypeCorrect`, `WaitedForIsGoneHolds`,
  `ThreeBatchesLostHolds`.  The type of the retry counter and `WaitedForIsGone` need
  the order of lives (`Orderly`, `Subscribed`): a connector other than the latest
  has returned, and one which returned after its last subscription has no
  function left.  `ThreeBatchesLost` needs where the rows between the reader and
  the storage are (`Lane`): while its worker lives, what is stored, being
  committed, in the channel and in the buffer are the rows read, one after
  another (`Flow`); after its death the channel and the buffer still hold at most a
  batch each, and what is missing besides is at most a batch (`Safe`).  The
  run has batches of two rows and one subscription; the theorems cover every batch
  length and number of subscriptions.

Recursion.  `Replay` and `Routed` are recursive functions on an interval of numbers.  The
library's theorems of induction and recursion take a predicate or a step as an operator,
which no installed prover instantiates; `IntervalInduction` and `IntervalRecursion` state
them for a predicate given as a set of numbers and a step given as a function, and are proved
from the library's `WFMin` (a set of numbers that is not empty has a least element).  The modules
that need them have their own copies.

Only model-checked: liveness (`ConnectorEnds`, `AcceptedIsStored`, `SettledIsStored`, `AppEnds`,
`LostConnectorEnds`, `BooksRecord`), which is out of the prover's reach because it rests on
fairness, and so on ENABLED.  Every safety invariant and action property of a run that
passes, and both refinements, are theorems.

## 5. Not modelled

* Formats and wording, scoring formulas and the offline screener: floating point
  over data, without interleaving; `Score` takes any outcome of the formulas.
* Configuration, transports, command line, scripts and the `logParser` service: no
  state that the recorder's goroutines share.
* The REST client with retry: a fixed number of attempts one after another, each on its
  caller's goroutine, with a pause that ends with the context.  It keeps no state; a
  call is answered or fails after any time in the models that make it.
* SQL building, connection settings, the terminal's column layout, message formats: a
  commit or a message appears by what it does to the rows.
* Pingers and KuCoin's REST pollers: members of the error group that end with it and
  touch none of the state of the others.

## 6. Where the code and its documentation differ

One run ends in a counterexample, `tracking_upsert` (a bug).  `checkResolutions` sets
the market resolved in the shared record before the insert (`polymarket.go:1032`).  When the
insert fails it returns, and the next check skips the market because it already counts
as resolved: the outcome never reaches the table, against README.MD:711.

Met while modelling, present in the models, and not kept as runs of their own:

* A REST book gets its `seq` when it is stored, not when it was taken
  (`polymarket.go:1551`).  A websocket change stored in between has a lower `seq` and may
  not be in the book, so the replay README.MD:710 describes is wrong until the next
  change of the same levels or the next anchor.  `AnchorAheadHeals` shows that the other direction,
  a REST book ahead of the stream, is harmless.
* A tick queued when the ticker is reset flushes a batch right after its first
  row (`polymarket.go:1418`; the comment at 1581-1584 says the timer only fires
  when the buffer failed to fill).
* A failed poll discards the DROPPED rows of the markets the same window
  retired (`polymarket_auto.go:643-653`; the comment at 37-39 says every
  measurement window is persisted).  `DroppedIsStored` excuses exactly these
  (`missed`).
* Discovery may claim a market between the screener's ownership test and its
  promotion (`polymarket_auto.go:919`; 293-296 says the auto mode never touches
  such a token).
* After a reconnect, a recorded market that `retireStale` has dropped past its grace
  is not recorded any more (`polymarket_auto.go:334-350`; 701-703 says it is).
* A configured market that settles while the connector is down is not found again
  by discovery, and its outcome is never stored (`polymarket.go:981-989`).
* A token withdrawn and found again records the unread messages of its earlier
  subscription after a gap (`polymarket.go:806-811`).  `StreamReplays` excuses
  it until the next anchor (`spliced`).
* A stored outcome takes the `meta` entries of a market and leaves its tokens subscribed
  (`polymarket.go:1056-1061`).  When Gamma still lists the market, the next discovery gives
  the entries back (806-811) and, because the tokens are subscribed, sends no frame (831-832): the
  messages between are not recorded, and no full book follows until the next trade or sweep.
  `StreamReplays` and `AnchorAheadHeals` excuse it until the next anchor of the
  websocket (`spliced`).
* A market whose end date is missing or cannot be parsed (`parseISOTime`,
  `polymarket.go:1857-1867`) is registered with a zero expiry (773), which
  `checkResolutions` skips (985).  Its outcome is never stored, against README.MD:711.
  `SettledIsStored` leaves such markets out (`Undated`).
* `newBinance` returns on a failed subscription and leaves its group running
  (`binance.go:220-223`; the comment at 151 says a failing function stops the
  others).  The run `spot` shows that this is the only way a connector is still there
  beside its successor, and that such a leftover still ends with the program.
* Once the ask side of Bybit's cached book has emptied, deltas are ignored until the next
  snapshot (`bybit.go:665` takes a book without asks for one that has had no snapshot).
  `CacheFollows` excuses it.
* Bybit's consider interval drops a delta before it is merged (`bybit.go:546-557`;
  README.MD:301 offers the interval to thin the stream "to have a good set of data"; a book
  that is kept by deltas is wrong after a frame that was ignored).  `CacheFollows`,
  `ReplayFollows` and `QuoteFollows` excuse it (`skipped`) until the next snapshot.
* tickOB's copy may be overtaken by a row of `readWs` before it gets its time
  (`bybit.go:450-480`), and its row then says the older book is the newer.
* A Bybit ticker snapshot with an empty side keeps the level of the quote before it.
* The exchange tables' migrations are not retried: `CreateExchangeTables` is called once,
  before the connectors (`initializer.go:84-98`), while the comments at
  `clickhouse_ddl.go:63-66, 113-114` speak of a retry by the next caller.
* The Polymarket tables are only created for a subject whose *book* goes to ClickHouse
  (`polymarket.go:434`); README.MD:694 says they are created.

## 7. Plan

The pipeline came first because it carries every row; then the screener and the market
life cycle, the program's own decisions; then what a reader can rely on (`BookReplay`),
the spot connectors, Bybit's book and the tables.  What is left, in this order:

1. `ByBitBook` over several connectors at once, as `SpotConnector` has them, with the
   `tickOB` that a failed connection leaves behind.
2. The race between discovery's claim and a promotion (`polymarket_auto.go:919`) with both
   modules composed: who records, on whose budget, and whose outcome is stored.
