---------------------------- MODULE TableSetup ----------------------------
(***************************************************************************)
(* ClickHouse's tables: who creates and migrates them, and when, in a      *)
(* process that may be started again on the same database.                 *)
(*                                                                         *)
(* Start (initializer.go) creates and migrates the exchange tables once,   *)
(* whatever comes of it, and then starts the connectors.  Each Polymarket  *)
(* connector does so with its own tables every time it is built.  Creating *)
(* is free to repeat, migrating is not: a flag of the process is raised by *)
(* the first pass without an error, under a lock.                          *)
(*                                                                         *)
(* External: ClickHouse.  A statement takes effect or not, and an error    *)
(* may also come after it did.  An insert that names a missing table or    *)
(* column fails.                                                           *)
(***************************************************************************)
EXTENDS Naturals, Sequences

CONSTANTS
  Connectors,    \* Polymarket supervisors of the configuration
  BookConnectors,\* those of which a subject stores its book in ClickHouse
  Installations, \* sets of tables an older version may have left
  RetryNumber,   \* retry.Number
  Nobody,        \* the lock is free
  MaxFaults,     \* bound: failures that no missing table explains
  MaxStarts      \* bound: starts of the process

Main   == "main"                    \* Start, before the connectors
Actors == Connectors \cup {Main}

ExchangeTables   == <<"ticker", "trade", "level2", "ordersbook">>
PolymarketTables == <<"polymarket_book", "polymarket_market", "polymarket_trade",
                      "polymarket_screener">>
Tables == {ExchangeTables[i] : i \in 1..4} \cup {PolymarketTables[i] : i \in 1..4}

ASSUME ConnectorsAssumption == BookConnectors \subseteq Connectors
ASSUME MainAssumption       == Main \notin Connectors
ASSUME NobodyAssumption     == Nobody \notin Actors
ASSUME InstalledAssumption  == Installations \subseteq SUBSET Tables
ASSUME SetupBoundsAssumption == {RetryNumber, MaxFaults, MaxStarts} \subseteq Nat

Groups   == {"exchange", "polymarket"}
Group(a) == IF a = Main THEN "exchange" ELSE "polymarket"

\* What a statement changes: a table is there, has its interval, or its column.
Thing(what, table) == [what |-> what, table |-> table]
Things == [what : {"table", "ttl", "column"}, table : Tables]

Creates(g) == IF g = "exchange" THEN ExchangeTables ELSE PolymarketTables

\* exchangeMigrations and polymarketMigrations, in their order.
Migrations(g) ==
  IF g = "exchange"
    THEN << Thing("ttl", "ticker"), Thing("ttl", "trade"), Thing("ttl", "level2"),
            Thing("ttl", "ordersbook") >>
    ELSE << Thing("column", "polymarket_market"), Thing("ttl", "polymarket_book"),
            Thing("ttl", "polymarket_trade"), Thing("ttl", "polymarket_market"),
            Thing("ttl", "polymarket_screener") >>

\* A new table has everything, one that is there keeps what it has.
Created(db, table) ==
  IF Thing("table", table) \in db THEN db
  ELSE db \cup {Thing(what, table) : what \in {"table", "ttl", "column"}}

VARIABLES
  db,        \* what the database has
  process,   \* "up" or "down"
  starts,    \* starts so far
  faults,    \* failures so far
  migrated,  \* exchangeMigrated, polymarketMigrated
  lock,      \* who holds migrateMu
  pc,        \* where an actor is
  at,        \* the statement it is about to run
  retries,   \* retryCount of a supervisor
  ensured,   \* history: its last set-up has returned without an error
  passes     \* history: complete passes over a group's migrations in this process

setup == <<db, migrated, lock, passes>>
vars  == <<db, process, starts, faults, migrated, lock, pc, at, retries, ensured, passes>>

Places == {"idle", "create", "lock", "migrate", "connect", "discover", "record", "failed"}

Init ==
  /\ \E there \in Installations : db = {Thing("table", t) : t \in there}
  /\ process = "up" /\ starts = 1 /\ faults = 0
  /\ migrated = [g \in Groups |-> FALSE]
  /\ lock = Nobody
  /\ pc = [a \in Actors |-> IF a = Main THEN "create" ELSE "idle"]
  /\ at = [a \in Actors |-> 1]
  /\ retries = [c \in Connectors |-> 0]
  /\ ensured = [a \in Actors |-> FALSE]
  /\ passes = [g \in Groups |-> 0]

---------------------------------------------------------------------------
(* Statements *)

\* A failure that has no cause in the model.
Fault == faults < MaxFaults /\ faults' = faults + 1

\* Where an actor goes on after its set-up: errors are logged, no more.
Leave(a) ==
  /\ pc' = [pc EXCEPT ![a] = IF a = Main THEN "idle" ELSE "connect"]
  /\ UNCHANGED at

\* CREATE TABLE IF NOT EXISTS, one after the other; an error ends the set-up.
Create(a) ==
  LET g == Group(a)  to == Created(db, Creates(g)[at[a]]) IN
    /\ pc[a] = "create"
    /\ \/ /\ db' = to
          /\ IF at[a] < Len(Creates(g))
               THEN at' = [at EXCEPT ![a] = @ + 1] /\ UNCHANGED pc
               ELSE at' = [at EXCEPT ![a] = 1] /\ pc' = [pc EXCEPT ![a] = "lock"]
          /\ UNCHANGED faults
       \/ /\ Fault
          /\ db' \in {db, to}
          /\ Leave(a)
    /\ UNCHANGED <<process, starts, migrated, lock, retries, ensured, passes>>

\* Mutant of Lock: who finds the lock taken takes the tables for migrated.
LockTried(a) ==
  /\ pc[a] = "lock"
  /\ IF migrated[Group(a)] \/ lock # Nobody
       THEN Leave(a) /\ ensured' = [ensured EXCEPT ![a] = TRUE] /\ UNCHANGED lock
       ELSE /\ lock' = a
            /\ pc' = [pc EXCEPT ![a] = "migrate"] /\ at' = [at EXCEPT ![a] = 1]
            /\ UNCHANGED ensured
  /\ UNCHANGED <<db, process, starts, faults, migrated, retries, passes>>

\* Mutant of Lock: every connector migrates again.
LockAlways(a) ==
  /\ pc[a] = "lock" /\ lock = Nobody
  /\ lock' = a
  /\ pc' = [pc EXCEPT ![a] = "migrate"] /\ at' = [at EXCEPT ![a] = 1]
  /\ UNCHANGED <<db, process, starts, faults, migrated, retries, ensured, passes>>

\* migrateMu.Lock and the flag.
Lock(a) ==
  /\ pc[a] = "lock" /\ lock = Nobody
  /\ IF migrated[Group(a)]
       THEN Leave(a) /\ ensured' = [ensured EXCEPT ![a] = TRUE] /\ UNCHANGED lock
       ELSE /\ lock' = a
            /\ pc' = [pc EXCEPT ![a] = "migrate"] /\ at' = [at EXCEPT ![a] = 1]
            /\ UNCHANGED ensured
  /\ UNCHANGED <<db, process, starts, faults, migrated, retries, passes>>

\* Mutant of Migrate: an error returns without giving the lock back.
MigrateLocked(a) ==
  LET g == Group(a)  to == db \cup {Migrations(g)[at[a]]} IN
    /\ pc[a] = "migrate"
    /\ \/ /\ db' = to
          /\ IF at[a] < Len(Migrations(g))
               THEN /\ at' = [at EXCEPT ![a] = @ + 1]
                    /\ UNCHANGED <<pc, migrated, lock, ensured, passes>>
               ELSE /\ Leave(a) /\ lock' = Nobody
                    /\ migrated' = [migrated EXCEPT ![g] = TRUE]
                    /\ ensured' = [ensured EXCEPT ![a] = TRUE]
                    /\ passes' = [passes EXCEPT ![g] = @ + 1]
          /\ UNCHANGED faults
       \/ /\ Fault
          /\ db' \in {db, to}
          /\ Leave(a)
          /\ UNCHANGED <<lock, migrated, ensured, passes>>
    /\ UNCHANGED <<process, starts, retries>>

\* Mutant of Migrate: the flag is raised by the first pass, sync.Once.
MigrateOnce(a) ==
  LET g == Group(a)  to == db \cup {Migrations(g)[at[a]]} IN
    /\ pc[a] = "migrate"
    /\ \/ /\ db' = to
          /\ IF at[a] < Len(Migrations(g))
               THEN /\ at' = [at EXCEPT ![a] = @ + 1]
                    /\ UNCHANGED <<pc, migrated, lock, ensured, passes>>
               ELSE /\ Leave(a) /\ lock' = Nobody
                    /\ migrated' = [migrated EXCEPT ![g] = TRUE]
                    /\ ensured' = [ensured EXCEPT ![a] = TRUE]
                    /\ passes' = [passes EXCEPT ![g] = @ + 1]
          /\ UNCHANGED faults
       \/ /\ Fault
          /\ db' \in {db, to}
          /\ Leave(a) /\ lock' = Nobody
          /\ migrated' = [migrated EXCEPT ![g] = TRUE]
          /\ UNCHANGED <<ensured, passes>>
    /\ UNCHANGED <<process, starts, retries>>

\* ALTER TABLE under the lock; the flag is raised after the last one.
Migrate(a) ==
  LET g == Group(a)  to == db \cup {Migrations(g)[at[a]]} IN
    /\ pc[a] = "migrate"
    /\ \/ /\ db' = to
          /\ IF at[a] < Len(Migrations(g))
               THEN /\ at' = [at EXCEPT ![a] = @ + 1]
                    /\ UNCHANGED <<pc, migrated, lock, ensured, passes>>
               ELSE /\ Leave(a) /\ lock' = Nobody
                    /\ migrated' = [migrated EXCEPT ![g] = TRUE]
                    /\ ensured' = [ensured EXCEPT ![a] = TRUE]
                    /\ passes' = [passes EXCEPT ![g] = @ + 1]
          /\ UNCHANGED faults
       \/ /\ Fault
          /\ db' \in {db, to}
          /\ Leave(a) /\ lock' = Nobody
          /\ UNCHANGED <<migrated, ensured, passes>>
    /\ UNCHANGED <<process, starts, retries>>

---------------------------------------------------------------------------
(* A Polymarket connector *)

Goes(c, to) == pc' = [pc EXCEPT ![c] = to]

\* newPolymarket: set-up only where a subject stores its book in ClickHouse.
Build(c) ==
  /\ Goes(c, IF c \in BookConnectors THEN "create" ELSE "connect")
  /\ at' = [at EXCEPT ![c] = 1]
  /\ ensured' = [ensured EXCEPT ![c] = FALSE]

\* The connectors are started once Start is done with the exchange tables.
StartConnector(c) ==
  /\ process = "up" /\ pc[c] = "idle" /\ pc[Main] = "idle"
  /\ Build(c)
  /\ UNCHANGED <<process, starts, faults, retries, setup>>

Connect(c) ==
  /\ pc[c] = "connect"
  /\ \/ Goes(c, "discover") /\ UNCHANGED faults
     \/ Fault /\ Goes(c, "failed")
  /\ UNCHANGED <<process, starts, at, retries, ensured, setup>>

\* Rows of the market table name its column category.
MarketFits == {Thing(what, "polymarket_market") : what \in {"table", "column"}} \subseteq db

\* The first discovery stores the markets it finds before anything is recorded.
Discover(c) ==
  /\ pc[c] = "discover"
  /\ \/ MarketFits /\ Goes(c, "record") /\ UNCHANGED faults
     \/ ~MarketFits /\ Goes(c, "failed") /\ UNCHANGED faults
     \/ Fault /\ Goes(c, "failed")
  /\ UNCHANGED <<process, starts, at, retries, ensured, setup>>

\* A commit finds its table missing, or the connection is lost.
StopsRecording(c) ==
  /\ pc[c] = "record"
  /\ Goes(c, "failed")
  /\ \/ /\ \E t \in {"polymarket_book", "polymarket_trade"} : Thing("table", t) \notin db
        /\ UNCHANGED faults
     \/ Fault
  /\ UNCHANGED <<process, starts, at, retries, ensured, setup>>

\* StartPolymarket: the next connector, unless there were too many in too
\* short a time.
Retry(c) ==
  /\ pc[c] = "failed"
  /\ \E n \in {retries[c] + 1, 1} :
       /\ n <= RetryNumber
       /\ retries' = [retries EXCEPT ![c] = n]
  /\ Build(c)
  /\ UNCHANGED <<process, starts, faults, setup>>

---------------------------------------------------------------------------
(* The process *)

\* What the process knows is gone, the database stays.
Down ==
  /\ process' = "down"
  /\ migrated' = [g \in Groups |-> FALSE]
  /\ lock' = Nobody
  /\ pc' = [a \in Actors |-> "idle"] /\ at' = [a \in Actors |-> 1]
  /\ retries' = [c \in Connectors |-> 0]
  /\ ensured' = [a \in Actors |-> FALSE]
  /\ passes' = [g \in Groups |-> 0]
  /\ UNCHANGED <<db, starts>>

\* A supervisor gives up, and the application's error group ends all others.
GiveUp(c) ==
  /\ pc[c] = "failed" /\ retries[c] + 1 > RetryNumber
  /\ Down /\ UNCHANGED faults

Crash == process = "up" /\ Fault /\ Down

StartAgain ==
  /\ process = "down" /\ starts < MaxStarts
  /\ process' = "up" /\ starts' = starts + 1
  /\ pc' = [pc EXCEPT ![Main] = "create"]
  /\ UNCHANGED <<faults, at, retries, ensured, setup>>

---------------------------------------------------------------------------

Next ==
  \/ \E a \in Actors : Create(a) \/ Lock(a) \/ Migrate(a)
  \/ \E c \in Connectors :
       StartConnector(c) \/ Connect(c) \/ Discover(c) \/ StopsRecording(c) \/ Retry(c) \/ GiveUp(c)
  \/ Crash \/ StartAgain

Spec == Init /\ [][Next]_vars

\* Goroutines go on, the lock is handed to who waits for it, and a failed
\* connector is built again or gives up.  Nothing makes a connection fail, or
\* anybody start the process again.
Fairness ==
  /\ \A a \in Actors : WF_vars(Create(a)) /\ WF_vars(Lock(a)) /\ WF_vars(Migrate(a))
  /\ \A c \in Connectors :
       /\ WF_vars(StartConnector(c)) /\ WF_vars(Connect(c)) /\ WF_vars(Discover(c))
       /\ WF_vars(Retry(c) \/ GiveUp(c))

FairSpec == Spec /\ Fairness

---------------------------------------------------------------------------
(* Properties *)

Typed ==
  /\ db \subseteq Things
  /\ process \in {"up", "down"} /\ starts \in Nat /\ faults \in Nat
  /\ migrated \in [Groups -> BOOLEAN] /\ lock \in Actors \cup {Nobody}
  /\ pc \in [Actors -> Places] /\ at \in [Actors -> Nat]
  /\ retries \in [Connectors -> 0..RetryNumber]
  /\ ensured \in [Actors -> BOOLEAN] /\ passes \in [Groups -> Nat]

\* Who migrates has the lock, alone; an actor is at a statement of its group;
\* the database has no interval or column without its table.
TypeOK ==
  /\ Typed
  /\ \A a \in Actors : pc[a] = "migrate" <=> lock = a
  /\ \A a \in Actors : /\ pc[a] = "create" => at[a] \in 1..Len(Creates(Group(a)))
                       /\ pc[a] = "migrate" => at[a] \in 1..Len(Migrations(Group(a)))
  /\ \A x \in db : Thing("table", x.table) \in db

\* All that the statements of a group are for.
Ready(g) ==
  /\ \A i \in 1..Len(Creates(g)) : Thing("table", Creates(g)[i]) \in db
  /\ \A i \in 1..Len(Migrations(g)) : Migrations(g)[i] \in db

\* A set-up that returned without an error leaves its tables there and
\* migrated, whoever ran the statements: this connector or another one whose
\* pass it waited for, over statements that failed half-way and over starts of
\* the process on whatever an older version has left.
EnsuredMeansReady == \A a \in Actors : ensured[a] => Ready(Group(a))

\* A process completes one pass over the migrations of a group and never issues
\* them again, however many connectors it builds and whichever of them ask at
\* the same time: repeating them on live tables is what modifyTTL warns of.
OncePerProcess ==
  \A g \in Groups : passes[g] <= 1 /\ (passes[g] = 1 => \A a \in Actors : Group(a) = g => lock # a)

\* A connector with a book in ClickHouse comes to record, or the process ends:
\* a migration that failed is tried again by the next connector, and no
\* reconnect loop goes on for ever on a table without its column.
BooksRecord ==
  \A c \in BookConnectors : process = "up" ~> (pc[c] = "record" \/ process = "down")
=============================================================================
