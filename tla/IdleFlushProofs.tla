-------------------------- MODULE IdleFlushProofs --------------------------
(***************************************************************************)
(* RowsWaitBelowPeriod for every period and every pair of batch sizes.     *)
(* It is not inductive: a row may grow old while the batcher is blocked.   *)
(* What is inductive is that a row waits no longer than the ticker's       *)
(* current period has lasted, except while a tick is waiting or while the  *)
(* flush that a tick began has still to reach the row's storage.           *)
(***************************************************************************)
EXTENDS IdleFlush, TLAPS

\* s is still to be served by the flush that a tick began.
FlushAhead(s) == timed /\ at # "select" /\ ~(s = "terminal" /\ at = "clickhouse")

AgeWithinPeriod ==
  \A s \in Storages : count[s] > 0 /\ ~fired /\ ~FlushAhead(s) => age[s] <= elapsed

IInv == /\ TypeOK
        /\ AgeWithinPeriod
        /\ \A s \in Storages : count[s] = 0 => age[s] = 0

LEMMA InitIInv == Init => IInv
<1> SUFFICES ASSUME Init PROVE IInv
  OBVIOUS
<1> USE FlushIntAssumption DEF FlushIntAssumption, Init
<1>1. TypeOK
  <2>1. count \in [Storages -> Nat] /\ age \in [Storages -> 0..FlushInt]
    OBVIOUS
  <2>2. elapsed \in 0..(FlushInt - 1)
    OBVIOUS
  <2>3. fired \in BOOLEAN /\ timed \in BOOLEAN
    OBVIOUS
  <2>4. at \in Storages \cup {"select"} /\ item \in SUBSET Storages
    OBVIOUS
  <2>5. boxFull \in [Storages -> BOOLEAN]
    OBVIOUS
  <2>6. QED
    BY <2>1, <2>2, <2>3, <2>4, <2>5 DEF TypeOK
<1>2. AgeWithinPeriod
  BY DEF AgeWithinPeriod
<1>3. QED
  BY <1>1, <1>2 DEF IInv

LEMMA StepIInv == IInv /\ [Next]_vars => IInv'
<1> SUFFICES ASSUME IInv, [Next]_vars PROVE IInv'
  OBVIOUS
<1> USE FlushIntAssumption, BufSizeAssumption
      DEF FlushIntAssumption, BufSizeAssumption, IInv
<1>1. CASE Clock
  <2>1. TypeOK'
    BY <1>1 DEF Clock, TypeOK
  <2>2. AgeWithinPeriod'
    <3>1. SUFFICES ASSUME NEW s \in Storages, count[s] > 0, ~fired, ~FlushAhead(s),
                          elapsed + 1 # FlushInt
                   PROVE  age'[s] <= elapsed'
      BY <1>1 DEF Clock, AgeWithinPeriod, FlushAhead
    <3>2. age[s] <= elapsed
      BY <3>1 DEF AgeWithinPeriod
    <3>3. QED
      BY <1>1, <3>1, <3>2 DEF Clock, TypeOK
  <2>3. (\A s \in Storages : count[s] = 0 => age[s] = 0)'
    BY <1>1 DEF Clock, TypeOK
  <2>4. QED
    BY <2>1, <2>2, <2>3
<1>2. CASE ReceiveRow
  BY <1>2 DEF ReceiveRow, TypeOK, AgeWithinPeriod, FlushAhead, batches, ticker, Storages
<1>3. CASE ReceiveTick
  BY <1>3 DEF ReceiveTick, TypeOK, AgeWithinPeriod, FlushAhead, batches, Storages
<1>4. CASE ServeTerminal
  <2>1. TypeOK'
    <3>1. count' \in [Storages -> Nat] /\ age' \in [Storages -> 0..FlushInt]
      BY <1>4 DEF ServeTerminal, ServeStorage, AddRow, Flush, batches, ticker, Storages, TypeOK
    <3>2. elapsed' \in 0..(FlushInt - 1)
      BY <1>4 DEF ServeTerminal, ServeStorage, AddRow, Flush, batches, ticker, Storages, TypeOK
    <3>3. fired' \in BOOLEAN /\ timed' \in BOOLEAN
      BY <1>4 DEF ServeTerminal, ServeStorage, AddRow, Flush, batches, ticker, Storages, TypeOK
    <3>4. at' \in Storages \cup {"select"} /\ item' \in SUBSET Storages
      BY <1>4 DEF ServeTerminal, ServeStorage, AddRow, Flush, batches, ticker, Storages, TypeOK
    <3>5. boxFull' \in [Storages -> BOOLEAN]
      BY <1>4 DEF ServeTerminal, ServeStorage, AddRow, Flush, batches, ticker, Storages, TypeOK
    <3>6. QED
      BY <3>1, <3>2, <3>3, <3>4, <3>5 DEF TypeOK
  <2>2. AgeWithinPeriod'
    BY <1>4 DEF ServeTerminal, ServeStorage, AddRow, Flush, TypeOK, AgeWithinPeriod,
                FlushAhead, batches, ticker, Storages
  <2>3. (\A s \in Storages : count[s] = 0 => age[s] = 0)'
    BY <1>4 DEF ServeTerminal, ServeStorage, AddRow, Flush, TypeOK, batches, Storages
  <2>4. QED
    BY <2>1, <2>2, <2>3
<1>5. CASE ServeClickHouse
  <2>1. TypeOK'
    <3>1. count' \in [Storages -> Nat] /\ age' \in [Storages -> 0..FlushInt]
      BY <1>5 DEF ServeClickHouse, ServeStorage, AddRow, Flush, ResetIdle, batches, ticker, Storages, TypeOK
    <3>2. elapsed' \in 0..(FlushInt - 1)
      BY <1>5 DEF ServeClickHouse, ServeStorage, AddRow, Flush, ResetIdle, batches, ticker, Storages, TypeOK
    <3>3. fired' \in BOOLEAN /\ timed' \in BOOLEAN
      BY <1>5 DEF ServeClickHouse, ServeStorage, AddRow, Flush, ResetIdle, batches, ticker, Storages, TypeOK
    <3>4. at' \in Storages \cup {"select"} /\ item' \in SUBSET Storages
      BY <1>5 DEF ServeClickHouse, ServeStorage, AddRow, Flush, ResetIdle, batches, ticker, Storages, TypeOK
    <3>5. boxFull' \in [Storages -> BOOLEAN]
      BY <1>5 DEF ServeClickHouse, ServeStorage, AddRow, Flush, ResetIdle, batches, ticker, Storages, TypeOK
    <3>6. QED
      BY <3>1, <3>2, <3>3, <3>4, <3>5 DEF TypeOK
  <2>2. AgeWithinPeriod'
    BY <1>5 DEF ServeClickHouse, ServeStorage, AddRow, Flush, ResetIdle, TypeOK,
                AgeWithinPeriod, FlushAhead, batches, ticker, Storages
  <2>3. (\A s \in Storages : count[s] = 0 => age[s] = 0)'
    BY <1>5 DEF ServeClickHouse, ServeStorage, AddRow, Flush, TypeOK, batches, Storages
  <2>4. QED
    BY <2>1, <2>2, <2>3
<1>6. CASE \E s \in Storages : WorkerTakes(s)
  BY <1>6 DEF WorkerTakes, TypeOK, AgeWithinPeriod, FlushAhead, batches, ticker
<1>7. CASE UNCHANGED vars
  BY <1>7 DEF vars, TypeOK, AgeWithinPeriod, FlushAhead
<1>8. QED
  BY <1>1, <1>2, <1>3, <1>4, <1>5, <1>6, <1>7 DEF Next

LEMMA IInvBound == IInv => RowsWaitBelowPeriod
  BY FlushIntAssumption DEF FlushIntAssumption, IInv, TypeOK, AgeWithinPeriod, RowsWaitBelowPeriod,
                            FlushAhead, Storages

\* For every period and batch sizes, a batcher at its select with no tick to
\* take holds no row that has waited a whole period.
THEOREM RowsWaitBelowPeriodHolds == Spec => []RowsWaitBelowPeriod
<1>1. Init => IInv
  BY InitIInv
<1>2. IInv /\ [Next]_vars => IInv'
  BY StepIInv
<1>3. IInv => RowsWaitBelowPeriod
  BY IInvBound
<1>4. QED
  BY <1>1, <1>2, <1>3, PTL DEF Spec
============================================================================
