----------------------- MODULE SpotConnectorProofs -----------------------
(***************************************************************************)
(* The safety properties of SpotConnector, for any number of connectors,   *)
(* subscriptions and retries, and any batch sizes.                         *)
(*                                                                         *)
(* Type correctness and WaitedForIsGone follow from the order in which a   *)
(* supervisor and its connectors go through their lives (Orderly).         *)
(* ThreeBatchesLost follows from where the rows of a lane are: as long as  *)
(* its worker lives, what is stored, being committed, in the channel and   *)
(* in the buffer are the rows read, one after another (Lane).              *)
(***************************************************************************)
EXTENDS SpotConnector, Integers, TLAPS

\* Connectors are built one after another, each after the one before has
\* returned, and the retries are within their number till the last.
Orderly ==
  /\ sup = "new" => inst < MaxInstances
  /\ sup # "returned" => retryCount <= Number
  /\ sup \in {"new", "gap"} /\ inst # 0 => step[inst] = "returned"
  /\ sup # "new" => inst # 0
  /\ \A i \in Instances : i < inst => step[i] = "returned"
  /\ \A i \in Instances : i > inst => step[i] = "none"

\* A connector's subscriptions are counted as it goes through its steps; once
\* it has returned after the last of them, nothing of it runs.
Subscribed ==
  \A i \in Instances :
    /\ step[i] \in {"none", "connect"} => subs[i] = 0 /\ procs[i] = {} /\ ~blocked[i]
    /\ step[i] = "subscribe" => subs[i] < Subs
    /\ step[i] = "returned" /\ subs[i] = Subs => procs[i] = {}

Lives == TypeOK /\ Orderly /\ Subscribed

\* A function of the group that ends leaves the others as they are.
LEMMA ExitType ==
  ASSUME NEW i \in Instances, NEW p \in Procs, GroupTypeOK, Exit(i, p)
  PROVE  /\ procs' \in [Instances -> SUBSET Procs]
         /\ failed' \in [Instances -> BOOLEAN]
         /\ \A j \in Instances : procs'[j] \subseteq procs[j]
<1>1. procs' \in [Instances -> SUBSET Procs]
  BY DEF Exit, GroupTypeOK
<1>2. failed' \in [Instances -> BOOLEAN]
  BY DEF Exit, GroupTypeOK
<1>3. \A j \in Instances : procs'[j] \subseteq procs[j]
  BY DEF Exit, GroupTypeOK
<1>4. QED
  BY <1>1, <1>2, <1>3

\* A program that starts has no connector yet.
LEMMA InitLives == Init => Lives
<1> SUFFICES ASSUME Init PROVE Lives
  OBVIOUS
<1> USE SubsAssumption, NumberAssumption, SpotBoundsAssumption
        DEF Init, SubsAssumption, NumberAssumption, SpotBoundsAssumption
<1>1. SuperTypeOK
  <2>1. sup \in {"new", "running", "gap", "returned"} /\ appDone \in BOOLEAN
    BY DEF Init
  <2>2. retryCount \in 0..(Number + 1) /\ inst \in 0..MaxInstances
    OBVIOUS
  <2>3. QED
    BY <2>1, <2>2 DEF SuperTypeOK
<1>2. GroupTypeOK
  BY DEF GroupTypeOK
<1>3. ReadTypeOK
  BY DEF ReadTypeOK, Lanes
<1>4. WorkTypeOK
  BY DEF WorkTypeOK
<1>5. Orderly
  BY DEF Orderly, Instances
<1>6. Subscribed
  BY DEF Subscribed
<1>7. QED
  BY <1>1, <1>2, <1>3, <1>4, <1>5, <1>6 DEF Lives, TypeOK

\* Every step of the supervisor and of the connectors keeps the order.
LEMMA StepLives == Lives /\ [Next]_vars => Lives'
<1> SUFFICES ASSUME Lives, [Next]_vars PROVE Lives'
  OBVIOUS
<1> USE SubsAssumption, NumberAssumption, SpotBoundsAssumption
        DEF SubsAssumption, NumberAssumption, SpotBoundsAssumption, Instances, Lives, TypeOK
<1>1. CASE Start
  <2>1. SuperTypeOK'
    BY <1>1 DEF Start, SuperTypeOK, Orderly, super
  <2>2. GroupTypeOK'
    BY <1>1 DEF Start, GroupTypeOK, build, group, SuperTypeOK
  <2>3. Orderly'
    BY <1>1 DEF Start, Orderly, super, build, SuperTypeOK, GroupTypeOK
  <2>4. Subscribed'
    BY <1>1 DEF Start, Subscribed, GroupTypeOK, Orderly, SuperTypeOK, group, read
  <2>5. ReadTypeOK' /\ WorkTypeOK'
    BY <1>1 DEF Start, ReadTypeOK, WorkTypeOK, read, work
  <2>6. QED
    BY <2>1, <2>2, <2>3, <2>4, <2>5
<1>2. CASE Retry
  <2>1. SuperTypeOK'
    BY <1>2 DEF Retry, CountRetry, SuperTypeOK, Orderly
  <2>2. Orderly'
    <3>1. /\ sup' = "gap" /\ sup = "running" /\ step[inst] = "returned"
          /\ step' = step /\ inst' = inst /\ retryCount' <= Number
      BY <1>2 DEF Retry, build
    <3>2. QED
      BY <3>1 DEF Orderly, SuperTypeOK
  <2>3. GroupTypeOK' /\ ReadTypeOK' /\ WorkTypeOK' /\ Subscribed'
    BY <1>2 DEF Retry, CountRetry, GroupTypeOK, ReadTypeOK, WorkTypeOK, Subscribed, build, group, read, work
  <2>4. QED
    BY <2>1, <2>2, <2>3
<1>3. CASE GiveUp
  <2>1. SuperTypeOK'
    BY <1>3 DEF GiveUp, CountRetry, SuperTypeOK, Orderly
  <2>2. Orderly'
    BY <1>3 DEF GiveUp, CountRetry, Orderly, build, SuperTypeOK
  <2>3. GroupTypeOK' /\ ReadTypeOK' /\ WorkTypeOK' /\ Subscribed'
    BY <1>3 DEF GiveUp, CountRetry, GroupTypeOK, ReadTypeOK, WorkTypeOK, Subscribed, build, group, read, work
  <2>4. QED
    BY <2>1, <2>2, <2>3
<1>4. CASE GapEnds \/ ReturnDone \/ OtherGivesUp
  <2>1. SuperTypeOK'
    BY <1>4 DEF GapEnds, ReturnDone, OtherGivesUp, SuperTypeOK
  <2>2. Orderly'
    BY <1>4 DEF GapEnds, ReturnDone, OtherGivesUp, Orderly, build, SuperTypeOK
  <2>3. GroupTypeOK' /\ ReadTypeOK' /\ WorkTypeOK' /\ Subscribed'
    BY <1>4 DEF GapEnds, ReturnDone, OtherGivesUp, GroupTypeOK, ReadTypeOK, WorkTypeOK, Subscribed, build, group, read, work
  <2>4. QED
    BY <2>1, <2>2, <2>3
<1>5. ASSUME NEW i \in Instances, Connect(i) \/ ConnectFails(i) PROVE Lives'
  <2>1. GroupTypeOK'
    <3>1. CASE Connect(i)
      BY <3>1 DEF Connect, GroupTypeOK
    <3>2. CASE ConnectFails(i)
      BY <3>2 DEF ConnectFails, GroupTypeOK, group
    <3>3. QED
      BY <1>5, <3>1, <3>2
  <2>2. Orderly'
    BY <1>5 DEF Connect, ConnectFails, Orderly, super, GroupTypeOK, SuperTypeOK
  <2>3. Subscribed'
    BY <1>5 DEF Connect, ConnectFails, Subscribed, GroupTypeOK, read, group
  <2>4. SuperTypeOK' /\ ReadTypeOK' /\ WorkTypeOK'
    BY <1>5 DEF Connect, ConnectFails, SuperTypeOK, ReadTypeOK, WorkTypeOK, super, read, work
  <2>5. QED
    BY <2>1, <2>2, <2>3, <2>4
<1>6. ASSUME NEW i \in Instances, Subscribe(i) \/ SubscribeFails(i) PROVE Lives'
  <2>1. GroupTypeOK'
    BY <1>6 DEF Subscribe, SubscribeFails, GroupTypeOK, Subscribed, group
  <2>2. Orderly'
    BY <1>6 DEF Subscribe, SubscribeFails, Orderly, super, GroupTypeOK, SuperTypeOK
  <2>3. Subscribed'
    BY <1>6 DEF Subscribe, SubscribeFails, Subscribed, GroupTypeOK, read, group
  <2>4. SuperTypeOK' /\ ReadTypeOK' /\ WorkTypeOK'
    BY <1>6 DEF Subscribe, SubscribeFails, SuperTypeOK, ReadTypeOK, WorkTypeOK, super, read, work
  <2>5. QED
    BY <2>1, <2>2, <2>3, <2>4
<1>7. ASSUME NEW i \in Instances, WaitReturns(i) PROVE Lives'
  <2>1. GroupTypeOK'
    BY <1>7 DEF WaitReturns, GroupTypeOK, group
  <2>2. Orderly'
    BY <1>7 DEF WaitReturns, Orderly, super, GroupTypeOK, SuperTypeOK
  <2>3. Subscribed'
    BY <1>7 DEF WaitReturns, Subscribed, GroupTypeOK, read, group
  <2>4. SuperTypeOK' /\ ReadTypeOK' /\ WorkTypeOK'
    BY <1>7 DEF WaitReturns, SuperTypeOK, ReadTypeOK, WorkTypeOK, super, read, work
  <2>5. QED
    BY <2>1, <2>2, <2>3, <2>4
<1>8. ASSUME NEW i \in Instances, CloseConn(i) \/ LoseConn(i) PROVE Lives'
  <2>1. GroupTypeOK'
    <3>1. CASE CloseConn(i)
      <4>1. Exit(i, "close") /\ "close" \in Procs
        BY <3>1 DEF CloseConn, Procs
      <4>2. QED
        BY <3>1, <4>1, ExitType DEF CloseConn, GroupTypeOK, build
    <3>2. CASE LoseConn(i)
      BY <3>2 DEF LoseConn, GroupTypeOK, build
    <3>3. QED
      BY <1>8, <3>1, <3>2
  <2>2. Subscribed'
    BY <1>8 DEF CloseConn, LoseConn, Exit, Subscribed, GroupTypeOK, read, build
  <2>3. SuperTypeOK' /\ ReadTypeOK' /\ WorkTypeOK' /\ Orderly'
    BY <1>8 DEF CloseConn, LoseConn, Exit, SuperTypeOK, ReadTypeOK, WorkTypeOK, Orderly, super, read, work, build
  <2>4. QED
    BY <2>1, <2>2, <2>3
<1>9. ASSUME NEW i \in Instances, LoopHead(i) \/ LoopEnds(i) PROVE Lives'
  <2>1. GroupTypeOK'
    <3>1. CASE LoopHead(i)
      BY <3>1 DEF LoopHead, GroupTypeOK, build, group
    <3>2. CASE LoopEnds(i)
      <4>1. Exit(i, "read") /\ "read" \in Procs
        BY <3>2 DEF LoopEnds, Procs
      <4>2. QED
        BY <3>2, <4>1, ExitType DEF LoopEnds, GroupTypeOK, build
    <3>3. QED
      BY <1>9, <3>1, <3>2
  <2>2. ReadTypeOK'
    BY <1>9 DEF LoopHead, LoopEnds, AtHead, Exit, ReadTypeOK, read, rows
  <2>3. Subscribed'
    BY <1>9 DEF LoopHead, LoopEnds, AtHead, Exit, Subscribed, GroupTypeOK, ReadTypeOK, build, group, read
  <2>4. SuperTypeOK' /\ WorkTypeOK' /\ Orderly'
    BY <1>9 DEF LoopHead, LoopEnds, AtHead, Exit, SuperTypeOK, WorkTypeOK, Orderly, super, work, build
  <2>5. QED
    BY <2>1, <2>2, <2>3, <2>4
<1>10. ASSUME NEW i \in Instances, Read(i) PROVE Lives'
  <2>1. ReadTypeOK'
    BY <1>10 DEF Read, ReadTypeOK
  <2>2. Subscribed'
    BY <1>10 DEF Read, Subscribed, ReadTypeOK, build, group
  <2>3. SuperTypeOK' /\ GroupTypeOK' /\ WorkTypeOK' /\ Orderly'
    BY <1>10 DEF Read, SuperTypeOK, GroupTypeOK, WorkTypeOK, Orderly, super, build, group, work
  <2>4. QED
    BY <2>1, <2>2, <2>3
<1>11. ASSUME NEW i \in Instances, ReadFails(i) PROVE Lives'
  <2>1. GroupTypeOK'
    BY <1>11 DEF ReadFails, Exit, GroupTypeOK, build
  <2>2. ReadTypeOK'
    BY <1>11 DEF ReadFails, Exit, ReadTypeOK, rows
  <2>3. Subscribed'
    BY <1>11 DEF ReadFails, Exit, Subscribed, GroupTypeOK, ReadTypeOK, build
  <2>4. SuperTypeOK' /\ WorkTypeOK' /\ Orderly'
    BY <1>11 DEF ReadFails, Exit, SuperTypeOK, WorkTypeOK, Orderly, super, work, build
  <2>5. QED
    BY <2>1, <2>2, <2>3, <2>4
<1>12. ASSUME NEW i \in Instances, NEW s \in Storages, Serve(i, s) PROVE Lives'
  <2>1. ReadTypeOK'
    BY <1>12 DEF Serve, Buffer, ReadTypeOK, Lanes
  <2>2. Subscribed'
    BY <1>12 DEF Serve, Buffer, Subscribed, build, group
  <2>3. SuperTypeOK' /\ GroupTypeOK' /\ WorkTypeOK' /\ Orderly'
    BY <1>12 DEF Serve, Buffer, SuperTypeOK, GroupTypeOK, WorkTypeOK, Orderly, super, build, group, work
  <2>4. QED
    BY <2>1, <2>2, <2>3
<1>13. ASSUME NEW i \in Instances, NEW s \in Storages, HandOver(i, s) \/ HandOverDone(i, s)
      PROVE  Lives'
  <2>1. GroupTypeOK'
    <3>1. CASE HandOver(i, s)
      BY <3>1 DEF HandOver, GroupTypeOK, build, group
    <3>2. CASE HandOverDone(i, s)
      <4>1. Exit(i, "read") /\ "read" \in Procs
        BY <3>2 DEF HandOverDone, Procs
      <4>2. QED
        BY <3>2, <4>1, ExitType DEF HandOverDone, GroupTypeOK, build
    <3>3. QED
      BY <1>13, <3>1, <3>2
  <2>2. ReadTypeOK'
    <3>1. CASE HandOver(i, s)
      BY <3>1 DEF HandOver, ReadTypeOK, Lanes
    <3>2. CASE HandOverDone(i, s)
      BY <3>2 DEF HandOverDone, ReadTypeOK, read
    <3>3. QED
      BY <1>13, <3>1, <3>2
  <2>3. WorkTypeOK'
    BY <1>13 DEF HandOver, HandOverDone, Exit, WorkTypeOK, work, ReadTypeOK, Lanes
  <2>4. Subscribed'
    BY <1>13 DEF HandOver, HandOverDone, Exit, Subscribed, GroupTypeOK, build, group, read
  <2>5. SuperTypeOK' /\ Orderly'
    BY <1>13 DEF HandOver, HandOverDone, Exit, SuperTypeOK, Orderly, super, build
  <2>6. QED
    BY <2>1, <2>2, <2>3, <2>4, <2>5
<1>14. ASSUME NEW i \in Instances, NEW s \in Storages, Take(i, s) PROVE Lives'
  <2>1. WorkTypeOK'
    BY <1>14 DEF Take, WorkTypeOK, Lanes
  <2>2. UNCHANGED <<super, build, group, read>>
    BY <1>14 DEF Take
  <2>3. QED
    BY <2>1, <2>2 DEF SuperTypeOK, GroupTypeOK, ReadTypeOK, Orderly, Subscribed, super, build, group, read
<1>15. ASSUME NEW i \in Instances, NEW s \in Storages, Commit(i, s) PROVE Lives'
  <2>1. WorkTypeOK'
    <3>1. stored' \in [Lanes -> Seq(Nat)]
      BY <1>15 DEF Commit, WorkTypeOK, Lanes
    <3>2. box' \in [Lanes -> Seq(Nat)] /\ busy' \in [Lanes -> Seq(Nat)]
      BY <1>15 DEF Commit, WorkTypeOK, Lanes
    <3>3. QED
      BY <3>1, <3>2 DEF WorkTypeOK
  <2>2. UNCHANGED <<super, build, group, read>>
    BY <1>15 DEF Commit
  <2>3. QED
    BY <2>1, <2>2 DEF SuperTypeOK, GroupTypeOK, ReadTypeOK, Orderly, Subscribed, super, build, group, read
<1>16. ASSUME NEW i \in Instances, NEW s \in Storages, CommitFails(i, s) \/ WorkerExit(i, s)
      PROVE  Lives'
  <2>1. Exit(i, s) /\ s \in Procs /\ UNCHANGED <<super, build, conn, read>>
    BY <1>16 DEF CommitFails, WorkerExit, Procs
  <2>2. GroupTypeOK'
    BY <2>1, ExitType DEF GroupTypeOK, build
  <2>3. WorkTypeOK'
    <3>1. CASE CommitFails(i, s)
      <4>1. box' = box /\ busy' = [busy EXCEPT ![<<i, s>>] = <<>>]
        BY <3>1 DEF CommitFails
      <4>2. stored' = [stored EXCEPT ![<<i, s>>] = @ \o busy[<<i, s>>]] \/ stored' = stored
        BY <3>1 DEF CommitFails
      <4>3. <<i, s>> \in Lanes
        BY DEF Lanes
      <4>4. stored[<<i, s>>] \o busy[<<i, s>>] \in Seq(Nat)
        BY <4>3 DEF WorkTypeOK
      <4>5. stored' \in [Lanes -> Seq(Nat)]
        BY <4>2, <4>3, <4>4 DEF WorkTypeOK
      <4>6. busy' \in [Lanes -> Seq(Nat)]
        BY <4>1, <4>3 DEF WorkTypeOK
      <4>7. QED
        BY <4>1, <4>5, <4>6 DEF WorkTypeOK
    <3>2. CASE WorkerExit(i, s)
      BY <3>2 DEF WorkerExit, WorkTypeOK, work
    <3>3. QED
      BY <1>16, <3>1, <3>2
  <2>4. Subscribed'
    BY <2>1, ExitType DEF Subscribed, build, read
  <2>5. SuperTypeOK' /\ ReadTypeOK' /\ Orderly'
    BY <2>1 DEF SuperTypeOK, ReadTypeOK, Orderly, super, read, build
  <2>6. QED
    BY <2>2, <2>3, <2>4, <2>5
<1>17. CASE UNCHANGED vars
  BY <1>17 DEF vars, SuperTypeOK, GroupTypeOK, ReadTypeOK, WorkTypeOK, Orderly, Subscribed
<1>18. QED
  BY <1>1, <1>2, <1>3, <1>4, <1>5, <1>6, <1>7, <1>8, <1>9, <1>10, <1>11, <1>12, <1>13, <1>14, <1>15,
     <1>16, <1>17 DEF Next

---------------------------------------------------------------------------
(* The rows of a lane *)

\* Rows of storage s that have been buffered: not the row in hand.
Buffered(i, s) == IF s \in todo[i] THEN count[i] - 1 ELSE count[i]

\* q is the numbers that follow a.
Follows(q, a) == \A n \in 1..Len(q) : q[n] = a + n

\* Of d buffered rows the storage has the first, and what is not in it, the
\* channel x or the buffer b is at most a batch of n.
Safe(d, st, x, b, n) ==
  /\ Follows(st, 0) /\ Len(x) <= n /\ Len(b) <= n
  /\ d - Len(st) - Len(x) - Len(b) <= n

\* The d buffered rows are, in order, in the storage, in the batch y being
\* committed, in the channel and in the buffer.
Flow(d, st, y, x, b) ==
  /\ Follows(y, Len(st)) /\ Follows(x, Len(st) + Len(y))
  /\ Follows(b, Len(st) + Len(y) + Len(x))
  /\ d = Len(st) + Len(y) + Len(x) + Len(b)

Lane(i, s) ==
  LET l == <<i, s>> IN
    /\ Safe(Buffered(i, s), stored[l], box[l], buf[l], CommitBuf[s])
    /\ full[l] <=> Len(buf[l]) = CommitBuf[s]
    /\ s \in todo[i] => ~full[l]
    /\ s \in procs[i] => Flow(Buffered(i, s), stored[l], busy[l], box[l], buf[l])
    /\ step[i] \in {"none", "connect"} =>
         /\ count[i] = 0 /\ todo[i] = {} /\ stored[l] = <<>>
         /\ busy[l] = <<>> /\ box[l] = <<>> /\ buf[l] = <<>>

LanesOK == \A i \in Instances, s \in Storages : Lane(i, s)

\* Rows that follow one another, in two parts.
LEMMA FollowsCat ==
  ASSUME NEW q \in Seq(Nat), NEW r \in Seq(Nat), NEW a \in Nat,
         Follows(q, a), Follows(r, a + Len(q))
  PROVE  Follows(q \o r, a)
<1> SUFFICES ASSUME NEW n \in 1..Len(q \o r) PROVE (q \o r)[n] = a + n
  BY DEF Follows
<1>1. Len(q \o r) = Len(q) + Len(r)
  OBVIOUS
<1>2. CASE n <= Len(q)
  BY <1>1, <1>2 DEF Follows
<1>3. CASE n > Len(q)
  <2>1. n - Len(q) \in 1..Len(r)
    BY <1>1, <1>3
  <2>2. (q \o r)[n] = r[n - Len(q)]
    BY <1>1, <1>3
  <2>3. QED
    BY <2>1, <2>2 DEF Follows
<1>4. QED
  BY <1>2, <1>3

\* The next row is appended.
LEMMA FollowsAppend ==
  ASSUME NEW q \in Seq(Nat), NEW a \in Nat, Follows(q, a), NEW c \in Nat, c = a + Len(q) + 1
  PROVE  Follows(Append(q, c), a)
<1> SUFFICES ASSUME NEW n \in 1..(Len(q) + 1) PROVE Append(q, c)[n] = a + n
  BY DEF Follows
<1>1. CASE n = Len(q) + 1
  BY <1>1
<1>2. CASE n \in 1..Len(q)
  BY <1>2 DEF Follows
<1>3. QED
  BY <1>1, <1>2

\* No rows follow anything.
LEMMA FollowsEmpty == ASSUME NEW a PROVE Follows(<<>>, a)
BY DEF Follows

\* A row is put into a buffer that is not full.
LEMMA ServeLane ==
  ASSUME NEW d \in Int, NEW n \in Nat, NEW c \in Nat, c = d + 1,
         NEW st \in Seq(Nat), NEW x \in Seq(Nat), NEW b \in Seq(Nat),
         Safe(d, st, x, b, n), Len(b) # n
  PROVE  /\ Safe(c, st, x, Append(b, c), n)
         /\ \A y \in Seq(Nat) : Flow(d, st, y, x, b) => Flow(c, st, y, x, Append(b, c))
<1>1. Len(Append(b, c)) = Len(b) + 1
  OBVIOUS
<1>2. Safe(c, st, x, Append(b, c), n)
  BY <1>1 DEF Safe
<1>3. ASSUME NEW y \in Seq(Nat), Flow(d, st, y, x, b) PROVE Flow(c, st, y, x, Append(b, c))
  <2>1. Follows(Append(b, c), Len(st) + Len(y) + Len(x))
    BY <1>3, FollowsAppend DEF Flow
  <2>2. QED
    BY <1>1, <1>3, <2>1 DEF Flow
<1>4. QED
  BY <1>2, <1>3

\* A buffer is handed over to a free channel.
LEMMA HandOverLane ==
  ASSUME NEW d \in Int, NEW n \in Nat, NEW st \in Seq(Nat), NEW b \in Seq(Nat),
         Safe(d, st, <<>>, b, n)
  PROVE  /\ Safe(d, st, b, <<>>, n)
         /\ \A y \in Seq(Nat) : Flow(d, st, y, <<>>, b) => Flow(d, st, y, b, <<>>)
BY FollowsEmpty DEF Safe, Flow

\* A worker takes the batch in its channel.
LEMMA TakeLane ==
  ASSUME NEW d \in Int, NEW n \in Nat,
         NEW st \in Seq(Nat), NEW x \in Seq(Nat), NEW b \in Seq(Nat),
         Safe(d, st, x, b, n), Flow(d, st, <<>>, x, b)
  PROVE  Safe(d, st, <<>>, b, n) /\ Flow(d, st, x, <<>>, b)
<1>1. Safe(d, st, <<>>, b, n)
  BY DEF Safe, Flow
<1>2. Flow(d, st, x, <<>>, b)
  BY FollowsEmpty DEF Flow
<1>3. QED
  BY <1>1, <1>2

\* A worker commits its batch.
LEMMA CommitLane ==
  ASSUME NEW d \in Int, NEW n \in Nat,
         NEW st \in Seq(Nat), NEW y \in Seq(Nat), NEW x \in Seq(Nat), NEW b \in Seq(Nat),
         Safe(d, st, x, b, n), Flow(d, st, y, x, b)
  PROVE  Safe(d, st \o y, x, b, n) /\ Flow(d, st \o y, <<>>, x, b)
<1>1. Len(st \o y) = Len(st) + Len(y) /\ st \o y \in Seq(Nat)
  OBVIOUS
<1>2. Follows(st \o y, 0)
  BY FollowsCat DEF Safe, Flow
<1>3. Safe(d, st \o y, x, b, n)
  BY <1>1, <1>2 DEF Safe, Flow
<1>4. Flow(d, st \o y, <<>>, x, b)
  BY <1>1, FollowsEmpty DEF Flow
<1>5. QED
  BY <1>3, <1>4

\* What a safe lane means of the rows read, the one in hand included.
LEMMA SafeLane ==
  ASSUME NEW c \in Nat, NEW d \in Int, NEW n \in Nat,
         NEW st \in Seq(Nat), NEW x \in Seq(Nat), NEW b \in Seq(Nat),
         Safe(d, st, x, b, n), d = c \/ (d = c - 1 /\ Len(b) # n)
  PROVE  (\A k \in 1..Len(st) : st[k] = k) /\ c - Len(st) <= 3 * n
<1>1. ASSUME NEW k \in 1..Len(st) PROVE st[k] = k
  <2>1. st[k] = 0 + k
    BY DEF Safe, Follows
  <2>2. QED
    BY <2>1
<1>2. c - Len(st) <= 3 * n
  BY DEF Safe
<1>3. QED
  BY <1>1, <1>2

\* The step leaves the lane as it is, but for the end of its worker.
Kept(i, s) ==
  LET l == <<i, s>> IN
    /\ count'[i] = count[i] /\ todo'[i] = todo[i] /\ full'[l] = full[l] /\ buf'[l] = buf[l]
    /\ box'[l] = box[l] /\ busy'[l] = busy[l] /\ stored'[l] = stored[l]
    /\ s \in procs'[i] => s \in procs[i]
    /\ step'[i] \in {"none", "connect"} => step[i] \in {"none", "connect"}

\* What a lane promises survives such a step.
LEMMA KeptLane ==
  ASSUME NEW i \in Instances, NEW s \in Storages, Lane(i, s), Kept(i, s)
  PROVE  Lane(i, s)'
BY DEF Lane, Kept, Buffered

\* The lanes start empty.
LEMMA InitLane == Init => LanesOK
<1> SUFFICES ASSUME Init, NEW i \in Instances, NEW s \in Storages PROVE Lane(i, s)
  BY DEF LanesOK
<1> DEFINE l == <<i, s>>
<1>1. /\ count[i] = 0 /\ todo[i] = {} /\ procs[i] = {} /\ full[l] = FALSE
      /\ buf[l] = <<>> /\ box[l] = <<>> /\ busy[l] = <<>> /\ stored[l] = <<>>
  BY DEF Init, Lanes
<1>2. CommitBuf[s] \in Nat \ {0}
  BY CommitBufAssumption DEF CommitBufAssumption
<1>3. Safe(0, <<>>, <<>>, <<>>, CommitBuf[s])
  BY <1>2, FollowsEmpty DEF Safe
<1>4. QED
  BY <1>1, <1>2, <1>3 DEF Lane, Buffered

\* The types of what a lane consists of.
LEMMA LaneTypes ==
  ASSUME Lives, NEW i \in Instances, NEW s \in Storages
  PROVE  /\ <<i, s>> \in Lanes /\ CommitBuf[s] \in Nat \ {0} /\ count[i] \in Nat
         /\ buf[<<i, s>>] \in Seq(Nat) /\ box[<<i, s>>] \in Seq(Nat)
         /\ busy[<<i, s>>] \in Seq(Nat) /\ stored[<<i, s>>] \in Seq(Nat)
         /\ Buffered(i, s) \in Int
<1>1. <<i, s>> \in Lanes
  BY DEF Lanes
<1>2. CommitBuf[s] \in Nat \ {0}
  BY CommitBufAssumption DEF CommitBufAssumption
<1>3. count[i] \in Nat /\ Buffered(i, s) \in Int
  BY DEF Lives, TypeOK, ReadTypeOK, Buffered
<1>4. QED
  BY <1>1, <1>2, <1>3 DEF Lives, TypeOK, ReadTypeOK, WorkTypeOK

\* A step of the supervisor, of newBinance after it has connected, or the end
\* of a function of the group moves no rows.
LEMMA IdleStep ==
  ASSUME Lives, NEW j \in Instances, NEW t \in Storages,
         UNCHANGED <<count, todo, full, buf, work>>,
         procs'[j] \subseteq procs[j],
         step'[j] \in {"none", "connect"} => step[j] \in {"none", "connect"}
  PROVE  Kept(j, t)
BY DEF Kept, work

\* Every step keeps every lane.
LEMMA StepLane ==
  ASSUME Lives, [Next]_vars, NEW j \in Instances, NEW t \in Storages, Lane(j, t)
  PROVE  Lane(j, t)'
<1> DEFINE l == <<j, t>>
<1>0. /\ l \in Lanes /\ CommitBuf[t] \in Nat \ {0} /\ count[j] \in Nat
      /\ buf[l] \in Seq(Nat) /\ box[l] \in Seq(Nat) /\ busy[l] \in Seq(Nat)
      /\ stored[l] \in Seq(Nat) /\ Buffered(j, t) \in Int
  BY LaneTypes
<1>1. ASSUME Start \/ Retry \/ GiveUp \/ GapEnds \/ ReturnDone \/ OtherGivesUp PROVE Kept(j, t)
  <2>1. UNCHANGED <<count, todo, full, buf, work>> /\ procs' = procs
    BY <1>1 DEF Start, Retry, GiveUp, GapEnds, ReturnDone, OtherGivesUp, group, read
  <2>2. CASE Start
    <3>1. inst + 1 \in Instances /\ step[inst + 1] = "none"
      BY <2>2, SpotBoundsAssumption
         DEF Start, Lives, TypeOK, SuperTypeOK, Orderly, Instances, SpotBoundsAssumption
    <3>2. step'[j] \in {"none", "connect"} => step[j] \in {"none", "connect"}
      BY <2>2, <3>1 DEF Start, Lives, TypeOK, GroupTypeOK
    <3>3. QED
      BY <2>1, <3>2, IdleStep
  <2>3. CASE Retry \/ GiveUp \/ GapEnds \/ ReturnDone \/ OtherGivesUp
    <3>1. step' = step
      BY <2>3 DEF Retry, GiveUp, GapEnds, ReturnDone, OtherGivesUp, build
    <3>2. QED
      BY <2>1, <3>1, IdleStep
  <2>4. QED
    BY <1>1, <2>2, <2>3
<1>2. ASSUME NEW i \in Instances, Connect(i) PROVE Lane(j, t)'
  <2>1. UNCHANGED <<count, todo, full, buf, work>> /\ \A k \in Instances : k # i => procs'[k] = procs[k]
    BY <1>2 DEF Connect, read, Lives, TypeOK, GroupTypeOK
  <2>2. step'[j] \in {"none", "connect"} => step[j] \in {"none", "connect"}
    BY <1>2 DEF Connect, Lives, TypeOK, GroupTypeOK
  <2>3. CASE j # i
    BY <2>1, <2>2, <2>3, IdleStep, KeptLane
  <2>4. CASE j = i
    <3>1. /\ step[j] = "connect" /\ step'[j] = "subscribe"
      BY <1>2, <2>4 DEF Connect, Lives, TypeOK, GroupTypeOK
    <3>2. /\ count[j] = 0 /\ todo[j] = {} /\ stored[l] = <<>>
          /\ busy[l] = <<>> /\ box[l] = <<>> /\ buf[l] = <<>>
      BY <3>1 DEF Lane
    <3>3. Flow(0, <<>>, <<>>, <<>>, <<>>)
      BY FollowsEmpty DEF Flow
    <3>4. QED
      BY <2>1, <3>1, <3>2, <3>3 DEF Lane, Buffered, work
  <2>5. QED
    BY <2>3, <2>4
<1>3. ASSUME NEW i \in Instances,
             ConnectFails(i) \/ Subscribe(i) \/ SubscribeFails(i) \/ WaitReturns(i)
      PROVE  Kept(j, t)
  <2>1. UNCHANGED <<count, todo, full, buf, work>> /\ procs' = procs
    BY <1>3 DEF ConnectFails, Subscribe, SubscribeFails, WaitReturns, group, read
  <2>2. step'[j] \in {"none", "connect"} => step[j] \in {"none", "connect"}
    BY <1>3 DEF ConnectFails, Subscribe, SubscribeFails, WaitReturns, Lives, TypeOK, GroupTypeOK
  <2>3. QED
    BY <2>1, <2>2, IdleStep
<1>4. ASSUME NEW i \in Instances, NEW p \in Procs, Exit(i, p), step' = step,
             UNCHANGED <<count, todo, full, buf, work>>
      PROVE  Kept(j, t)
  <2>1. procs'[j] \subseteq procs[j]
    BY <1>4, ExitType DEF Lives, TypeOK
  <2>2. QED
    BY <1>4, <2>1, IdleStep
<1>5. ASSUME NEW i \in Instances, CloseConn(i) \/ LoopEnds(i) \/ ReadFails(i) PROVE Kept(j, t)
  <2>1. PICK p \in Procs : Exit(i, p)
    BY <1>5 DEF CloseConn, LoopEnds, ReadFails, Procs
  <2>2. step' = step /\ UNCHANGED <<count, todo, full, buf, work>>
    BY <1>5 DEF CloseConn, LoopEnds, ReadFails, build, read, rows
  <2>3. QED
    BY <1>4, <2>1, <2>2
<1>6. ASSUME NEW i \in Instances, LoseConn(i) \/ LoopHead(i) PROVE Kept(j, t)
  <2>1. step' = step /\ procs' = procs /\ UNCHANGED <<count, todo, full, buf, work>>
    BY <1>6 DEF LoseConn, LoopHead, build, group, read, rows
  <2>2. QED
    BY <2>1, IdleStep
<1>7. ASSUME NEW i \in Instances, NEW s \in Storages, HandOverDone(i, s) \/ WorkerExit(i, s)
      PROVE  Kept(j, t)
  <2>1. PICK p \in Procs : Exit(i, p)
    BY <1>7 DEF HandOverDone, WorkerExit, Procs
  <2>2. step' = step /\ UNCHANGED <<count, todo, full, buf, work>>
    BY <1>7 DEF HandOverDone, WorkerExit, build, read
  <2>3. QED
    BY <1>4, <2>1, <2>2
<1>8. ASSUME NEW i \in Instances, Read(i) PROVE Lane(j, t)'
  <2>1. step' = step /\ procs' = procs /\ UNCHANGED <<full, buf, work>>
    BY <1>8 DEF Read, build, group
  <2>2. CASE j # i
    <3>1. count'[j] = count[j] /\ todo'[j] = todo[j]
      BY <1>8, <2>2 DEF Read, Lives, TypeOK, ReadTypeOK
    <3>2. QED
      BY <2>1, <3>1, KeptLane DEF Kept, work
  <2>3. CASE j = i
    <3>1. todo[j] = {} /\ ~full[l]
      BY <1>8, <2>3 DEF Read, Lives, TypeOK, ReadTypeOK
    <3>2. count'[j] = count[j] + 1 /\ todo'[j] = Storages
      BY <1>8, <2>3 DEF Read, Lives, TypeOK, ReadTypeOK
    <3>3. Buffered(j, t) = count[j] /\ Buffered(j, t)' = count[j]
      BY <1>0, <3>1, <3>2 DEF Buffered
    <3>4. step[j] \notin {"none", "connect"}
      BY <1>8, <2>3 DEF Read, Lives, Subscribed
    <3>5. QED
      BY <2>1, <3>1, <3>3, <3>4 DEF Lane, work
  <2>4. QED
    BY <2>2, <2>3
<1>9. ASSUME NEW i \in Instances, NEW s \in Storages, Serve(i, s) PROVE Lane(j, t)'
  <2>1. step' = step /\ procs' = procs /\ count' = count /\ UNCHANGED work
    BY <1>9 DEF Serve, build, group
  <2>2. CASE <<i, s>> # l
    <3>1. /\ full'[l] = full[l] /\ buf'[l] = buf[l]
      BY <1>9, <1>0, <2>2 DEF Serve, Buffer, Lives, TypeOK, ReadTypeOK
    <3>2. t \in todo'[j] <=> t \in todo[j]
      BY <1>9, <2>2 DEF Serve, Lives, TypeOK, ReadTypeOK
    <3>3. todo[j] = {} => todo'[j] = {}
      BY <1>9 DEF Serve, Lives, TypeOK, ReadTypeOK
    <3>4. QED
      BY <2>1, <3>1, <3>2, <3>3 DEF Lane, Buffered, work
  <2>3. CASE i = j /\ s = t
    <3>1. /\ t \in todo[j] /\ t \notin todo'[j] /\ ~full[l]
      BY <1>9, <2>3 DEF Serve, Lives, TypeOK, ReadTypeOK
    <3>2. buf'[l] = Append(buf[l], count[j]) /\ (full'[l] = (Len(buf[l]) + 1 = CommitBuf[t]))
      BY <1>9, <1>0, <2>3 DEF Serve, Buffer, Lives, TypeOK, ReadTypeOK
    <3>3. count[j] = Buffered(j, t) + 1 /\ Buffered(j, t)' = count[j]
      BY <1>0, <2>1, <3>1 DEF Buffered
    <3>4. Safe(Buffered(j, t), stored[l], box[l], buf[l], CommitBuf[t]) /\ Len(buf[l]) # CommitBuf[t]
      BY <3>1 DEF Lane
    <3>5. /\ Safe(count[j], stored[l], box[l], Append(buf[l], count[j]), CommitBuf[t])
          /\ Flow(Buffered(j, t), stored[l], busy[l], box[l], buf[l])
               => Flow(count[j], stored[l], busy[l], box[l], Append(buf[l], count[j]))
      BY <1>0, <3>3, <3>4, ServeLane
    <3>6. Len(buf'[l]) = Len(buf[l]) + 1
      BY <1>0, <3>2
    <3>7. step[j] \notin {"none", "connect"}
      BY <1>9, <2>3 DEF Serve, Lives, Subscribed
    <3>8. full'[l] <=> Len(buf'[l]) = CommitBuf[t]
      BY <3>2, <3>6
    <3>9. t \in procs'[j] => Flow(Buffered(j, t)', stored'[l], busy'[l], box'[l], buf'[l])
      BY <2>1, <3>2, <3>3, <3>5 DEF Lane, work
    <3>10. QED
      BY <2>1, <3>1, <3>2, <3>3, <3>5, <3>7, <3>8, <3>9 DEF Lane, work
  <2>4. QED
    BY <2>2, <2>3
<1>10. ASSUME NEW i \in Instances, NEW s \in Storages, HandOver(i, s) PROVE Lane(j, t)'
  <2>1. step' = step /\ procs' = procs /\ UNCHANGED <<count, todo, busy, stored>>
    BY <1>10 DEF HandOver, build, group
  <2>2. CASE <<i, s>> # l
    <3>1. full'[l] = full[l] /\ buf'[l] = buf[l] /\ box'[l] = box[l]
      BY <1>10, <1>0, <2>2 DEF HandOver, Lives, TypeOK, ReadTypeOK, WorkTypeOK
    <3>2. QED
      BY <2>1, <3>1, KeptLane DEF Kept
  <2>3. CASE i = j /\ s = t
    <3>1. /\ box[l] = <<>> /\ box'[l] = buf[l] /\ buf'[l] = <<>> /\ full'[l] = FALSE
      BY <1>10, <1>0, <2>3 DEF HandOver, Lives, TypeOK, ReadTypeOK, WorkTypeOK
    <3>2. Safe(Buffered(j, t), stored[l], <<>>, buf[l], CommitBuf[t])
      BY <3>1 DEF Lane
    <3>3. /\ Safe(Buffered(j, t), stored[l], buf[l], <<>>, CommitBuf[t])
          /\ Flow(Buffered(j, t), stored[l], busy[l], <<>>, buf[l])
               => Flow(Buffered(j, t), stored[l], busy[l], buf[l], <<>>)
      BY <1>0, <3>2, HandOverLane
    <3>4. Buffered(j, t)' = Buffered(j, t)
      BY <2>1 DEF Buffered
    <3>5. step[j] \notin {"none", "connect"}
      BY <1>10, <2>3 DEF HandOver, Lives, Subscribed
    <3>6. Len(buf'[l]) # CommitBuf[t]
      BY <1>0, <3>1
    <3>7. t \in procs'[j] => Flow(Buffered(j, t)', stored'[l], busy'[l], box'[l], buf'[l])
      BY <2>1, <3>1, <3>3, <3>4 DEF Lane
    <3>8. QED
      BY <2>1, <3>1, <3>3, <3>4, <3>5, <3>6, <3>7 DEF Lane
  <2>4. QED
    BY <2>2, <2>3
<1>11. ASSUME NEW i \in Instances, NEW s \in Storages,
              Take(i, s) \/ Commit(i, s) \/ CommitFails(i, s), <<i, s>> # l
       PROVE  Kept(j, t)
  <2>1. step' = step /\ UNCHANGED <<count, todo, full, buf>>
    BY <1>11 DEF Take, Commit, CommitFails, build, read
  <2>2. box'[l] = box[l] /\ busy'[l] = busy[l]
    BY <1>11, <1>0 DEF Take, Commit, CommitFails, Lives, TypeOK, WorkTypeOK
  <2>3. stored'[l] = stored[l]
    BY <1>11, <1>0 DEF Take, Commit, CommitFails, Lives, TypeOK, WorkTypeOK
  <2>4. procs'[j] \subseteq procs[j]
    <3>1. CASE Take(i, s) \/ Commit(i, s)
      BY <3>1 DEF Take, Commit, group
    <3>2. CASE CommitFails(i, s)
      BY <3>2, ExitType DEF CommitFails, Procs, Lives, TypeOK
    <3>3. QED
      BY <1>11, <3>1, <3>2
  <2>5. QED
    BY <2>1, <2>2, <2>3, <2>4 DEF Kept
<1>12. ASSUME Take(j, t) PROVE Lane(j, t)'
  <2>1. step' = step /\ procs' = procs /\ UNCHANGED <<count, todo, full, buf, stored>>
    BY <1>12 DEF Take, build, group, read
  <2>2. t \in procs[j] /\ busy[l] = <<>> /\ busy'[l] = box[l] /\ box'[l] = <<>>
    BY <1>12, <1>0 DEF Take, Lives, TypeOK, WorkTypeOK
  <2>3. Safe(Buffered(j, t), stored[l], box[l], buf[l], CommitBuf[t])
        /\ Flow(Buffered(j, t), stored[l], <<>>, box[l], buf[l])
    BY <2>2 DEF Lane
  <2>4. Safe(Buffered(j, t), stored[l], <<>>, buf[l], CommitBuf[t])
        /\ Flow(Buffered(j, t), stored[l], box[l], <<>>, buf[l])
    BY <1>0, <2>3, TakeLane
  <2>5. Buffered(j, t)' = Buffered(j, t)
    BY <2>1 DEF Buffered
  <2>6. step[j] \notin {"none", "connect"}
    BY <2>2 DEF Lives, Subscribed
  <2>7. QED
    BY <2>1, <2>2, <2>4, <2>5, <2>6 DEF Lane
<1>13. ASSUME Commit(j, t) \/ CommitFails(j, t) PROVE Lane(j, t)'
  <2>1. step' = step /\ UNCHANGED <<count, todo, full, buf, box>>
    BY <1>13 DEF Commit, CommitFails, build, read
  <2>2. t \in procs[j] /\ busy'[l] = <<>>
    BY <1>13, <1>0 DEF Commit, CommitFails, Lives, TypeOK, WorkTypeOK
  <2>3. Safe(Buffered(j, t), stored[l], box[l], buf[l], CommitBuf[t])
        /\ Flow(Buffered(j, t), stored[l], busy[l], box[l], buf[l])
    BY <2>2 DEF Lane
  <2>4. Buffered(j, t)' = Buffered(j, t)
    BY <2>1 DEF Buffered
  <2>5. step[j] \notin {"none", "connect"}
    BY <2>2 DEF Lives, Subscribed
  <2>6. Safe(Buffered(j, t), stored[l] \o busy[l], box[l], buf[l], CommitBuf[t])
        /\ Flow(Buffered(j, t), stored[l] \o busy[l], <<>>, box[l], buf[l])
    BY <1>0, <2>3, CommitLane
  <2>7. stored'[l] = stored[l] \o busy[l] \/ (stored'[l] = stored[l] /\ CommitFails(j, t))
    BY <1>13, <1>0 DEF Commit, CommitFails, Lives, TypeOK, WorkTypeOK
  <2>8. CommitFails(j, t) => t \notin procs'[j]
    BY DEF CommitFails, Exit, Lives, TypeOK, GroupTypeOK
  <2>9. Safe(Buffered(j, t)', stored'[l], box'[l], buf'[l], CommitBuf[t])
    BY <2>1, <2>3, <2>4, <2>6, <2>7
  <2>10. t \in procs'[j] => Flow(Buffered(j, t)', stored'[l], busy'[l], box'[l], buf'[l])
    BY <2>1, <2>2, <2>4, <2>6, <2>7, <2>8
  <2>11. QED
    BY <2>1, <2>5, <2>9, <2>10 DEF Lane
<1>14. CASE UNCHANGED vars
  <2>1. Kept(j, t)
    BY <1>14 DEF vars, Kept
  <2>2. QED
    BY <2>1, KeptLane
<1>15. QED
  BY <1>1, <1>2, <1>3, <1>5, <1>6, <1>7, <1>8, <1>9, <1>10, <1>11, <1>12, <1>13, <1>14, KeptLane DEF Next

---------------------------------------------------------------------------
(* The theorems *)

\* Every variable keeps its type: StartBinance stays within retry.Number,
\* newBinance within its subscriptions, and a function runs of a connector
\* that has connected only.
THEOREM TypeCorrect == Spec => []TypeOK
<1>1. Lives => TypeOK
  BY DEF Lives
<1>2. QED
  BY InitLives, StepLives, <1>1, PTL DEF Spec

\* A connector whose subscriptions were all sent has been waited for, with
\* all its functions, when the next one is built.
THEOREM WaitedForIsGoneHolds == Spec => []WaitedForIsGone
<1>1. Lives => WaitedForIsGone
  <2> SUFFICES ASSUME Lives, NEW i \in Instances, i < inst, procs[i] # {} PROVE subs[i] < Subs
    BY DEF WaitedForIsGone
  <2>1. step[i] = "returned"
    BY DEF Lives, Orderly
  <2>2. subs[i] # Subs
    BY <2>1 DEF Lives, Subscribed
  <2>3. QED
    BY <2>2, SubsAssumption DEF SubsAssumption, Lives, TypeOK, GroupTypeOK
<1>2. QED
  BY InitLives, StepLives, <1>1, PTL DEF Spec

\* A storage has the first rows a connector has read, in order, and at most
\* three batches of them are lost when the connector ends, for any batch
\* lengths: readWs and the commit workers repeat and skip nothing.
THEOREM ThreeBatchesLostHolds == Spec => []ThreeBatchesLost
<1>1. Init => Lives /\ LanesOK
  BY InitLives, InitLane
<1>2. Lives /\ LanesOK /\ [Next]_vars => (Lives /\ LanesOK)'
  BY StepLives, StepLane DEF LanesOK
<1>3. Lives /\ LanesOK => ThreeBatchesLost
  <2> SUFFICES ASSUME Lives, LanesOK, NEW i \in Instances, NEW s \in Storages
               PROVE  /\ \A n \in 1..Len(stored[<<i, s>>]) : stored[<<i, s>>][n] = n
                      /\ count[i] - Len(stored[<<i, s>>]) <= 3 * CommitBuf[s]
    BY DEF ThreeBatchesLost
  <2> DEFINE l == <<i, s>>
  <2>1. Lane(i, s)
    BY DEF LanesOK
  <2>2. /\ CommitBuf[s] \in Nat /\ count[i] \in Nat
        /\ buf[l] \in Seq(Nat) /\ box[l] \in Seq(Nat) /\ stored[l] \in Seq(Nat)
        /\ Buffered(i, s) \in Int
    BY LaneTypes
  <2>3. Safe(Buffered(i, s), stored[l], box[l], buf[l], CommitBuf[s])
    BY <2>1 DEF Lane
  <2>4. Buffered(i, s) = count[i] \/ (Buffered(i, s) = count[i] - 1 /\ Len(buf[l]) # CommitBuf[s])
    BY <2>1 DEF Lane, Buffered
  <2>5. QED
    BY <2>2, <2>3, <2>4, SafeLane
<1>4. QED
  BY <1>1, <1>2, <1>3, PTL DEF Spec
=============================================================================
