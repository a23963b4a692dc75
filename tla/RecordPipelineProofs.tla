----------------------- MODULE RecordPipelineProofs -----------------------
(***************************************************************************)
(* For every routing, batch size, channel capacity and number of rows and  *)
(* connectors:                                                             *)
(*                                                                         *)
(*   1. the state keeps its shape, and no buffer outgrows its size;        *)
(*   2. every storage receives the rows of each goroutine in the order     *)
(*      they were stamped;                                                 *)
(*   3. the pipeline implements RowLog;                                    *)
(*   4. a connector that lives loses nothing.                              *)
(*                                                                         *)
(* For the order, the rows of the pipeline seen from one lane form a chain *)
(* of six stages: what is stored, in the worker, in the one-place channel, *)
(* in the batch, in the batcher's hand and in the channel to the batcher.  *)
(* The inductive invariant says that every stage is in order, that each    *)
(* one precedes the ones behind it, and that a row still held by its       *)
(* producer is younger than all of them.  Every step moves rows from one   *)
(* stage to the one ahead, drops a stage, or brings in the youngest row at *)
(* the end.                                                                *)
(*                                                                         *)
(* For the refinement those stages, the stored one left out, are one       *)
(* queue: what moves between them leaves it as it is, a row enters it at   *)
(* the end, a commit takes its head, and what fails drops its end.         *)
(***************************************************************************)
EXTENDS RecordPipelineLog, WellFoundedInduction, TLAPS

USE DEF Kinds, Storages, Producers

LEMMA LaneType == \A l \in Lanes : l[1] \in Kinds /\ l[2] \in Storages
                                   /\ l = <<l[1], l[2]>>
  BY DEF Lanes

LEMMA RowIsSomething == \A r \in Row : r # NoRow
  BY BoundsAssumption DEF BoundsAssumption, Row, NoRow

LEMMA InitTypeOK == Init => TypeOK
<1> SUFFICES ASSUME Init PROVE TypeOK
  OBVIOUS
<1>1. ConnTypeOK
  <2>1. 1 \in 1..MaxSessions
    BY BoundsAssumption DEF BoundsAssumption
  <2>2. QED
    BY <2>1 DEF Init, ConnTypeOK
<1>2. ProdTypeOK
  BY BoundsAssumption DEF BoundsAssumption, Init, ProdTypeOK
<1>3. FlowTypeOK
  BY DEF Init, FlowTypeOK
<1>4. StoreTypeOK
  BY DEF Init, StoreTypeOK
<1>5. QED
  BY <1>1, <1>2, <1>3, <1>4 DEF TypeOK

LEMMA StepTypeOK == TypeOK /\ [Next]_vars => TypeOK'
<1> SUFFICES ASSUME TypeOK, [Next]_vars PROVE TypeOK'
  OBVIOUS
<1> USE DEF TypeOK, conn, prod, flow
<1>1. ASSUME NEW p \in Producers, Stamp(p) PROVE TypeOK'
  <2>1. ProdTypeOK'
    <3>0. PICK k \in KindsOf(p) : \E to \in Routes[k] \ {{}} :
            held' = [held EXCEPT ![p] = [seq |-> seq + 1, src |-> p, kind |-> k, to |-> to]]
      BY <1>1 DEF Stamp
    <3>1. PICK to \in Routes[k] \ {{}} :
            held' = [held EXCEPT ![p] = [seq |-> seq + 1, src |-> p, kind |-> k, to |-> to]]
      BY <3>0
    <3>2. k \in Kinds /\ to \in SUBSET Storages
      BY RoutesAssumption DEF RoutesAssumption, KindsOf
    <3>3. seq + 1 \in 1..MaxSeq
      BY <1>1, BoundsAssumption DEF Stamp, ProdTypeOK, BoundsAssumption
    <3>4. [seq |-> seq + 1, src |-> p, kind |-> k, to |-> to] \in Row
      BY <3>2, <3>3 DEF Row
    <3>5. QED
      BY <1>1, <3>1, <3>3, <3>4, RowIsSomething DEF Stamp, ProdTypeOK
  <2>2. UNCHANGED <<conn, out, flow, box, busy, stored>>
    BY <1>1 DEF Stamp
  <2>3. QED
    BY <2>1, <2>2 DEF ConnTypeOK, FlowTypeOK, StoreTypeOK
<1>2. ASSUME NEW p \in Producers, Send(p) PROVE TypeOK'
  <2>1. held[p] \in Row
    BY <1>2 DEF Send, ProdTypeOK
  <2>2. ConnTypeOK'
    BY <1>2 DEF Send, LoopHead, ConnTypeOK
  <2>3. ProdTypeOK'
    BY <1>2 DEF Send, LoopHead, ProdTypeOK
  <2>4. FlowTypeOK'
    <3>1. held[p].kind \in Kinds /\ Append(out[held[p].kind], held[p]) \in Seq(Row)
      BY <2>1 DEF FlowTypeOK, Row
    <3>2. QED
      BY <1>2, <3>1 DEF Send, FlowTypeOK
  <2>5. StoreTypeOK'
    BY <1>2 DEF Send, StoreTypeOK
  <2>6. QED
    BY <2>2, <2>3, <2>4, <2>5
<1>3. ASSUME NEW p \in Producers, EndFrame(p) PROVE TypeOK'
  <2>1. ConnTypeOK'
    BY <1>3 DEF EndFrame, LoopHead, ConnTypeOK
  <2>2. ProdTypeOK'
    BY <1>3 DEF EndFrame, LoopHead, ProdTypeOK
  <2>3. FlowTypeOK' /\ StoreTypeOK'
    BY <1>3 DEF EndFrame, FlowTypeOK, StoreTypeOK
  <2>4. QED
    BY <2>1, <2>2, <2>3
<1>4. ASSUME NEW p \in Producers, ProducerExit(p) PROVE TypeOK'
  <2>1. ConnTypeOK'
    BY <1>4 DEF ProducerExit, ConnTypeOK
  <2>2. ProdTypeOK'
    BY <1>4 DEF ProducerExit, ProdTypeOK
  <2>3. FlowTypeOK' /\ StoreTypeOK'
    BY <1>4 DEF ProducerExit, FlowTypeOK, StoreTypeOK
  <2>4. QED
    BY <2>1, <2>2, <2>3
<1>5. ASSUME NEW k \in Kinds, Receive(k) PROVE TypeOK'
  <2>1. Head(out[k]) \in Row /\ Tail(out[k]) \in Seq(Row)
    BY <1>5 DEF Receive, FlowTypeOK
  <2>2. FlowTypeOK'
    BY <1>5, <2>1 DEF Receive, FlowTypeOK
  <2>3. QED
    BY <1>5, <2>2 DEF Receive, ConnTypeOK, ProdTypeOK, StoreTypeOK
<1>6. ASSUME NEW k \in Kinds, TimerFires(k) PROVE TypeOK'
  <2>1. FlowTypeOK'
    BY <1>6 DEF TimerFires, FlowTypeOK
  <2>2. QED
    BY <1>6, <2>1 DEF TimerFires, ConnTypeOK, ProdTypeOK, StoreTypeOK
<1>7. ASSUME NEW k \in Kinds, Serve(k) PROVE TypeOK'
  <2> DEFINE l == <<k, at[k]>>
             b == IF item[k] = NoRow THEN batch[l] ELSE Append(batch[l], item[k])
  <2>1. l \in Lanes => b \in Seq(Row)
    BY DEF FlowTypeOK
  <2>2. batch' \in [Lanes -> Seq(Row)] /\ box' \in [Lanes -> Seq(Row)]
    BY <1>7, <2>1 DEF Serve, Flush, FlowTypeOK, StoreTypeOK
  <2>3. at' \in [Kinds -> Storages \cup {"select"}] /\ item' \in [Kinds -> Row \cup {NoRow}]
    BY <1>7 DEF Serve, After, FlowTypeOK
  <2>4. QED
    BY <1>7, <2>2, <2>3 DEF Serve, ConnTypeOK, ProdTypeOK, FlowTypeOK, StoreTypeOK
<1>8. ASSUME NEW k \in Kinds, BatcherExit(k) PROVE TypeOK'
  <2>1. ConnTypeOK'
    BY <1>8 DEF BatcherExit, ConnTypeOK
  <2>2. QED
    BY <1>8, <2>1 DEF BatcherExit, ProdTypeOK, FlowTypeOK, StoreTypeOK
<1>9. ASSUME NEW l \in Lanes, Take(l) PROVE TypeOK'
  <2>1. StoreTypeOK'
    BY <1>9 DEF Take, StoreTypeOK
  <2>2. QED
    BY <1>9, <2>1 DEF Take, ConnTypeOK, ProdTypeOK, FlowTypeOK
<1>10. ASSUME NEW l \in Lanes, Commit(l) PROVE TypeOK'
  <2>1. StoreTypeOK'
    BY <1>10 DEF Commit, StoreTypeOK
  <2>2. QED
    BY <1>10, <2>1 DEF Commit, ConnTypeOK, ProdTypeOK, FlowTypeOK
<1>11. ASSUME NEW l \in Lanes, CommitFails(l) PROVE TypeOK'
  <2>1. StoreTypeOK'
    <3>1. stored[l] \o busy[l] \in Seq(Row)
      BY DEF StoreTypeOK
    <3>2. stored' \in [Lanes -> Seq(Row)]
      <4>1. stored' = stored \/ stored' = [stored EXCEPT ![l] = @ \o busy[l]]
        BY <1>11 DEF CommitFails
      <4>2. CASE stored' = stored
        BY <4>2 DEF StoreTypeOK
      <4>3. CASE stored' = [stored EXCEPT ![l] = @ \o busy[l]]
        BY <4>3, <3>1 DEF StoreTypeOK
      <4>4. QED
        BY <4>1, <4>2, <4>3
    <3>3. busy' = [busy EXCEPT ![l] = <<>>] /\ UNCHANGED box
      BY <1>11 DEF CommitFails
    <3>4. QED
      BY <3>2, <3>3 DEF StoreTypeOK
  <2>2. ConnTypeOK'
    BY <1>11 DEF CommitFails, ConnTypeOK
  <2>3. QED
    BY <1>11, <2>1, <2>2 DEF CommitFails, ProdTypeOK, FlowTypeOK
<1>12. ASSUME NEW l \in Lanes, WorkerExit(l) PROVE TypeOK'
  <2>1. ConnTypeOK'
    BY <1>12 DEF WorkerExit, ConnTypeOK
  <2>2. QED
    BY <1>12, <2>1 DEF WorkerExit, ProdTypeOK, FlowTypeOK, StoreTypeOK
<1>13. CASE ReadFails
  <2>1. ConnTypeOK'
    BY <1>13 DEF ReadFails, ConnTypeOK
  <2>2. QED
    BY <1>13, <2>1 DEF ReadFails, ProdTypeOK, FlowTypeOK, StoreTypeOK
<1>14. CASE GroupCancelled
  <2>1. ConnTypeOK'
    BY <1>14 DEF GroupCancelled, ConnTypeOK
  <2>2. QED
    BY <1>14, <2>1 DEF GroupCancelled, ProdTypeOK, FlowTypeOK, StoreTypeOK
<1>15. CASE CloseConn
  <2>1. ConnTypeOK'
    BY <1>15 DEF CloseConn, ConnTypeOK
  <2>2. QED
    BY <1>15, <2>1 DEF CloseConn, ProdTypeOK, FlowTypeOK, StoreTypeOK
<1>16. CASE Reconnect
  <2>1. session' \in 1..MaxSessions
    BY <1>16, BoundsAssumption DEF Reconnect, ConnTypeOK, BoundsAssumption
  <2>2. ConnTypeOK'
    BY <1>16, <2>1 DEF Reconnect, ConnTypeOK
  <2>3. ProdTypeOK'
    BY <1>16 DEF Reconnect, ProdTypeOK
  <2>4. FlowTypeOK' /\ StoreTypeOK'
    BY <1>16 DEF Reconnect, FlowTypeOK, StoreTypeOK
  <2>5. QED
    BY <2>2, <2>3, <2>4
<1>17. CASE UNCHANGED vars
  BY <1>17 DEF vars, ConnTypeOK, ProdTypeOK, FlowTypeOK, StoreTypeOK
<1>18. QED
  BY <1>1, <1>2, <1>3, <1>4, <1>5, <1>6, <1>7, <1>8, <1>9, <1>10, <1>11, <1>12,
     <1>13, <1>14, <1>15, <1>16, <1>17 DEF Next, GiveUp

\* The state keeps its shape in every behaviour of the pipeline.
THEOREM TypeCorrect == Spec => []TypeOK
  BY InitTypeOK, StepTypeOK, PTL DEF Spec

---------------------------------------------------------------------------
(* The bounds of the buffers *)

LEMMA StepBuffersBounded == TypeOK /\ BuffersBounded /\ [Next]_vars => BuffersBounded'
<1> SUFFICES ASSUME TypeOK, BuffersBounded, [Next]_vars PROVE BuffersBounded'
  OBVIOUS
<1> USE DEF conn, prod, flow
<1>t. /\ \A l \in Lanes : /\ batch[l] \in Seq(Row) /\ box[l] \in Seq(Row)
                          /\ busy[l] \in Seq(Row) /\ BufSize[l] \in Nat \ {0}
      /\ \A k \in Kinds : out[k] \in Seq(Row)
  BY BufSizeAssumption DEF BufSizeAssumption, TypeOK, FlowTypeOK, StoreTypeOK
<1>1. ASSUME NEW p \in Producers, Send(p) PROVE BuffersBounded'
  <2> DEFINE k == held[p].kind
  <2>1. k \in Kinds /\ Len(out[k]) < OutCap /\ out' = [out EXCEPT ![k] = Append(@, held[p])]
    BY <1>1 DEF Send, TypeOK, ProdTypeOK, Row
  <2>2. Len(Append(out[k], held[p])) = Len(out[k]) + 1
    BY <2>1, <1>t
  <2>3. \A c \in Kinds : Len(out'[c]) <= OutCap
    BY <2>1, <2>2, <1>t, OutCapAssumption DEF OutCapAssumption, BuffersBounded, TypeOK, FlowTypeOK
  <2>4. UNCHANGED <<batch, box, busy>>
    BY <1>1 DEF Send
  <2>5. QED
    BY <2>3, <2>4 DEF BuffersBounded
<1>2. ASSUME NEW k \in Kinds, Receive(k) PROVE BuffersBounded'
  <2>1. out[k] # <<>> /\ out' = [out EXCEPT ![k] = Tail(@)] /\ UNCHANGED <<batch, box, busy>>
    BY <1>2 DEF Receive
  <2>2. Len(Tail(out[k])) <= Len(out[k])
    BY <2>1, <1>t
  <2>3. \A c \in Kinds : Len(out'[c]) <= OutCap
    BY <2>1, <2>2, <1>t, OutCapAssumption DEF OutCapAssumption, BuffersBounded, TypeOK, FlowTypeOK
  <2>4. QED
    BY <2>1, <2>3 DEF BuffersBounded
<1>3. ASSUME NEW k \in Kinds, Serve(k) PROVE BuffersBounded'
  <2> DEFINE l == <<k, at[k]>>
             b == IF item[k] = NoRow THEN batch[l] ELSE Append(batch[l], item[k])
  <2>0. UNCHANGED <<out, busy>>
    BY <1>3 DEF Serve
  <2>1. CASE UNCHANGED <<batch, box>>
    BY <2>0, <2>1 DEF BuffersBounded
  <2>2. CASE l \in Lanes /\ ~UNCHANGED <<batch, box>>
    <3>0. b \in Seq(Row)
      BY <2>2, <1>t DEF TypeOK, FlowTypeOK
    <3>1. Len(b) <= BufSize[l] /\ (item[k] = NoRow => Len(b) < BufSize[l])
      BY <2>2, <1>t DEF BuffersBounded
    <3> HIDE DEF b, l
    <3>2. CASE Flush(l, b)
      <4>1. batch' = [batch EXCEPT ![l] = <<>>] /\ box' = [box EXCEPT ![l] = b]
        BY <3>2 DEF Flush
      <4>2. ASSUME NEW m \in Lanes
            PROVE  Len(batch'[m]) < BufSize[m] /\ Len(box'[m]) <= BufSize[m]
        <5>1. CASE m = l
          <6>1. batch'[m] = <<>> /\ box'[m] = b
            BY <4>1, <5>1, <2>2 DEF TypeOK, FlowTypeOK, StoreTypeOK
          <6>2. QED
            BY <6>1, <5>1, <3>1, <1>t
        <5>2. CASE m # l
          <6>1. batch'[m] = batch[m] /\ box'[m] = box[m]
            BY <4>1, <5>2 DEF TypeOK, FlowTypeOK, StoreTypeOK
          <6>2. QED
            BY <6>1 DEF BuffersBounded
        <5>3. QED
          BY <5>1, <5>2
      <4>3. QED
        BY <2>0, <4>2 DEF BuffersBounded
    <3>3. CASE /\ ~(b # <<>> /\ (item[k] = NoRow \/ Len(b) >= BufSize[l]))
               /\ batch' = [batch EXCEPT ![l] = b] /\ UNCHANGED box
      <4>1. Len(b) < BufSize[l]
        <5>1. BufSize[l] \in Nat \ {0} /\ Len(b) \in Nat
          BY <1>t, <2>2, <3>0
        <5>2. CASE b = <<>>
          BY <5>1, <5>2
        <5>3. CASE ~(Len(b) >= BufSize[l])
          BY <5>1, <5>3
        <5>4. CASE item[k] = NoRow
          BY <5>4, <3>1
        <5>5. QED
          BY <3>3, <5>2, <5>3, <5>4
      <4>2. \A m \in Lanes : Len(batch'[m]) < BufSize[m]
        BY <4>1, <3>3, <1>t, <2>2 DEF BuffersBounded, TypeOK, FlowTypeOK
      <4>3. QED
        BY <2>0, <3>3, <4>2 DEF BuffersBounded
    <3>4. QED
      BY <1>3, <2>2, <3>2, <3>3 DEF Serve, b, l
  <2>3. QED
    BY <1>3, <2>1, <2>2 DEF Serve
<1>4. ASSUME NEW l \in Lanes, Take(l) PROVE BuffersBounded'
  <2>1. /\ busy' = [busy EXCEPT ![l] = box[l]] /\ box' = [box EXCEPT ![l] = <<>>]
        /\ UNCHANGED <<batch, out>>
    BY <1>4 DEF Take
  <2>2. \A m \in Lanes : Len(busy'[m]) <= BufSize[m] /\ Len(box'[m]) <= BufSize[m]
    BY <2>1, <1>t DEF BuffersBounded, TypeOK, StoreTypeOK
  <2>3. QED
    BY <2>1, <2>2 DEF BuffersBounded
<1>5. ASSUME NEW l \in Lanes, Commit(l) \/ CommitFails(l) PROVE BuffersBounded'
  <2>1. busy' = [busy EXCEPT ![l] = <<>>] /\ UNCHANGED <<batch, box, out>>
    BY <1>5 DEF Commit, CommitFails
  <2>2. \A m \in Lanes : Len(busy'[m]) <= BufSize[m]
    BY <2>1, <1>t DEF BuffersBounded, TypeOK, StoreTypeOK
  <2>3. QED
    BY <2>1, <2>2 DEF BuffersBounded
<1>6. CASE Reconnect
  <2>1. /\ \A k \in Kinds : out'[k] = <<>>
        /\ \A l \in Lanes : batch'[l] = <<>> /\ box'[l] = <<>> /\ busy'[l] = <<>>
    BY <1>6 DEF Reconnect
  <2>2. QED
    BY <2>1, <1>t, OutCapAssumption DEF OutCapAssumption, BuffersBounded
<1>7. CASE UNCHANGED <<batch, box, busy, out>>
  BY <1>7 DEF BuffersBounded
<1>8. ASSUME NEW p \in Producers, Stamp(p) \/ EndFrame(p) \/ ProducerExit(p)
      PROVE UNCHANGED <<batch, box, busy, out>>
  BY <1>8 DEF Stamp, EndFrame, ProducerExit
<1>9. ASSUME NEW k \in Kinds, TimerFires(k) \/ BatcherExit(k)
      PROVE UNCHANGED <<batch, box, busy, out>>
  BY <1>9 DEF TimerFires, BatcherExit
<1>10. ASSUME NEW l \in Lanes, WorkerExit(l) PROVE UNCHANGED <<batch, box, busy, out>>
  BY <1>10 DEF WorkerExit
<1>11. ReadFails \/ GroupCancelled \/ CloseConn \/ GiveUp \/ UNCHANGED vars
         => UNCHANGED <<batch, box, busy, out>>
  BY DEF ReadFails, GroupCancelled, CloseConn, GiveUp, vars
<1>12. QED
  BY <1>1, <1>2, <1>3, <1>4, <1>5, <1>6, <1>7, <1>8, <1>9, <1>10, <1>11 DEF Next

\* No batch, hand-over box or channel ever outgrows its configured size.
THEOREM BuffersAreBounded == Spec => []BuffersBounded
<1>1. Init => BuffersBounded
  <2>1. \A l \in Lanes : BufSize[l] \in Nat \ {0}
    BY BufSizeAssumption DEF BufSizeAssumption
  <2>2. QED
    BY <2>1, OutCapAssumption DEF OutCapAssumption, Init, BuffersBounded
<1>2. QED
  BY <1>1, TypeCorrect, StepBuffersBounded, PTL DEF Spec

---------------------------------------------------------------------------
(* The order of what is stored *)

\* a's rows of one source rise; a's rows are older than b's of that source.
Rising(a) == \A i, j \in 1..Len(a) : i < j /\ a[i].src = a[j].src => a[i].seq < a[j].seq
Before(a, b) == \A i \in 1..Len(a), j \in 1..Len(b) :
                  a[i].src = b[j].src => a[i].seq < b[j].seq

LEMMA NothingRises == Rising(<<>>) /\ \A a \in Seq(Row) : Before(<<>>, a) /\ Before(a, <<>>)
  BY DEF Rising, Before

LEMMA CatRises == ASSUME NEW a \in Seq(Row), NEW b \in Seq(Row),
                         Rising(a), Rising(b), Before(a, b)
                  PROVE  Rising(a \o b)
<1> SUFFICES ASSUME NEW i \in 1..Len(a \o b), NEW j \in 1..Len(a \o b), i < j,
                    (a \o b)[i].src = (a \o b)[j].src
             PROVE  (a \o b)[i].seq < (a \o b)[j].seq
  BY DEF Rising
<1>1. CASE j <= Len(a)
  <2>1. i \in 1..Len(a) /\ j \in 1..Len(a) /\ (a \o b)[i] = a[i] /\ (a \o b)[j] = a[j]
    BY <1>1
  <2>2. QED
    BY <2>1 DEF Rising
<1>2. CASE i <= Len(a) /\ j > Len(a)
  <2>1. /\ i \in 1..Len(a) /\ j - Len(a) \in 1..Len(b)
        /\ (a \o b)[i] = a[i] /\ (a \o b)[j] = b[j - Len(a)]
    BY <1>2
  <2>2. QED
    BY <2>1 DEF Before
<1>3. CASE i > Len(a)
  <2>1. /\ i - Len(a) \in 1..Len(b) /\ j - Len(a) \in 1..Len(b) /\ i - Len(a) < j - Len(a)
        /\ (a \o b)[i] = b[i - Len(a)] /\ (a \o b)[j] = b[j - Len(a)]
    BY <1>3
  <2>2. QED
    BY <2>1 DEF Rising
<1>4. QED
  BY <1>1, <1>2, <1>3

LEMMA BeforeCat == ASSUME NEW a \in Seq(Row), NEW b \in Seq(Row), NEW c \in Seq(Row)
                   PROVE  /\ Before(a, c) /\ Before(b, c) => Before(a \o b, c)
                          /\ Before(c, a) /\ Before(c, b) => Before(c, a \o b)
<1>1. ASSUME NEW i \in 1..Len(a \o b)
      PROVE  \/ i \in 1..Len(a) /\ (a \o b)[i] = a[i]
             \/ i - Len(a) \in 1..Len(b) /\ (a \o b)[i] = b[i - Len(a)]
  OBVIOUS
<1>2. QED
  BY <1>1 DEF Before

LEMMA TailRises == ASSUME NEW a \in Seq(Row), a # <<>>, Rising(a)
                   PROVE  Rising(<<Head(a)>>) /\ Rising(Tail(a)) /\ Before(<<Head(a)>>, Tail(a))
<1>1. /\ Len(<<Head(a)>>) = 1 /\ <<Head(a)>>[1] = a[1] /\ Len(a) \in Nat \ {0}
      /\ Len(Tail(a)) = Len(a) - 1
      /\ \A i \in 1..Len(Tail(a)) : i + 1 \in 1..Len(a) /\ Tail(a)[i] = a[i + 1]
  OBVIOUS
<1>2. Rising(Tail(a))
  <2>0. Len(Tail(a)) \in Nat
    BY <1>1
  <2>1. \A n \in Nat : \A i, j \in 1..n : i < j => i + 1 < j + 1
    OBVIOUS
  <2>2. QED
    BY <1>1, <2>0, <2>1 DEF Rising
<1>3. Before(<<Head(a)>>, Tail(a))
  <2>1. ASSUME NEW j \in 1..Len(Tail(a)) PROVE 1 < j + 1
    OBVIOUS
  <2>2. QED
    BY <1>1, <2>1 DEF Rising, Before
<1>4. Rising(<<Head(a)>>)
  BY <1>1 DEF Rising
<1>5. QED
  BY <1>2, <1>3, <1>4

LEMMA BeforeTail == ASSUME NEW a \in Seq(Row), NEW b \in Seq(Row), b # <<>>, Before(a, b)
                    PROVE  Before(a, <<Head(b)>>) /\ Before(a, Tail(b))
<1>1. /\ Len(<<Head(b)>>) = 1 /\ <<Head(b)>>[1] = b[1] /\ Len(b) \in Nat \ {0}
      /\ Len(Tail(b)) = Len(b) - 1
      /\ \A i \in 1..Len(Tail(b)) : i + 1 \in 1..Len(b) /\ Tail(b)[i] = b[i + 1]
  OBVIOUS
<1>2. QED
  BY <1>1 DEF Before

---------------------------------------------------------------------------
(* A chain of six stages, and the ways a step may change it *)

Chain(s, y, x, t, h, o) ==
  /\ Rising(s) /\ Rising(y) /\ Rising(x) /\ Rising(t) /\ Rising(h) /\ Rising(o)
  /\ Before(s, y) /\ Before(s, x) /\ Before(s, t) /\ Before(s, h) /\ Before(s, o)
  /\ Before(y, x) /\ Before(y, t) /\ Before(y, h) /\ Before(y, o)
  /\ Before(x, t) /\ Before(x, h) /\ Before(x, o)
  /\ Before(t, h) /\ Before(t, o)
  /\ Before(h, o)

LEMMA ChainMoves ==
  ASSUME NEW s \in Seq(Row), NEW y \in Seq(Row), NEW x \in Seq(Row),
         NEW t \in Seq(Row), NEW h \in Seq(Row), NEW o \in Seq(Row),
         Chain(s, y, x, t, h, o)
  PROVE  /\ Chain(s, <<>>, x, t, h, o)                       \* a batch is lost
         /\ Chain(s, <<>>, <<>>, <<>>, <<>>, <<>>)           \* all but the log
         /\ Chain(s, y, x, t, <<>>, o)                       \* a row passes by
         /\ Chain(s \o y, <<>>, x, t, h, o)                  \* commit
         /\ y = <<>> => Chain(s, x, <<>>, t, h, o)           \* take
         /\ Chain(s, y, x, t \o h, <<>>, o)                  \* append
         /\ x = <<>> => Chain(s, y, t \o h, <<>>, <<>>, o)   \* append and flush
         /\ h = <<>> /\ o # <<>> => Chain(s, y, x, t, <<Head(o)>>, Tail(o))
<1>1. t \o h \in Seq(Row) /\ s \o y \in Seq(Row) /\ <<>> \in Seq(Row)
  OBVIOUS
<1>2. Chain(s, <<>>, x, t, h, o) /\ Chain(s, <<>>, <<>>, <<>>, <<>>, <<>>)
      /\ Chain(s, y, x, t, <<>>, o)
  BY <1>1, NothingRises DEF Chain
<1>3. Chain(s \o y, <<>>, x, t, h, o)
  BY <1>1, NothingRises, CatRises, BeforeCat DEF Chain
<1>4. y = <<>> => Chain(s, x, <<>>, t, h, o)
  BY NothingRises DEF Chain
<1>5. Rising(t \o h) /\ Before(s, t \o h) /\ Before(y, t \o h) /\ Before(x, t \o h)
      /\ Before(t \o h, o)
  BY CatRises, BeforeCat DEF Chain
<1>6. Chain(s, y, x, t \o h, <<>>, o)
  BY <1>1, <1>5, NothingRises DEF Chain
<1>7. x = <<>> => Chain(s, y, t \o h, <<>>, <<>>, o)
  BY <1>1, <1>5, NothingRises DEF Chain
<1>8. ASSUME h = <<>>, o # <<>> PROVE Chain(s, y, x, t, <<Head(o)>>, Tail(o))
  <2>1. Rising(<<Head(o)>>) /\ Rising(Tail(o)) /\ Before(<<Head(o)>>, Tail(o))
    BY <1>8, TailRises DEF Chain
  <2>2. \A a \in Seq(Row) : Before(a, o) => Before(a, <<Head(o)>>) /\ Before(a, Tail(o))
    BY <1>8, BeforeTail
  <2>3. QED
    BY <2>1, <2>2 DEF Chain
<1>9. QED
  BY <1>2, <1>3, <1>4, <1>6, <1>7, <1>8

LEMMA ChainGrows ==
  ASSUME NEW s \in Seq(Row), NEW y \in Seq(Row), NEW x \in Seq(Row),
         NEW t \in Seq(Row), NEW h \in Seq(Row), NEW o \in Seq(Row), NEW r \in Row,
         Chain(s, y, x, t, h, o),
         \A a \in {s, y, x, t, h, o} : Before(a, <<r>>)
  PROVE  Chain(s, y, x, t, h, Append(o, r))
<1>1. Append(o, r) = o \o <<r>> /\ <<r>> \in Seq(Row) /\ Rising(<<r>>)
  BY DEF Rising
<1>2. \A a \in Seq(Row) : Before(a, o) /\ Before(a, <<r>>) => Before(a, o \o <<r>>)
  BY <1>1, BeforeCat
<1>3. Rising(o \o <<r>>)
  BY <1>1, CatRises DEF Chain
<1>4. QED
  BY <1>1, <1>2, <1>3 DEF Chain

---------------------------------------------------------------------------
(* Ages: what is in the pipeline is older than what its producer holds *)

Old == {r \in Row : r.seq <= seq /\ (held[r.src] # NoRow => r.seq < held[r.src].seq)}

Ages ==
  /\ \A p \in Producers : held[p] # NoRow => held[p].seq <= seq
  /\ out \in [Kinds -> Seq(Old)] /\ item \in [Kinds -> Old \cup {NoRow}]
  /\ batch \in [Lanes -> Seq(Old)] /\ box \in [Lanes -> Seq(Old)]
  /\ busy \in [Lanes -> Seq(Old)] /\ stored \in [Lanes -> Seq(Old)]

LEMMA InitAges == Init => Ages
  BY DEF Init, Ages

LEMMA OldStays == ASSUME Ages, Old \subseteq Old',
                         UNCHANGED <<flow, box, busy, stored>>
                  PROVE  /\ item' \in [Kinds -> Old' \cup {NoRow}]
                         /\ batch' \in [Lanes -> Seq(Old')] /\ box' \in [Lanes -> Seq(Old')]
                         /\ busy' \in [Lanes -> Seq(Old')] /\ stored' \in [Lanes -> Seq(Old')]
                         /\ out \in [Kinds -> Seq(Old')]
<1>1. \A a \in Seq(Old) : a \in Seq(Old')
  OBVIOUS
<1>2. QED
  BY <1>1 DEF Ages, flow

LEMMA StepAges == TypeOK /\ Ages /\ [Next]_vars => Ages'
<1> SUFFICES ASSUME TypeOK, Ages, [Next]_vars PROVE Ages'
  OBVIOUS
<1> USE DEF conn, prod, flow
<1>t. /\ seq \in Nat /\ \A r \in Row : r.seq \in Nat /\ r.src \in Producers
      /\ \A p \in Producers : held[p] # NoRow => held[p] \in Row /\ held[p].src = p
  BY BoundsAssumption DEF BoundsAssumption, TypeOK, ProdTypeOK, Row
<1>1. ASSUME NEW p \in Producers, Stamp(p) PROVE Ages'
  <2>1. /\ seq' = seq + 1 /\ UNCHANGED <<out, flow, box, busy, stored>>
        /\ \E k \in Kinds : \E to \in SUBSET Storages :
             held' = [held EXCEPT ![p] = [seq |-> seq + 1, src |-> p, kind |-> k, to |-> to]]
    <3>1. \A k \in KindsOf(p) : k \in Kinds /\ Routes[k] \subseteq SUBSET Storages
      BY RoutesAssumption DEF RoutesAssumption, KindsOf, Kinds
    <3>2. \E k \in KindsOf(p) : \E to \in Routes[k] \ {{}} :
            held' = [held EXCEPT ![p] = [seq |-> seq + 1, src |-> p, kind |-> k, to |-> to]]
      BY <1>1 DEF Stamp
    <3>3. QED
      BY <1>1, <3>1, <3>2 DEF Stamp
  <2>2. held'[p].seq = seq + 1 /\ \A q \in Producers : q # p => held'[q] = held[q]
    BY <2>1 DEF TypeOK, ProdTypeOK
  <2>3. \A r \in Old : r.seq <= seq' /\ (held'[r.src] # NoRow => r.seq < held'[r.src].seq)
    BY <2>1, <2>2, <1>t DEF Old
  <2>4. Old \subseteq Old'
    BY <2>3 DEF Old
  <2>5. \A q \in Producers : held'[q] # NoRow => held'[q].seq <= seq'
    BY <2>1, <2>2, <1>t DEF Ages
  <2>6. QED
    BY <2>1, <2>4, <2>5, OldStays DEF Ages
<1>2. ASSUME NEW p \in Producers, Send(p) PROVE Ages'
  <2> DEFINE r == held[p]
  <2>1. /\ r \in Row /\ r.src = p /\ r.kind \in Kinds
        /\ out' = [out EXCEPT ![r.kind] = Append(@, r)]
        /\ held' = [held EXCEPT ![p] = NoRow] /\ UNCHANGED <<seq, flow, box, busy, stored>>
    BY <1>2 DEF Send, TypeOK, ProdTypeOK, Row
  <2>2. held'[p] = NoRow /\ \A q \in Producers : q # p => held'[q] = held[q]
    BY <2>1 DEF TypeOK, ProdTypeOK
  <2>3. Old \subseteq Old'
    BY <2>1, <2>2, <1>t DEF Old
  <2>4. r \in Old'
    BY <2>1, <2>2, <1>t, RowIsSomething DEF Old, Ages
  <2>5. out \in [Kinds -> Seq(Old')]
    BY <2>1, <2>3, OldStays
  <2>6. out' \in [Kinds -> Seq(Old')]
    BY <2>1, <2>4, <2>5
  <2>7. \A q \in Producers : held'[q] # NoRow => held'[q].seq <= seq'
    BY <2>1, <2>2 DEF Ages
  <2>8. QED
    BY <2>1, <2>3, <2>6, <2>7, OldStays DEF Ages
<1>3. ASSUME NEW p \in Producers, EndFrame(p) PROVE Ages'
  BY <1>3 DEF EndFrame, Ages, Old
<1>4. ASSUME NEW p \in Producers, ProducerExit(p) PROVE Ages'
  <2>1. held' = [held EXCEPT ![p] = NoRow] /\ UNCHANGED <<seq, out, flow, box, busy, stored>>
    BY <1>4 DEF ProducerExit
  <2>2. held'[p] = NoRow /\ \A q \in Producers : q # p => held'[q] = held[q]
    BY <2>1 DEF TypeOK, ProdTypeOK
  <2>3. Old \subseteq Old'
    BY <2>1, <2>2, <1>t DEF Old
  <2>4. \A q \in Producers : held'[q] # NoRow => held'[q].seq <= seq'
    BY <2>1, <2>2 DEF Ages
  <2>5. QED
    BY <2>1, <2>3, <2>4, OldStays DEF Ages
<1>5. ASSUME UNCHANGED <<seq, held>>,
             /\ out' \in [Kinds -> Seq(Old)] /\ item' \in [Kinds -> Old \cup {NoRow}]
             /\ batch' \in [Lanes -> Seq(Old)] /\ box' \in [Lanes -> Seq(Old)]
             /\ busy' \in [Lanes -> Seq(Old)] /\ stored' \in [Lanes -> Seq(Old)]
      PROVE  Ages'
  <2>1. Old' = Old
    BY <1>5 DEF Old
  <2>2. QED
    BY <1>5, <2>1 DEF Ages
<1>6. ASSUME NEW k \in Kinds, Receive(k) PROVE Ages'
  <2>1. Head(out[k]) \in Old /\ Tail(out[k]) \in Seq(Old)
    BY <1>6 DEF Receive, Ages
  <2>2. QED
    BY <1>5, <1>6, <2>1 DEF Receive, Ages
<1>7. ASSUME NEW k \in Kinds, TimerFires(k) PROVE Ages'
  BY <1>5, <1>7 DEF TimerFires, Ages
<1>8. ASSUME NEW k \in Kinds, Serve(k) PROVE Ages'
  <2> DEFINE l == <<k, at[k]>>
             b == IF item[k] = NoRow THEN batch[l] ELSE Append(batch[l], item[k])
  <2>1. l \in Lanes => b \in Seq(Old)
    BY DEF Ages
  <2>2. batch' \in [Lanes -> Seq(Old)] /\ box' \in [Lanes -> Seq(Old)]
    BY <1>8, <2>1 DEF Serve, Flush, Ages
  <2>3. item' \in [Kinds -> Old \cup {NoRow}] /\ UNCHANGED <<seq, held, out, busy, stored>>
    BY <1>8 DEF Serve, Ages
  <2>4. QED
    BY <1>5, <2>2, <2>3 DEF Ages
<1>9. ASSUME NEW k \in Kinds, BatcherExit(k) PROVE Ages'
  BY <1>5, <1>9 DEF BatcherExit, Ages
<1>10. ASSUME NEW l \in Lanes, Take(l) PROVE Ages'
  BY <1>5, <1>10 DEF Take, Ages
<1>11. ASSUME NEW l \in Lanes, Commit(l) \/ CommitFails(l) PROVE Ages'
  <2>1. stored[l] \o busy[l] \in Seq(Old)
    BY DEF Ages
  <2>2. stored' = stored \/ stored' = [stored EXCEPT ![l] = @ \o busy[l]]
    BY <1>11 DEF Commit, CommitFails
  <2>3. stored' \in [Lanes -> Seq(Old)]
    BY <2>1, <2>2 DEF Ages
  <2>4. busy' = [busy EXCEPT ![l] = <<>>] /\ UNCHANGED <<seq, held, out, flow, box>>
    BY <1>11 DEF Commit, CommitFails
  <2>5. QED
    BY <1>5, <2>3, <2>4 DEF Ages
<1>12. CASE Reconnect
  <2>1. \A p \in Producers : held'[p] = NoRow
    BY <1>12 DEF Reconnect
  <2>2. Old \subseteq Old'
    BY <1>12, <2>1, <1>t DEF Reconnect, Old
  <2>3. \A a \in Seq(Old) : a \in Seq(Old')
    BY <2>2
  <2>4. stored' \in [Lanes -> Seq(Old')]
    BY <1>12, <2>3 DEF Reconnect, Ages
  <2>5. QED
    BY <1>12, <2>1, <2>4 DEF Reconnect, Ages
<1>13. UNCHANGED <<seq, held, out, flow, box, busy, stored>> => Ages'
  BY <1>5 DEF Ages
<1>14. ASSUME NEW l \in Lanes, WorkerExit(l) PROVE Ages'
  BY <1>13, <1>14 DEF WorkerExit
<1>15. ReadFails \/ GroupCancelled \/ CloseConn \/ GiveUp \/ UNCHANGED vars => Ages'
  BY <1>13 DEF ReadFails, GroupCancelled, CloseConn, GiveUp, vars
<1>16. QED
  BY <1>1, <1>2, <1>3, <1>4, <1>6, <1>7, <1>8, <1>9, <1>10, <1>11, <1>12, <1>14, <1>15
     DEF Next

---------------------------------------------------------------------------
(* Every lane is a chain *)

\* The row the batcher of l's kind holds and has not offered to l yet.
Hand(l) == IF item[l[1]] # NoRow /\ at[l[1]] \in {l[2], "terminal"}
             THEN <<item[l[1]]>> ELSE <<>>

LaneChain(l) == Chain(stored[l], busy[l], box[l], batch[l], Hand(l), out[l[1]])

Chained == \A l \in Lanes : LaneChain(l)

LEMMA StageType == TypeOK => \A l \in Lanes : /\ stored[l] \in Seq(Row) /\ busy[l] \in Seq(Row)
                                              /\ box[l] \in Seq(Row) /\ batch[l] \in Seq(Row)
                                              /\ Hand(l) \in Seq(Row)
                                              /\ l[1] \in Kinds /\ out[l[1]] \in Seq(Row)
  BY LaneType DEF TypeOK, FlowTypeOK, StoreTypeOK, Hand

\* A row its producer still holds is younger than all there is in a stage.
LEMMA HeldIsYoungest ==
  ASSUME NEW p \in Producers, TypeOK, held[p] # NoRow, NEW a \in Seq(Old)
  PROVE  Before(a, <<held[p]>>)
<1>1. \A i \in 1..Len(a) : a[i] \in Old
  OBVIOUS
<1>2. held[p].src = p
  BY DEF TypeOK, ProdTypeOK
<1>3. QED
  BY <1>1, <1>2 DEF Before, Old

LEMMA StepChained == TypeOK /\ Ages /\ Chained /\ [Next]_vars => Chained'
<1> SUFFICES ASSUME TypeOK, Ages, Chained, [Next]_vars, NEW l \in Lanes
             PROVE  LaneChain(l)'
  BY DEF Chained
<1> USE DEF conn, prod, flow
<1>t. /\ stored[l] \in Seq(Row) /\ busy[l] \in Seq(Row) /\ box[l] \in Seq(Row)
      /\ batch[l] \in Seq(Row) /\ Hand(l) \in Seq(Row)
      /\ l[1] \in Kinds /\ out[l[1]] \in Seq(Row)
      /\ l[2] \in Storages /\ l = <<l[1], l[2]>>
  BY StageType, LaneType
<1>c. Chain(stored[l], busy[l], box[l], batch[l], Hand(l), out[l[1]])
  BY DEF Chained, LaneChain
<1>m. /\ Chain(stored[l], <<>>, box[l], batch[l], Hand(l), out[l[1]])
      /\ Chain(stored[l], <<>>, <<>>, <<>>, <<>>, <<>>)
      /\ Chain(stored[l], busy[l], box[l], batch[l], <<>>, out[l[1]])
      /\ Chain(stored[l] \o busy[l], <<>>, box[l], batch[l], Hand(l), out[l[1]])
      /\ busy[l] = <<>> => Chain(stored[l], box[l], <<>>, batch[l], Hand(l), out[l[1]])
      /\ Chain(stored[l], busy[l], box[l], batch[l] \o Hand(l), <<>>, out[l[1]])
      /\ box[l] = <<>> => Chain(stored[l], busy[l], batch[l] \o Hand(l), <<>>, <<>>, out[l[1]])
      /\ Hand(l) = <<>> /\ out[l[1]] # <<>>
           => Chain(stored[l], busy[l], box[l], batch[l], <<Head(out[l[1]])>>, Tail(out[l[1]]))
  BY <1>t, <1>c, ChainMoves
<1>1. ASSUME UNCHANGED <<item, at>> PROVE Hand(l)' = Hand(l)
  BY <1>1 DEF Hand
<1>2. UNCHANGED <<out, flow, box, busy, stored>> => LaneChain(l)'
  BY <1>1, <1>c DEF LaneChain
<1>3. ASSUME NEW p \in Producers, Send(p) PROVE LaneChain(l)'
  <2>1. /\ held[p] # NoRow /\ held[p] \in Row /\ held[p].kind \in Kinds
        /\ out' = [out EXCEPT ![held[p].kind] = Append(@, held[p])]
        /\ UNCHANGED <<flow, box, busy, stored>>
    BY <1>3 DEF Send, TypeOK, ProdTypeOK, Row
  <2>2. CASE held[p].kind # l[1]
    <3>1. out'[l[1]] = out[l[1]]
      BY <2>1, <2>2
    <3>2. QED
      BY <2>1, <3>1, <1>1, <1>c DEF LaneChain
  <2>3. CASE held[p].kind = l[1]
    <3>1. out'[l[1]] = Append(out[l[1]], held[p])
      BY <2>1, <2>3, <1>t DEF TypeOK, FlowTypeOK
    <3>2. /\ stored[l] \in Seq(Old) /\ busy[l] \in Seq(Old) /\ box[l] \in Seq(Old)
          /\ batch[l] \in Seq(Old) /\ Hand(l) \in Seq(Old) /\ out[l[1]] \in Seq(Old)
      BY <1>t DEF Ages, Hand
    <3>3. \A a \in {stored[l], busy[l], box[l], batch[l], Hand(l), out[l[1]]} :
            Before(a, <<held[p]>>)
      BY <2>1, <3>2, HeldIsYoungest
    <3>4. Chain(stored[l], busy[l], box[l], batch[l], Hand(l), Append(out[l[1]], held[p]))
      BY <2>1, <3>3, <1>t, <1>c, ChainGrows
    <3>5. QED
      BY <2>1, <3>1, <3>4, <1>1 DEF LaneChain
  <2>4. QED
    BY <2>2, <2>3
<1>4. ASSUME NEW k \in Kinds, Receive(k) PROVE LaneChain(l)'
  <2>1. /\ at[k] = "select" /\ out[k] # <<>> /\ item' = [item EXCEPT ![k] = Head(out[k])]
        /\ out' = [out EXCEPT ![k] = Tail(@)] /\ at' = [at EXCEPT ![k] = "terminal"]
        /\ UNCHANGED <<batch, box, busy, stored>>
    BY <1>4 DEF Receive
  <2>2. CASE k # l[1]
    <3>1. out'[l[1]] = out[l[1]] /\ item'[l[1]] = item[l[1]] /\ at'[l[1]] = at[l[1]]
      BY <2>1, <2>2, <1>t DEF TypeOK, FlowTypeOK
    <3>2. QED
      BY <2>1, <3>1, <1>c DEF LaneChain, Hand
  <2>3. CASE k = l[1]
    <3>1. /\ out'[l[1]] = Tail(out[l[1]]) /\ item'[l[1]] = Head(out[l[1]])
          /\ at'[l[1]] = "terminal"
      BY <2>1, <2>3, <1>t DEF TypeOK, FlowTypeOK
    <3>2. Head(out[k]) \in Row
      BY <2>1, <2>3, <1>t
    <3>3. Hand(l)' = <<Head(out[l[1]])>>
      BY <3>1, <3>2, <2>3, RowIsSomething DEF Hand
    <3>4. Hand(l) = <<>>
      BY <2>1, <2>3, <1>t DEF Hand, Storages
    <3>5. QED
      BY <2>1, <2>3, <3>1, <3>3, <3>4, <1>m DEF LaneChain
  <2>4. QED
    BY <2>2, <2>3
<1>5. ASSUME NEW k \in Kinds, TimerFires(k) PROVE LaneChain(l)'
  <2>1. /\ at[k] = "select" /\ item' = [item EXCEPT ![k] = NoRow]
        /\ at' = [at EXCEPT ![k] = "terminal"] /\ UNCHANGED <<out, batch, box, busy, stored>>
    BY <1>5 DEF TimerFires
  <2>2. CASE k # l[1]
    <3>1. item'[l[1]] = item[l[1]] /\ at'[l[1]] = at[l[1]]
      BY <2>1, <2>2, <1>t DEF TypeOK, FlowTypeOK
    <3>2. QED
      BY <2>1, <3>1, <1>c DEF LaneChain, Hand
  <2>3. CASE k = l[1]
    <3>1. Hand(l)' = <<>>
      BY <2>1, <2>3, <1>t DEF Hand, TypeOK, FlowTypeOK
    <3>2. QED
      BY <2>1, <3>1, <1>m DEF LaneChain
  <2>4. QED
    BY <2>2, <2>3
<1>6. ASSUME NEW k \in Kinds, Serve(k) PROVE LaneChain(l)'
  <2> DEFINE s == at[k]
             m == <<k, s>>
             b == IF item[k] = NoRow THEN batch[m] ELSE Append(batch[m], item[k])
  <2>1. /\ s \in Storages /\ at' = [at EXCEPT ![k] = After(s)]
        /\ item' = IF s = "clickhouse" THEN [item EXCEPT ![k] = NoRow] ELSE item
        /\ UNCHANGED <<out, busy, stored>>
    BY <1>6 DEF Serve, TypeOK, FlowTypeOK
  <2>2. \/ UNCHANGED <<batch, box>>
        \/ /\ m \in Lanes /\ Flush(m, b)
        \/ m \in Lanes /\ batch' = [batch EXCEPT ![m] = b] /\ UNCHANGED box
    BY <1>6 DEF Serve
  <2>3. CASE k # l[1]
    <3>1. item'[l[1]] = item[l[1]] /\ at'[l[1]] = at[l[1]] /\ m # l
      BY <2>1, <2>3, <1>t DEF TypeOK, FlowTypeOK
    <3>2. batch'[l] = batch[l] /\ box'[l] = box[l]
      BY <2>2, <3>1 DEF Flush, TypeOK, FlowTypeOK, StoreTypeOK
    <3>3. QED
      BY <2>1, <3>1, <3>2, <1>c DEF LaneChain, Hand
  <2>4. CASE k = l[1] /\ s # l[2]
    <3>1. batch'[l] = batch[l] /\ box'[l] = box[l]
      <4>1. m # l
        BY <2>4, <1>t
      <4>2. QED
        BY <2>2, <4>1 DEF Flush, TypeOK, FlowTypeOK, StoreTypeOK
    <3>2. Hand(l)' = Hand(l)
      <4>1. CASE s = "terminal"
        <5>1. l[2] = "clickhouse" /\ at'[k] = "clickhouse" /\ item' = item
          BY <2>1, <2>4, <4>1, <1>t DEF Storages, After, TypeOK, FlowTypeOK
        <5>2. QED
          BY <5>1, <4>1, <2>4 DEF Hand
      <4>2. CASE s = "clickhouse"
        <5>1. l[2] = "terminal" /\ at'[k] = "select"
          BY <2>1, <2>4, <4>2, <1>t DEF Storages, After, TypeOK, FlowTypeOK
        <5>2. QED
          BY <5>1, <4>2, <2>4 DEF Hand
      <4>3. QED
        BY <2>1, <4>1, <4>2 DEF Storages
    <3>3. QED
      BY <2>1, <3>1, <3>2, <1>c DEF LaneChain
  <2>5. CASE k = l[1] /\ s = l[2]
    <3>1. m = l
      BY <2>5, <1>t
    <3>2. Hand(l)' = <<>>
      <4>1. at'[k] = After(s) /\ After(s) # s /\ After(s) # "terminal"
        BY <2>1 DEF After, Storages, TypeOK, FlowTypeOK
      <4>2. QED
        BY <4>1, <2>5 DEF Hand
    <3>3. Hand(l) = IF item[k] = NoRow THEN <<>> ELSE <<item[k]>>
      BY <2>5 DEF Hand
    <3>4. b = batch[l] \o Hand(l)
      <4>1. \A a \in Seq(Row) : a \o <<>> = a /\ \A r \in Row : Append(a, r) = a \o <<r>>
        OBVIOUS
      <4>2. item[k] # NoRow => item[k] \in Row
        BY DEF TypeOK, FlowTypeOK
      <4>3. QED
        BY <3>1, <3>3, <4>1, <4>2, <1>t
    <3>5. CASE UNCHANGED <<batch, box>>
      BY <2>1, <3>2, <3>5, <1>m, <2>5 DEF LaneChain
    <3>6. CASE Flush(m, b)
      <4>1. box[l] = <<>> /\ box'[l] = b /\ batch'[l] = <<>>
        BY <3>6, <3>1 DEF Flush, TypeOK, FlowTypeOK, StoreTypeOK
      <4>2. QED
        BY <2>1, <4>1, <3>2, <3>4, <1>m DEF LaneChain
    <3>7. CASE batch' = [batch EXCEPT ![m] = b] /\ UNCHANGED box
      <4>1. batch'[l] = b
        BY <3>7, <3>1 DEF TypeOK, FlowTypeOK
      <4>2. QED
        BY <2>1, <3>7, <4>1, <3>2, <3>4, <1>m DEF LaneChain
    <3>8. QED
      BY <2>2, <3>5, <3>6, <3>7
  <2>6. QED
    BY <2>3, <2>4, <2>5
<1>7. ASSUME NEW m \in Lanes, Take(m) PROVE LaneChain(l)'
  <2>1. /\ busy[m] = <<>> /\ busy' = [busy EXCEPT ![m] = box[m]]
        /\ box' = [box EXCEPT ![m] = <<>>] /\ UNCHANGED <<out, flow, stored>>
    BY <1>7 DEF Take
  <2>2. \/ m # l /\ busy'[l] = busy[l] /\ box'[l] = box[l]
        \/ busy[l] = <<>> /\ busy'[l] = box[l] /\ box'[l] = <<>>
    BY <2>1 DEF TypeOK, StoreTypeOK
  <2>3. QED
    BY <2>1, <2>2, <1>1, <1>c, <1>m DEF LaneChain
<1>8. ASSUME NEW m \in Lanes, Commit(m) \/ CommitFails(m) PROVE LaneChain(l)'
  <2>1. /\ stored' = stored \/ stored' = [stored EXCEPT ![m] = @ \o busy[m]]
        /\ busy' = [busy EXCEPT ![m] = <<>>] /\ UNCHANGED <<out, flow, box>>
    BY <1>8 DEF Commit, CommitFails
  <2>2. \/ stored'[l] = stored[l] /\ busy'[l] = busy[l]
        \/ stored'[l] = stored[l] /\ busy'[l] = <<>>
        \/ stored'[l] = stored[l] \o busy[l] /\ busy'[l] = <<>>
    BY <2>1 DEF TypeOK, StoreTypeOK
  <2>3. QED
    BY <2>1, <2>2, <1>1, <1>c, <1>m DEF LaneChain
<1>9. CASE Reconnect
  <2>1. /\ stored' = stored /\ busy'[l] = <<>> /\ box'[l] = <<>> /\ batch'[l] = <<>>
        /\ out'[l[1]] = <<>> /\ item'[l[1]] = NoRow
    BY <1>9, <1>t DEF Reconnect
  <2>2. Hand(l)' = <<>>
    BY <2>1 DEF Hand
  <2>3. QED
    BY <2>1, <2>2, <1>m DEF LaneChain
<1>10. ASSUME NEW p \in Producers, Stamp(p) \/ EndFrame(p) \/ ProducerExit(p)
       PROVE  LaneChain(l)'
  BY <1>2, <1>10 DEF Stamp, EndFrame, ProducerExit
<1>11. ASSUME NEW k \in Kinds, BatcherExit(k) PROVE LaneChain(l)'
  BY <1>2, <1>11 DEF BatcherExit
<1>12. ASSUME NEW m \in Lanes, WorkerExit(m) PROVE LaneChain(l)'
  BY <1>2, <1>12 DEF WorkerExit
<1>13. ReadFails \/ GroupCancelled \/ CloseConn \/ GiveUp \/ UNCHANGED vars => LaneChain(l)'
  BY <1>2 DEF ReadFails, GroupCancelled, CloseConn, GiveUp, vars
<1>14. QED
  BY <1>3, <1>4, <1>5, <1>6, <1>7, <1>8, <1>9, <1>10, <1>11, <1>12, <1>13 DEF Next

\* Every storage receives the rows of each goroutine in the order they were
\* stamped and none twice, whatever the routing, the batch sizes, the
\* failures and the number of connectors.
THEOREM StorageOrder == Spec => []StoredInOrder
<1>1. Init => Chained
  <2> SUFFICES ASSUME Init, NEW l \in Lanes PROVE LaneChain(l)
    BY DEF Chained
  <2>1. /\ stored[l] = <<>> /\ busy[l] = <<>> /\ box[l] = <<>> /\ batch[l] = <<>>
        /\ out[l[1]] = <<>> /\ item[l[1]] = NoRow
    BY LaneType DEF Init
  <2>2. Hand(l) = <<>>
    BY <2>1 DEF Hand
  <2>3. <<>> \in Seq(Row)
    OBVIOUS
  <2>4. QED
    BY <2>1, <2>2, <2>3, NothingRises DEF LaneChain, Chain
<1>2. Chained => StoredInOrder
  BY DEF Chained, LaneChain, Chain, Rising, StoredInOrder
<1>3. QED
  BY <1>1, <1>2, InitTypeOK, StepTypeOK, InitAges, StepAges, StepChained, PTL DEF Spec

---------------------------------------------------------------------------
(* Induction and recursion over an interval of numbers, with the predicate *)
(* given as the set of numbers that satisfy it, and the step of the        *)
(* recursion as a function                                                 *)

LessThan == {ss \in Nat \X Nat : ss[1] < ss[2]}

\* A set of numbers that is not empty has a least element.
LEMMA LeastNumber ==
  ASSUME NEW T, T \subseteq Nat, T # {}
  PROVE  \E m \in T : \A n \in T : m <= n
<1>1. IsWellFoundedOn(LessThan, Nat)
  BY NatLessThanWellFounded DEF OpToRel, LessThan
<1>2. PICK m \in T : \A n \in T : ~ (<<n, m>> \in LessThan)
  BY <1>1, WFMin
<1>3. ASSUME NEW n \in T PROVE m <= n
  <2>1. n \in Nat /\ m \in Nat /\ <<n, m>> \in Nat \X Nat
    OBVIOUS
  <2>2. ~ (n < m)
    BY <1>2, <2>1 DEF LessThan
  <2>3. QED
    BY <2>1, <2>2
<1>4. QED
  BY <1>3

\* What holds at the lower end and goes from each number to the next, holds
\* in the whole interval.
LEMMA IntervalInduction ==
  ASSUME NEW lo \in Nat, NEW hi \in Nat, NEW S, lo \in S,
         \A i \in lo..hi : i \in S /\ i + 1 \in lo..hi => i + 1 \in S
  PROVE  lo..hi \subseteq S
<1> SUFFICES ASSUME NEW j \in lo..hi, j \notin S PROVE FALSE
  OBVIOUS
<1> DEFINE T == {i \in lo..hi : i \notin S}
<1>1. PICK i \in T : \A n \in T : i <= n
  <2>1. T \subseteq Nat /\ T # {}
    OBVIOUS
  <2>2. QED
    BY <2>1, LeastNumber
<1>2. i \in lo..hi /\ i # lo
  OBVIOUS
<1>3. i - 1 \in lo..hi /\ i - 1 \in S
  BY <1>1, <1>2
<1>4. QED
  BY <1>2, <1>3

\* f has the given first value and its values follow one from the other.
Recurs(f, lo, hi, V, base, step) ==
  /\ f \in [lo..hi -> V]
  /\ f[lo] = base
  /\ \A i \in (lo + 1)..hi : f[i] = step[<<i, f[i - 1]>>]

\* There is such a function.
LEMMA IntervalRecursion ==
  ASSUME NEW lo \in Nat, NEW hi \in Nat, lo <= hi, NEW V, NEW base \in V,
         NEW step \in [((lo + 1)..hi) \X V -> V]
  PROVE  \E f : Recurs(f, lo, hi, V, base, step)
<1> DEFINE Good(f, n) == f[lo] = base /\ \A i \in (lo + 1)..n : f[i] = step[<<i, f[i - 1]>>]
           S == {n \in lo..hi : \E f \in [lo..n -> V] : Good(f, n)}
<1>1. lo \in S
  <2> DEFINE f == [i \in lo..lo |-> base]
  <2>1. f \in [lo..lo -> V]
    OBVIOUS
  <2>2. f[lo] = base /\ (lo + 1)..lo = {}
    OBVIOUS
  <2>3. Good(f, lo)
    BY <2>2
  <2>4. \E h \in [lo..lo -> V] : Good(h, lo)
    BY <2>1, <2>3
  <2>5. QED
    BY <2>4
<1>2. ASSUME NEW n \in lo..hi, n \in S, n + 1 \in lo..hi
      PROVE  n + 1 \in S
  <2>1. PICK f \in [lo..n -> V] : Good(f, n)
    BY <1>2
  <2> DEFINE next == step[<<n + 1, f[n]>>]
             g    == [i \in lo..(n + 1) |-> IF i = n + 1 THEN next ELSE f[i]]
  <2>2. next \in V
    <3>1. f[n] \in V /\ n + 1 \in (lo + 1)..hi
      BY <1>2
    <3>2. <<n + 1, f[n]>> \in ((lo + 1)..hi) \X V
      BY <3>1
    <3>3. QED
      BY <3>2
  <2>3. g[n + 1] = next /\ \A i \in lo..n : g[i] = f[i]
    BY <1>2
  <2>4. g \in [lo..(n + 1) -> V]
    <3> HIDE DEF next
    <3>1. QED
      BY <1>2, <2>2
  <2>5. ASSUME NEW i \in (lo + 1)..(n + 1) PROVE g[i] = step[<<i, g[i - 1]>>]
    <3> HIDE DEF g
    <3>1. CASE i = n + 1
      BY <2>3, <3>1
    <3>2. CASE i # n + 1
      BY <2>1, <2>3, <3>2
    <3>3. QED
      BY <3>1, <3>2
  <2>6. Good(g, n + 1)
    <3>1. g[lo] = base
      BY <2>1, <2>3
    <3>2. QED
      BY <2>5, <3>1
  <2>7. \E h \in [lo..(n + 1) -> V] : Good(h, n + 1)
    <3> HIDE DEF g, Good
    <3>1. QED
      BY <2>4, <2>6
  <2>8. QED
    BY <1>2, <2>7
<1>3. hi \in S
  <2> HIDE DEF S
  <2>1. lo..hi \subseteq S
    BY <1>1, <1>2, IntervalInduction
  <2>2. QED
    BY <2>1
<1>4. QED
  BY <1>3 DEF Recurs

---------------------------------------------------------------------------
(* Sequences of rows *)

LEMMA CatNothing == \A a \in Seq(Row) : a \o <<>> = a /\ <<>> \o a = a
  OBVIOUS

LEMMA CatAssoc ==
  ASSUME NEW a \in Seq(Row), NEW b \in Seq(Row), NEW c \in Seq(Row)
  PROVE  (a \o b) \o c = a \o (b \o c)
  OBVIOUS

LEMMA CatAppend ==
  ASSUME NEW a \in Seq(Row), NEW b \in Seq(Row), NEW r \in Row
  PROVE  Append(a \o b, r) = a \o Append(b, r)
  OBVIOUS

LEMMA CatSplits ==
  ASSUME NEW a \in Seq(Row), NEW b \in Seq(Row)
  PROVE  /\ SubSeq(a \o b, 1, Len(a)) = a
         /\ SubSeq(a \o b, Len(a) + 1, Len(a \o b)) = b
         /\ Len(a) \in 0..Len(a \o b)
  OBVIOUS

---------------------------------------------------------------------------
(* The rows of a channel that go to a storage *)

\* f[i] gives those among the first i rows.
Distributes(f, rows, s) ==
  /\ f \in [0..Len(rows) -> Seq(Row)]
  /\ f[0] = <<>>
  /\ \A i \in 1..Len(rows) : f[i] = IF s \in rows[i].to THEN Append(f[i - 1], rows[i])
                                                       ELSE f[i - 1]
  /\ Routed(rows, s) = f[Len(rows)]

LEMMA RoutedRuns ==
  ASSUME NEW rows \in Seq(Row), NEW s
  PROVE  \E f : Distributes(f, rows, s)
<1> DEFINE n    == Len(rows)
           step == [p \in (1..n) \X Seq(Row) |->
                      IF s \in rows[p[1]].to THEN Append(p[2], rows[p[1]]) ELSE p[2]]
           Eqn(f) == f = [i \in 0..n |->
                            IF i = 0 THEN <<>>
                            ELSE IF s \in rows[i].to THEN Append(f[i - 1], rows[i]) ELSE f[i - 1]]
<1>1. n \in Nat /\ 0 \in Nat /\ 0 <= n /\ <<>> \in Seq(Row) /\ 0 + 1 = 1
  OBVIOUS
<1>0. \A i \in 0..n : i # 0 <=> i \in 1..n
  BY <1>1
<1>2. step \in [(1..n) \X Seq(Row) -> Seq(Row)]
  <2>1. ASSUME NEW p \in (1..n) \X Seq(Row)
        PROVE  (IF s \in rows[p[1]].to THEN Append(p[2], rows[p[1]]) ELSE p[2]) \in Seq(Row)
    <3>1. p[1] \in 1..n /\ p[2] \in Seq(Row)
      OBVIOUS
    <3>2. rows[p[1]] \in Row
      BY <3>1
    <3>3. QED
      BY <3>1, <3>2
  <2>2. QED
    BY <2>1
<1>3. \E f : Recurs(f, 0, n, Seq(Row), <<>>, step)
  <2> HIDE DEF n, step
  <2>1. QED
    BY <1>1, <1>2, IntervalRecursion
<1>4. PICK f \in [0..n -> Seq(Row)] :
        f[0] = <<>> /\ \A i \in 1..n : f[i] = step[<<i, f[i - 1]>>]
  BY <1>1, <1>3 DEF Recurs
<1>5. \A i \in 1..n : /\ f[i - 1] \in Seq(Row)
                      /\ f[i] = IF s \in rows[i].to THEN Append(f[i - 1], rows[i]) ELSE f[i - 1]
  <2>1. SUFFICES ASSUME NEW i \in 1..n
                 PROVE  /\ f[i - 1] \in Seq(Row)
                        /\ f[i] = IF s \in rows[i].to THEN Append(f[i - 1], rows[i]) ELSE f[i - 1]
    OBVIOUS
  <2>2. f[i - 1] \in Seq(Row)
    BY <1>1, <1>4
  <2>3. <<i, f[i - 1]>> \in (1..n) \X Seq(Row)
    BY <2>2
  <2>4. step[<<i, f[i - 1]>>] = IF s \in rows[i].to THEN Append(f[i - 1], rows[i]) ELSE f[i - 1]
    BY <2>3
  <2>5. QED
    BY <1>4, <2>2, <2>4
<1>6. \E h : Eqn(h)
  <2>1. \A i \in 0..n : f[i] = IF i = 0 THEN <<>>
                                ELSE IF s \in rows[i].to THEN Append(f[i - 1], rows[i]) ELSE f[i - 1]
    BY <1>0, <1>4, <1>5
  <2>2. f = [i \in 0..n |-> f[i]]
    BY <1>4
  <2>3. Eqn(f)
    BY <2>1, <2>2
  <2>4. QED
    BY <2>3
<1> DEFINE g == CHOOSE h : Eqn(h)
<1>7. Eqn(g)
  BY <1>6
<1>8. Routed(rows, s) = g[n]
  BY DEF Routed
<1> HIDE DEF g
<1>9. /\ DOMAIN g = 0..n /\ g[0] = <<>>
      /\ \A i \in 1..n : g[i] = IF s \in rows[i].to THEN Append(g[i - 1], rows[i]) ELSE g[i - 1]
  <2>1. 0 \in 0..n /\ \A i \in 1..n : i \in 0..n /\ i # 0
    BY <1>1
  <2>2. QED
    BY <1>7, <2>1
<1>10. g \in [0..n -> Seq(Row)]
  <2> DEFINE S == {i \in 0..n : g[i] \in Seq(Row)}
  <2>1. 0 \in S
    <3>1. 0 \in 0..n /\ g[0] \in Seq(Row)
      BY <1>1, <1>9
    <3>2. QED
      BY <3>1
  <2>2. \A i \in 0..n : i \in S /\ i + 1 \in 0..n => i + 1 \in S
    <3>1. SUFFICES ASSUME NEW i \in 0..n, g[i] \in Seq(Row), i + 1 \in 0..n
                   PROVE  g[i + 1] \in Seq(Row)
      OBVIOUS
    <3>2. i + 1 \in 1..n /\ (i + 1) - 1 = i /\ rows[i + 1] \in Row
      BY <1>1, <3>1
    <3>3. g[i + 1] = IF s \in rows[i + 1].to THEN Append(g[i], rows[i + 1]) ELSE g[i]
      BY <1>9, <3>2
    <3>4. QED
      BY <3>1, <3>2, <3>3
  <2>3. 0..n \subseteq S
    <3> HIDE DEF S
    <3>1. QED
      BY <1>1, <2>1, <2>2, IntervalInduction
  <2>4. g = [i \in 0..n |-> g[i]]
    BY <1>7
  <2>5. QED
    BY <2>3, <2>4
<1>11. Distributes(g, rows, s)
  BY <1>8, <1>9, <1>10 DEF Distributes
<1>12. QED
  BY <1>11

LEMMA RoutedType ==
  ASSUME NEW rows \in Seq(Row), NEW s
  PROVE  Routed(rows, s) \in Seq(Row)
<1>1. PICK f : Distributes(f, rows, s)
  BY RoutedRuns
<1>2. Len(rows) \in 0..Len(rows)
  OBVIOUS
<1>3. QED
  BY <1>1, <1>2 DEF Distributes

LEMMA RoutedNothing == \A s : Routed(<<>>, s) = <<>>
<1> SUFFICES ASSUME NEW s PROVE Routed(<<>>, s) = <<>>
  OBVIOUS
<1>1. <<>> \in Seq(Row) /\ Len(<<>>) = 0
  OBVIOUS
<1>2. PICK f : Distributes(f, <<>>, s)
  BY <1>1, RoutedRuns
<1>3. QED
  BY <1>1, <1>2 DEF Distributes

\* A row enters the channel at the end ...
LEMMA RoutedGrows ==
  ASSUME NEW rows \in Seq(Row), NEW r \in Row, NEW s
  PROVE  Routed(Append(rows, r), s) = IF s \in r.to THEN Append(Routed(rows, s), r)
                                                   ELSE Routed(rows, s)
<1> DEFINE n == Len(rows)
           t == Append(rows, r)
<1>1. t \in Seq(Row) /\ Len(t) = n + 1 /\ t[n + 1] = r /\ n \in Nat /\ \A i \in 1..n : t[i] = rows[i]
  OBVIOUS
<1> HIDE DEF t
<1>2. PICK f : Distributes(f, rows, s)
  BY RoutedRuns
<1>3. PICK g : Distributes(g, t, s)
  BY <1>1, RoutedRuns
<1>4. f[n] = g[n]
  <2> DEFINE S == {i \in 0..n : f[i] = g[i]}
  <2>1. 0 \in S
    BY <1>1, <1>2, <1>3 DEF Distributes
  <2>2. \A i \in 0..n : i \in S /\ i + 1 \in 0..n => i + 1 \in S
    <3>1. SUFFICES ASSUME NEW i \in 0..n, f[i] = g[i], i + 1 \in 0..n
                   PROVE  f[i + 1] = g[i + 1]
      OBVIOUS
    <3>2. i + 1 \in 1..n /\ i + 1 \in 1..Len(t) /\ (i + 1) - 1 = i /\ t[i + 1] = rows[i + 1]
      BY <1>1, <3>1
    <3>3. f[i + 1] = IF s \in rows[i + 1].to THEN Append(f[i], rows[i + 1]) ELSE f[i]
      BY <1>2, <3>2 DEF Distributes
    <3>4. g[i + 1] = IF s \in t[i + 1].to THEN Append(g[i], t[i + 1]) ELSE g[i]
      BY <1>3, <3>2 DEF Distributes
    <3>5. QED
      BY <3>1, <3>2, <3>3, <3>4
  <2>3. 0..n \subseteq S
    <3> HIDE DEF S
    <3>1. 0 \in Nat
      OBVIOUS
    <3>2. QED
      BY <1>1, <2>1, <2>2, <3>1, IntervalInduction
  <2>4. n \in 0..n
    BY <1>1
  <2>5. QED
    BY <2>3, <2>4
<1>5. (n + 1) - 1 = n /\ n + 1 \in 1..Len(t)
  BY <1>1
<1>6. g[n + 1] = IF s \in r.to THEN Append(g[n], r) ELSE g[n]
  BY <1>1, <1>3, <1>5 DEF Distributes
<1>7. Routed(t, s) = g[n + 1] /\ Routed(rows, s) = f[n]
  BY <1>1, <1>2, <1>3 DEF Distributes
<1>8. QED
  BY <1>4, <1>6, <1>7 DEF t

LEMMA RoutedOne ==
  ASSUME NEW r \in Row, NEW s
  PROVE  Routed(<<r>>, s) = IF s \in r.to THEN <<r>> ELSE <<>>
<1>1. <<>> \in Seq(Row) /\ Append(<<>>, r) = <<r>>
  OBVIOUS
<1>2. QED
  BY <1>1, RoutedGrows, RoutedNothing

\* ... and leaves it at the head.
LEMMA RoutedSplits ==
  ASSUME NEW rows \in Seq(Row), rows # <<>>, NEW s
  PROVE  Routed(rows, s) = Routed(<<Head(rows)>>, s) \o Routed(Tail(rows), s)
<1> DEFINE n == Len(rows)
           t == Tail(rows)
           h == Routed(<<Head(rows)>>, s)
<1>1. /\ n \in Nat /\ n >= 1 /\ Head(rows) = rows[1] /\ rows[1] \in Row
      /\ t \in Seq(Row) /\ Len(t) = n - 1 /\ \A i \in 1..(n - 1) : t[i] = rows[i + 1]
  OBVIOUS
<1>2. h = IF s \in rows[1].to THEN <<rows[1]>> ELSE <<>>
  BY <1>1, RoutedOne
<1>3. h \in Seq(Row)
  <2>1. <<Head(rows)>> \in Seq(Row)
    BY <1>1
  <2>2. QED
    BY <2>1, RoutedType
<1> HIDE DEF t, h
<1>4. PICK f : Distributes(f, rows, s)
  BY RoutedRuns
<1>5. PICK g : Distributes(g, t, s)
  BY <1>1, RoutedRuns
<1>6. f[n] = h \o g[n - 1]
  <2> DEFINE S == {i \in 0..(n - 1) : f[i + 1] = h \o g[i]}
  <2>1. 0 \in S
    <3>1. f[1] = h
      <4>1. 1 \in 1..n /\ 1 - 1 = 0
        BY <1>1
      <4>2. f[1] = IF s \in rows[1].to THEN Append(<<>>, rows[1]) ELSE <<>>
        BY <1>4, <4>1 DEF Distributes
      <4>3. QED
        BY <1>1, <1>2, <4>2
    <3>2. h \o <<>> = h
      BY <1>3, CatNothing
    <3>3. g[0] = <<>>
      BY <1>5 DEF Distributes
    <3>4. 0 \in 0..(n - 1) /\ 0 + 1 = 1
      BY <1>1
    <3>5. QED
      BY <3>1, <3>2, <3>3, <3>4
  <2>2. \A i \in 0..(n - 1) : i \in S /\ i + 1 \in 0..(n - 1) => i + 1 \in S
    <3>1. SUFFICES ASSUME NEW i \in 0..(n - 1), f[i + 1] = h \o g[i], i + 1 \in 0..(n - 1)
                   PROVE  f[(i + 1) + 1] = h \o g[i + 1]
      OBVIOUS
    <3>2. /\ i + 1 \in 1..(n - 1) /\ i + 1 \in 1..Len(t) /\ (i + 1) - 1 = i
          /\ (i + 1) + 1 \in 1..n /\ ((i + 1) + 1) - 1 = i + 1 /\ i \in 0..Len(t)
      BY <1>1, <3>1
    <3> DEFINE r == rows[(i + 1) + 1]
    <3>3. t[i + 1] = r /\ r \in Row
      BY <1>1, <3>2
    <3>4. f[(i + 1) + 1] = IF s \in r.to THEN Append(f[i + 1], r) ELSE f[i + 1]
      BY <1>4, <3>2 DEF Distributes
    <3> HIDE DEF r
    <3>5. g[i + 1] = IF s \in r.to THEN Append(g[i], r) ELSE g[i]
      BY <1>5, <3>2, <3>3 DEF Distributes
    <3>6. g[i] \in Seq(Row)
      BY <1>5, <3>2 DEF Distributes
    <3>7. Append(h \o g[i], r) = h \o Append(g[i], r)
      BY <1>3, <3>3, <3>6, CatAppend
    <3>8. QED
      BY <3>1, <3>4, <3>5, <3>7
  <2>3. 0..(n - 1) \subseteq S
    <3> HIDE DEF S
    <3>1. 0 \in Nat /\ n - 1 \in Nat
      BY <1>1
    <3>2. QED
      BY <2>1, <2>2, <3>1, IntervalInduction
  <2>4. n - 1 \in 0..(n - 1) /\ (n - 1) + 1 = n
    BY <1>1
  <2>5. QED
    BY <2>3, <2>4
<1>7. QED
  BY <1>1, <1>4, <1>5, <1>6 DEF Distributes, t, h

---------------------------------------------------------------------------
(* The pipeline implements RowLog *)

LEMMA WaitingType ==
  ASSUME TypeOK, NEW l \in Lanes
  PROVE  /\ l[1] \in Kinds /\ l[2] \in Storages
         /\ busy[l] \in Seq(Row) /\ box[l] \in Seq(Row) /\ batch[l] \in Seq(Row)
         /\ stored[l] \in Seq(Row) /\ out[l[1]] \in Seq(Row)
         /\ InHand(l[1], l[2]) \in Seq(Row) /\ Routed(out[l[1]], l[2]) \in Seq(Row)
         /\ Upstream(l) \in Seq(Row) /\ Waiting(l) \in Seq(Row)
<1>1. l[1] \in Kinds /\ l[2] \in Storages
  BY LaneType
<1>2. /\ busy[l] \in Seq(Row) /\ box[l] \in Seq(Row) /\ batch[l] \in Seq(Row)
      /\ stored[l] \in Seq(Row) /\ out[l[1]] \in Seq(Row)
  BY <1>1 DEF TypeOK, FlowTypeOK, StoreTypeOK
<1>3. Routed(out[l[1]], l[2]) \in Seq(Row)
  BY <1>2, RoutedType
<1>4. InHand(l[1], l[2]) \in Seq(Row)
  <2>1. CASE item[l[1]] # NoRow
    <3>1. <<item[l[1]]>> \in Seq(Row)
      BY <1>1, <2>1 DEF TypeOK, FlowTypeOK
    <3>2. Routed(<<item[l[1]]>>, l[2]) \in Seq(Row)
      BY <3>1, RoutedType
    <3>3. <<>> \in Seq(Row)
      OBVIOUS
    <3>4. QED
      BY <3>2, <3>3 DEF InHand
  <2>2. CASE item[l[1]] = NoRow
    BY <2>2 DEF InHand
  <2>3. QED
    BY <2>1, <2>2
<1>5. Upstream(l) \in Seq(Row)
  BY <1>2, <1>3, <1>4 DEF Upstream
<1>6. Waiting(l) \in Seq(Row)
  BY <1>2, <1>5 DEF Waiting
<1>7. QED
  BY <1>1, <1>2, <1>3, <1>4, <1>5, <1>6

LEMMA BarShape ==
  /\ DOMAIN queueBar = Lanes /\ \A l \in Lanes : queueBar[l] = Waiting(l)
  /\ DOMAIN openBar = Lanes /\ \A l \in Lanes : openBar[l] = (l \in workers /\ l[1] \in batchers)
  BY DEF queueBar, openBar

\* Nothing waits or is stored that did not before: a stutter of the log.
LEMMA NothingHappens ==
  ASSUME stored' = stored, workers' = workers, batchers' = batchers,
         \A l \in Lanes : Waiting(l)' = Waiting(l)
  PROVE  UNCHANGED Log!vars
<1>1. queueBar' = queueBar /\ openBar' = openBar
  BY DEF queueBar, openBar
<1>2. QED
  BY <1>1 DEF Log!vars

\* A row joins the end of the lanes it is routed to that are still open ...
LEMMA SendGrows ==
  ASSUME TypeOK, NEW p \in Producers, Send(p), NEW r \in Row, r = held[p], NEW l \in Lanes
  PROVE  Waiting(l)' = IF l \in LanesOf(r) /\ l \in workers /\ l[1] \in batchers
                         THEN Append(Waiting(l), r) ELSE Waiting(l)
<1> DEFINE k  == l[1]
           s  == l[2]
           b  == busy[l] \o box[l]
           a  == batch[l] \o InHand(k, s)
           q  == Routed(out[k], s)
           q2 == Routed(out'[k], s)
<1>1. /\ r.kind \in Kinds /\ out' = [out EXCEPT ![r.kind] = Append(@, r)]
      /\ UNCHANGED <<batchers, workers, flow, box, busy>>
  BY DEF Send, Row
<1>2. /\ k \in Kinds /\ out[k] \in Seq(Row) /\ b \in Seq(Row) /\ a \in Seq(Row)
      /\ q \in Seq(Row)
  BY WaitingType
<1>3. /\ InHand(k, s)' = InHand(k, s) /\ workers' = workers /\ batchers' = batchers
      /\ busy' = busy /\ box' = box /\ batch' = batch
  BY <1>1 DEF InHand, flow
<1>4. /\ Waiting(l) = IF l \in workers THEN b \o (IF k \in batchers THEN a \o q ELSE <<>>)
                                       ELSE <<>>
      /\ Waiting(l)' = IF l \in workers THEN b \o (IF k \in batchers THEN a \o q2 ELSE <<>>)
                                        ELSE <<>>
  BY <1>3 DEF Waiting, Upstream
<1>5. q2 = IF l \in LanesOf(r) THEN Append(q, r) ELSE q
  <2>1. CASE k = r.kind
    <3>1. out'[k] = Append(out[k], r)
      BY <1>1, <1>2, <2>1 DEF TypeOK, FlowTypeOK
    <3>2. Routed(Append(out[k], r), s) = IF s \in r.to THEN Append(Routed(out[k], s), r)
                                                      ELSE Routed(out[k], s)
      BY <1>2, RoutedGrows
    <3>3. q2 = IF s \in r.to THEN Append(q, r) ELSE q
      BY <3>1, <3>2
    <3> QED
      BY <2>1, <3>3 DEF LanesOf
  <2>2. CASE k # r.kind
    <3>1. out'[k] = out[k]
      BY <1>1, <1>2, <2>2 DEF TypeOK, FlowTypeOK
    <3> QED
      BY <2>2, <3>1 DEF LanesOf
  <2> QED
    BY <2>1, <2>2
<1> HIDE DEF a, b, q, q2
<1>6. b \o (a \o Append(q, r)) = Append(b \o (a \o q), r)
  <2>1. a \o Append(q, r) = Append(a \o q, r) /\ a \o q \in Seq(Row)
    BY <1>2, CatAppend
  <2> QED
    BY <1>2, <2>1, CatAppend
<1> QED
  BY <1>4, <1>5, <1>6 DEF k

\* ... which accept it.
LEMMA SendAccepts ==
  ASSUME TypeOK, NEW p \in Producers, Send(p)
  PROVE  \E r \in Row : Log!Accept(r)
<1>1. PICK r \in Row : r = held[p]
  BY DEF Send, TypeOK, ProdTypeOK
<1>2. \A l \in Lanes : Waiting(l)' = IF l \in LanesOf(r) /\ l \in workers /\ l[1] \in batchers
                                       THEN Append(Waiting(l), r) ELSE Waiting(l)
  BY <1>1, SendGrows
<1>3. queueBar' = [l \in Lanes |-> IF l \in LanesOf(r) /\ openBar[l]
                                     THEN Append(queueBar[l], r) ELSE queueBar[l]]
  BY <1>2, BarShape DEF queueBar
<1>4. openBar' = openBar /\ stored' = stored
  BY DEF Send, openBar
<1> QED
  BY <1>1, <1>3, <1>4 DEF Log!Accept

\* The row at the head of the channel is in the batcher's hand for both lanes.
LEMMA ReceiveIsQuiet ==
  ASSUME TypeOK, NEW k \in Kinds, Receive(k)
  PROVE  UNCHANGED Log!vars
<1>1. /\ at[k] = "select" /\ out[k] # <<>>
      /\ item' = [item EXCEPT ![k] = Head(out[k])] /\ out' = [out EXCEPT ![k] = Tail(@)]
      /\ at' = [at EXCEPT ![k] = "terminal"]
      /\ UNCHANGED <<batchers, workers, batch, box, busy, stored>>
  BY DEF Receive, conn
<1>2. ASSUME NEW l \in Lanes PROVE Waiting(l)' = Waiting(l)
  <2>1. l[1] \in Kinds /\ l[2] \in Storages /\ out[l[1]] \in Seq(Row) /\ batch[l] \in Seq(Row)
    BY WaitingType
  <2>2. CASE l[1] # k
    <3>1. item'[l[1]] = item[l[1]] /\ at'[l[1]] = at[l[1]] /\ out'[l[1]] = out[l[1]]
      BY <1>1, <2>1, <2>2 DEF TypeOK, FlowTypeOK
    <3>2. QED
      BY <1>1, <3>1 DEF Waiting, Upstream, InHand
  <2>3. CASE l[1] = k
    <3>1. item'[k] = Head(out[k]) /\ at'[k] = "terminal" /\ out'[k] = Tail(out[k])
      BY <1>1 DEF TypeOK, FlowTypeOK
    <3>2. Head(out[k]) \in Row /\ Head(out[k]) # NoRow /\ Tail(out[k]) \in Seq(Row)
      BY <1>1, <2>1, <2>3, RowIsSomething
    <3>3. InHand(k, l[2]) = <<>> /\ InHand(k, l[2])' = Routed(<<Head(out[k])>>, l[2])
      BY <1>1, <2>1, <3>1, <3>2 DEF InHand
    <3>4. Routed(out[k], l[2]) = Routed(<<Head(out[k])>>, l[2]) \o Routed(Tail(out[k]), l[2])
      BY <1>1, <2>1, <2>3, RoutedSplits
    <3>5. /\ Routed(<<Head(out[k])>>, l[2]) \in Seq(Row)
          /\ Routed(Tail(out[k]), l[2]) \in Seq(Row)
      <4>1. <<Head(out[k])>> \in Seq(Row)
        BY <3>2
      <4>2. QED
        BY <3>2, <4>1, RoutedType
    <3>6. batch[l] \o <<>> \o Routed(out[k], l[2])
            = batch[l] \o Routed(<<Head(out[k])>>, l[2]) \o Routed(Tail(out[k]), l[2])
      <4>1. batch[l] \o <<>> = batch[l]
        BY <2>1, CatNothing
      <4>2. (batch[l] \o Routed(<<Head(out[k])>>, l[2])) \o Routed(Tail(out[k]), l[2])
              = batch[l] \o (Routed(<<Head(out[k])>>, l[2]) \o Routed(Tail(out[k]), l[2]))
        BY <2>1, <3>5, CatAssoc
      <4>3. QED
        BY <3>4, <4>1, <4>2
    <3>7. Upstream(l)' = Upstream(l)
      BY <1>1, <2>3, <3>1, <3>3, <3>6 DEF Upstream
    <3>8. QED
      BY <1>1, <3>7 DEF Waiting
  <2>4. QED
    BY <2>2, <2>3
<1>3. QED
  BY <1>1, <1>2, NothingHappens

LEMMA TimerIsQuiet ==
  ASSUME TypeOK, NEW k \in Kinds, TimerFires(k)
  PROVE  UNCHANGED Log!vars
<1>1. /\ at[k] = "select" /\ item' = [item EXCEPT ![k] = NoRow]
      /\ at' = [at EXCEPT ![k] = "terminal"]
      /\ UNCHANGED <<batchers, workers, out, batch, box, busy, stored>>
  BY DEF TimerFires, conn
<1>2. ASSUME NEW l \in Lanes PROVE InHand(l[1], l[2])' = InHand(l[1], l[2])
  <2>1. l[1] \in Kinds /\ l[2] \in Storages
    BY LaneType
  <2>2. CASE l[1] = k
    BY <1>1, <2>1, <2>2 DEF InHand, TypeOK, FlowTypeOK
  <2>3. CASE l[1] # k
    BY <1>1, <2>1, <2>3 DEF InHand, TypeOK, FlowTypeOK
  <2>4. QED
    BY <2>2, <2>3
<1>3. \A l \in Lanes : Waiting(l)' = Waiting(l)
  BY <1>1, <1>2 DEF Waiting, Upstream
<1>4. QED
  BY <1>1, <1>3, NothingHappens

\* A row goes from the hand into the batch, a batch into the empty box.
LEMMA ServeIsQuiet ==
  ASSUME TypeOK, NEW k \in Kinds, Serve(k)
  PROVE  UNCHANGED Log!vars
<1>0. PICK s \in Storages : s = at[k]
  BY DEF Serve, TypeOK, FlowTypeOK
<1>1. PICK r \in Row \cup {NoRow} : r = item[k]
  BY DEF TypeOK, FlowTypeOK
<1> DEFINE m == <<k, s>>
           b == IF r = NoRow THEN batch[m] ELSE Append(batch[m], r)
<1>2. /\ k \in batchers
      /\ IF m \in Lanes /\ (r # NoRow => s \in r.to)
           THEN \/ Flush(m, b)
                \/ batch' = [batch EXCEPT ![m] = b] /\ UNCHANGED box
           ELSE UNCHANGED <<batch, box>>
      /\ at' = [at EXCEPT ![k] = After(s)]
      /\ item' = IF s = "clickhouse" THEN [item EXCEPT ![k] = NoRow] ELSE item
      /\ UNCHANGED <<batchers, workers, out, busy, stored>>
  BY <1>0, <1>1 DEF Serve, conn
<1>3. DOMAIN at = Kinds /\ DOMAIN item = Kinds /\ DOMAIN batch = Lanes /\ DOMAIN box = Lanes
  BY DEF TypeOK, FlowTypeOK, StoreTypeOK
<1>4. at'[k] = After(s) /\ (s # "clickhouse" => item'[k] = r) /\ (s = "clickhouse" => item'[k] = NoRow)
      /\ \A j \in Kinds : j # k => at'[j] = at[j] /\ item'[j] = item[j]
  BY <1>1, <1>2, <1>3
<1> HIDE DEF b
<1>5. ASSUME NEW l \in Lanes, l # m PROVE Waiting(l)' = Waiting(l)
  <2>1. batch'[l] = batch[l] /\ box'[l] = box[l]
    BY <1>2, <1>3, <1>5 DEF Flush
  <2>2. InHand(l[1], l[2])' = InHand(l[1], l[2])
    <3>1. l[1] \in Kinds /\ l[2] \in Storages /\ (l[1] = k => l[2] # s)
      BY <1>5, LaneType
    <3>2. CASE l[1] # k
      BY <1>4, <3>1, <3>2 DEF InHand
    <3>3. CASE l[1] = k /\ s = "terminal"
      <4>1. at'[k] = "clickhouse" /\ item'[k] = item[k] /\ l[2] = "clickhouse"
        BY <1>1, <1>4, <3>1, <3>3 DEF After
      <4>2. QED
        BY <1>0, <3>3, <4>1 DEF InHand
    <3>4. CASE l[1] = k /\ s = "clickhouse"
      <4>1. item'[k] = NoRow /\ l[2] = "terminal"
        BY <1>4, <3>1, <3>4
      <4>2. QED
        BY <1>0, <3>4, <4>1 DEF InHand
    <3>5. QED
      BY <3>2, <3>3, <3>4
  <2>3. QED
    BY <1>2, <2>1, <2>2 DEF Waiting, Upstream
<1>6. ASSUME m \in Lanes PROVE Waiting(m)' = Waiting(m)
  <2> DEFINE h == InHand(k, s)
             q == Routed(out[k], s)
             w == busy[m]
             x == box[m]
             t == batch[m]
  <2>1. m[1] = k /\ m[2] = s
    OBVIOUS
  <2>2. t \in Seq(Row) /\ x \in Seq(Row) /\ w \in Seq(Row) /\ q \in Seq(Row) /\ h \in Seq(Row)
    BY <1>6, <2>1, WaitingType
  <2>3. InHand(k, s)' = <<>>
    BY <1>4 DEF InHand, After
  <2>4. h = IF r # NoRow /\ s \in r.to THEN <<r>> ELSE <<>>
    <3>1. r # NoRow => h = Routed(<<r>>, s)
      BY <1>0, <1>1 DEF InHand
    <3>2. r = NoRow => h = <<>>
      BY <1>1 DEF InHand
    <3>3. QED
      BY <3>1, <3>2, RoutedOne
  <2>5. /\ Waiting(m) = IF m \in workers THEN w \o x \o (t \o h \o q) ELSE <<>>
        /\ Waiting(m)' = IF m \in workers THEN w \o box'[m] \o (batch'[m] \o <<>> \o q) ELSE <<>>
    BY <1>2, <2>1, <2>3 DEF Waiting, Upstream
  <2> HIDE DEF h, q, w, x, t
  <2>6. CASE r # NoRow /\ s \notin r.to
    <3>1. batch'[m] = t /\ box'[m] = x /\ h = <<>>
      BY <1>2, <2>4, <2>6 DEF t, x
    <3>2. QED
      BY <2>5, <3>1
  <2>7. CASE r # NoRow => s \in r.to
    <3>1. b = t \o h /\ b \in Seq(Row)
      <4>1. CASE r = NoRow
        <5>1. h = <<>> /\ b = t
          BY <2>4, <4>1 DEF b, t
        <5>2. QED
          BY <2>2, <5>1, CatNothing
      <4>2. CASE r # NoRow
        <5>1. h = <<r>> /\ b = Append(t, r) /\ r \in Row
          BY <2>4, <2>7, <4>2 DEF b, t
        <5>2. QED
          BY <2>2, <5>1
      <4>3. QED
        BY <4>1, <4>2
    <3>2. CASE Flush(m, b)
      <4>1. x = <<>> /\ box'[m] = b /\ batch'[m] = <<>>
        BY <1>3, <1>6, <3>2 DEF Flush, x
      <4>2. w \o b \o (<<>> \o <<>> \o q) = w \o <<>> \o (b \o q)
        <5>1. <<>> \o <<>> = <<>> /\ <<>> \o q = q /\ w \o <<>> = w
          BY <2>2, CatNothing
        <5>2. w \in Seq(Row) /\ b \in Seq(Row) /\ q \in Seq(Row)
          BY <2>2, <3>1
        <5>3. (w \o b) \o q = w \o (b \o q)
          BY <5>2, CatAssoc
        <5>4. QED
          BY <5>1, <5>3
      <4>3. QED
        BY <2>5, <3>1, <4>1, <4>2
    <3>3. CASE batch' = [batch EXCEPT ![m] = b] /\ UNCHANGED box
      <4>1. box'[m] = x /\ batch'[m] = b
        BY <1>3, <1>6, <3>3 DEF x
      <4>2. b \o <<>> = b
        BY <3>1, CatNothing
      <4>3. QED
        BY <2>5, <3>1, <4>1, <4>2
    <3>4. QED
      BY <1>2, <1>6, <2>7, <3>2, <3>3
  <2>8. QED
    BY <2>6, <2>7
<1>7. \A l \in Lanes : Waiting(l)' = Waiting(l)
  BY <1>5, <1>6
<1>8. QED
  BY <1>2, <1>7, NothingHappens

\* The worker takes the batch out of the box.
LEMMA TakeIsQuiet ==
  ASSUME TypeOK, NEW m \in Lanes, Take(m)
  PROVE  UNCHANGED Log!vars
<1>1. /\ m \in workers /\ busy[m] = <<>>
      /\ busy' = [busy EXCEPT ![m] = box[m]] /\ box' = [box EXCEPT ![m] = <<>>]
      /\ UNCHANGED <<workers, batchers, out, at, item, batch, stored>>
  BY DEF Take, conn, flow
<1>2. \A l \in Lanes : Upstream(l)' = Upstream(l)
  BY <1>1 DEF Upstream, InHand
<1>3. ASSUME NEW l \in Lanes PROVE Waiting(l)' = Waiting(l)
  <2>1. CASE l # m
    <3>1. busy'[l] = busy[l] /\ box'[l] = box[l]
      BY <1>1, <2>1 DEF TypeOK, StoreTypeOK
    <3>2. QED
      BY <1>1, <1>2, <3>1 DEF Waiting
  <2>2. CASE l = m
    <3>1. busy'[m] = box[m] /\ box'[m] = <<>>
      BY <1>1 DEF TypeOK, StoreTypeOK
    <3>2. box[m] \o <<>> = <<>> \o box[m]
      BY WaitingType, CatNothing
    <3>3. /\ Waiting(m) = (busy[m] \o box[m]) \o Upstream(m)
          /\ Waiting(m)' = (busy'[m] \o box'[m]) \o Upstream(m)
      BY <1>1, <1>2 DEF Waiting
    <3>4. QED
      BY <1>1, <2>2, <3>1, <3>2, <3>3
  <2>3. QED
    BY <2>1, <2>2
<1>4. QED
  BY <1>1, <1>3, NothingHappens

\* What a worker has taken is the head of its lane's queue.
LEMMA BusyIsHead ==
  ASSUME TypeOK, NEW m \in Lanes, m \in workers
  PROVE  /\ SubSeq(queueBar[m], 1, Len(busy[m])) = busy[m]
         /\ SubSeq(queueBar[m], Len(busy[m]) + 1, Len(queueBar[m])) = box[m] \o Upstream(m)
         /\ Len(busy[m]) \in 0..Len(queueBar[m])
<1>1. busy[m] \in Seq(Row) /\ box[m] \in Seq(Row) /\ Upstream(m) \in Seq(Row)
  BY WaitingType
<1>2. box[m] \o Upstream(m) \in Seq(Row)
  BY <1>1
<1>3. queueBar[m] = busy[m] \o (box[m] \o Upstream(m))
  BY <1>1, BarShape, CatAssoc DEF Waiting
<1>4. PICK a \in Seq(Row), b \in Seq(Row) : a = busy[m] /\ b = box[m] \o Upstream(m)
  BY <1>1, <1>2
<1>5. PICK q : q = queueBar[m]
  OBVIOUS
<1>6. q = a \o b
  BY <1>3, <1>4, <1>5
<1>7. SubSeq(q, 1, Len(a)) = a /\ SubSeq(q, Len(a) + 1, Len(q)) = b /\ Len(a) \in 0..Len(q)
  BY <1>6, CatSplits
<1>8. QED
  BY <1>4, <1>5, <1>7

\* The storage takes a batch: the head of the queue.
LEMMA CommitStores ==
  ASSUME TypeOK, NEW m \in Lanes, Commit(m)
  PROVE  \E n \in 1..Len(queueBar[m]) : Log!Store(m, n)
<1>1. /\ m \in workers /\ busy[m] # <<>>
      /\ stored' = [stored EXCEPT ![m] = @ \o busy[m]] /\ busy' = [busy EXCEPT ![m] = <<>>]
      /\ UNCHANGED <<workers, batchers, out, at, item, batch, box>>
  BY DEF Commit, conn, flow
<1>2. \A l \in Lanes : Upstream(l)' = Upstream(l)
  BY <1>1 DEF Upstream, InHand
<1>3. PICK n : n = Len(busy[m])
  OBVIOUS
<1>4. /\ SubSeq(queueBar[m], 1, n) = busy[m]
      /\ SubSeq(queueBar[m], n + 1, Len(queueBar[m])) = box[m] \o Upstream(m)
      /\ n \in 0..Len(queueBar[m])
  BY <1>1, <1>3, BusyIsHead
<1>5. n \in 1..Len(queueBar[m])
  <2>1. busy[m] \in Seq(Row)
    BY WaitingType
  <2>2. n # 0
    BY <1>1, <1>3, <2>1
  <2>3. QED
    BY <1>4, <2>2
<1>6. Waiting(m)' = box[m] \o Upstream(m)
  <2>1. busy'[m] = <<>> /\ box'[m] = box[m] /\ <<>> \o box[m] = box[m]
    BY <1>1, WaitingType, CatNothing DEF TypeOK, StoreTypeOK
  <2>2. QED
    BY <1>1, <1>2, <2>1 DEF Waiting
<1>7. \A l \in Lanes : l # m => Waiting(l)' = Waiting(l)
  <2>1. \A l \in Lanes : l # m => busy'[l] = busy[l]
    BY <1>1 DEF TypeOK, StoreTypeOK
  <2>2. QED
    BY <1>1, <1>2, <2>1 DEF Waiting
<1>8. queueBar' = [queueBar EXCEPT ![m] = SubSeq(@, n + 1, Len(@))]
  BY <1>4, <1>6, <1>7 DEF queueBar
<1>9. stored' = [stored EXCEPT ![m] = @ \o SubSeq(queueBar[m], 1, n)]
  BY <1>1, <1>4
<1>10. openBar' = openBar
  BY <1>1 DEF openBar
<1>11. QED
  BY <1>5, <1>8, <1>9, <1>10 DEF Log!Store

\* An insert ends in an error, whether the batch is stored or not: the lane
\* is closed and what waits for it is lost.
LEMMA CommitFailsBreaks ==
  ASSUME TypeOK, NEW m \in Lanes, CommitFails(m)
  PROVE  \E n \in 0..Len(queueBar[m]) : Log!Break(m, n)
<1>1. /\ m \in workers /\ stored' \in {stored, [stored EXCEPT ![m] = @ \o busy[m]]}
      /\ busy' = [busy EXCEPT ![m] = <<>>] /\ workers' = workers \ {m}
      /\ UNCHANGED <<batchers, out, at, item, batch, box>>
  BY DEF CommitFails, flow
<1>2. \A l \in Lanes : Upstream(l)' = Upstream(l)
  BY <1>1 DEF Upstream, InHand
<1>3. queueBar' = [queueBar EXCEPT ![m] = <<>>]
  <2>1. Waiting(m)' = <<>>
    BY <1>1 DEF Waiting
  <2>2. \A l \in Lanes : l # m => busy'[l] = busy[l] /\ (l \in workers' <=> l \in workers)
    BY <1>1 DEF TypeOK, StoreTypeOK
  <2>3. \A l \in Lanes : l # m => Waiting(l)' = Waiting(l)
    BY <1>1, <1>2, <2>2 DEF Waiting
  <2>4. QED
    BY <2>1, <2>3 DEF queueBar
<1>4. openBar' = [openBar EXCEPT ![m] = FALSE]
  BY <1>1 DEF openBar
<1>5. CASE stored' = stored
  <2>1. stored[m] \in Seq(Row) /\ Waiting(m) \in Seq(Row)
    BY WaitingType
  <2>2. SubSeq(queueBar[m], 1, 0) = <<>> /\ 0 \in 0..Len(queueBar[m])
    BY <2>1, BarShape
  <2>3. stored' = [stored EXCEPT ![m] = @ \o SubSeq(queueBar[m], 1, 0)]
    BY <1>5, <2>1, <2>2, CatNothing DEF TypeOK, StoreTypeOK
  <2>4. QED
    BY <1>3, <1>4, <2>2, <2>3 DEF Log!Break
<1>6. CASE stored' = [stored EXCEPT ![m] = @ \o busy[m]]
  <2>1. PICK n : n = Len(busy[m])
    OBVIOUS
  <2>2. SubSeq(queueBar[m], 1, n) = busy[m] /\ n \in 0..Len(queueBar[m])
    BY <1>1, <2>1, BusyIsHead
  <2>3. QED
    BY <1>3, <1>4, <1>6, <2>2 DEF Log!Break
<1>7. QED
  BY <1>1, <1>5, <1>6

\* A lane whose queue keeps its head, or nothing, is closed.
LEMMA PrefixOf ==
  ASSUME NEW a \in Seq(Row), NEW b \in Seq(Row)
  PROVE  Log!IsPrefix(a, a \o b) /\ Log!IsPrefix(<<>>, a)
  BY DEF Log!IsPrefix

LEMMA WorkerExitCloses ==
  ASSUME TypeOK, NEW m \in Lanes, WorkerExit(m)
  PROVE  \E L \in SUBSET Lanes : Log!Close(L)
<1>1. /\ workers' = workers \ {m}
      /\ UNCHANGED <<batchers, out, at, item, batch, box, busy, stored>>
  BY DEF WorkerExit, flow
<1>2. \A l \in Lanes : Upstream(l)' = Upstream(l)
  BY <1>1 DEF Upstream, InHand
<1>3. Waiting(m)' = <<>> /\ \A l \in Lanes : l # m => Waiting(l)' = Waiting(l)
  BY <1>1, <1>2 DEF Waiting
<1>4. DOMAIN queueBar' = Lanes /\ \A l \in Lanes : queueBar'[l] = Waiting(l)'
  BY DEF queueBar
<1>5. openBar' = [l \in Lanes |-> openBar[l] /\ l \notin {m}]
  BY <1>1 DEF openBar
<1>6. Log!IsPrefix(<<>>, queueBar[m])
  BY WaitingType, BarShape, PrefixOf
<1>7. Log!Close({m})
  BY <1>1, <1>3, <1>4, <1>5, <1>6, BarShape DEF Log!Close
<1>8. QED
  BY <1>7

\* The end of the queue of both lanes goes with the batcher.
LEMMA BatcherExitCloses ==
  ASSUME TypeOK, NEW k \in Kinds, BatcherExit(k)
  PROVE  \E L \in SUBSET Lanes : Log!Close(L)
<1> DEFINE L == {l \in Lanes : l[1] = k}
<1>1. /\ batchers' = batchers \ {k}
      /\ UNCHANGED <<workers, out, at, item, batch, box, busy, stored>>
  BY DEF BatcherExit, flow
<1>2. \A l \in Lanes : l \notin L => Waiting(l)' = Waiting(l)
  BY <1>1 DEF Waiting, Upstream, InHand
<1>3. ASSUME NEW l \in L PROVE Log!IsPrefix(Waiting(l)', Waiting(l))
  <2>1. /\ busy[l] \in Seq(Row) /\ box[l] \in Seq(Row) /\ Upstream(l) \in Seq(Row)
        /\ busy[l] \o box[l] \in Seq(Row) /\ <<>> \in Seq(Row)
    BY WaitingType
  <2>2. Upstream(l)' = <<>> /\ (busy[l] \o box[l]) \o <<>> = busy[l] \o box[l]
    BY <1>1, <2>1, CatNothing DEF Upstream
  <2>3. CASE l \in workers
    BY <1>1, <2>1, <2>2, <2>3, PrefixOf DEF Waiting
  <2>4. CASE l \notin workers
    BY <1>1, <2>1, <2>4, PrefixOf DEF Waiting
  <2>5. QED
    BY <2>3, <2>4
<1>4. DOMAIN queueBar' = Lanes /\ \A l \in Lanes : queueBar'[l] = Waiting(l)'
  BY DEF queueBar
<1>5. openBar' = [l \in Lanes |-> openBar[l] /\ l \notin L]
  BY <1>1 DEF openBar
<1>6. Log!Close(L)
  BY <1>1, <1>2, <1>3, <1>4, <1>5, BarShape DEF Log!Close
<1>7. QED
  BY <1>6

LEMMA ReconnectReopens ==
  ASSUME Reconnect
  PROVE  Log!Reopen
<1>1. /\ batchers' = Batchers /\ workers' = Lanes /\ stored' = stored
      /\ out' = [k \in Kinds |-> <<>>] /\ item' = [k \in Kinds |-> NoRow]
      /\ batch' = [l \in Lanes |-> <<>>] /\ box' = [l \in Lanes |-> <<>>]
      /\ busy' = [l \in Lanes |-> <<>>]
  BY DEF Reconnect
<1>2. ASSUME NEW l \in Lanes PROVE Waiting(l)' = <<>>
  <2>1. l[1] \in Kinds /\ out'[l[1]] = <<>> /\ item'[l[1]] = NoRow
    BY <1>1, LaneType
  <2>2. InHand(l[1], l[2])' = <<>> /\ Routed(out'[l[1]], l[2]) = <<>>
    BY <2>1, RoutedNothing DEF InHand
  <2>3. <<>> \o <<>> = <<>>
    OBVIOUS
  <2>4. Upstream(l)' = <<>>
    BY <1>1, <2>2, <2>3 DEF Upstream
  <2>5. QED
    BY <1>1, <2>3, <2>4 DEF Waiting
<1>3. queueBar' = [l \in Lanes |-> <<>>]
  BY <1>2 DEF queueBar
<1>4. openBar' = [l \in Lanes |-> TRUE]
  BY <1>1 DEF openBar, Batchers
<1>5. QED
  BY <1>1, <1>3, <1>4 DEF Log!Reopen

LEMMA StepImplementsRowLog == TypeOK /\ [Next]_vars => [Log!Next]_(Log!vars)
<1> SUFFICES ASSUME TypeOK, [Next]_vars PROVE Log!Next \/ UNCHANGED Log!vars
  OBVIOUS
<1>1. ASSUME UNCHANGED <<workers, batchers, out, at, item, batch, box, busy, stored>>
      PROVE  UNCHANGED Log!vars
  <2>1. \A l \in Lanes : Waiting(l)' = Waiting(l)
    BY <1>1 DEF Waiting, Upstream, InHand
  <2>2. QED
    BY <1>1, <2>1, NothingHappens
<1>2. ASSUME NEW p \in Producers, Stamp(p) \/ EndFrame(p) \/ ProducerExit(p)
      PROVE  UNCHANGED Log!vars
  BY <1>1, <1>2 DEF Stamp, EndFrame, ProducerExit, conn, flow
<1>3. ASSUME NEW p \in Producers, Send(p) PROVE Log!Next
  BY <1>3, SendAccepts DEF Log!Next
<1>4. ASSUME NEW k \in Kinds, Receive(k) \/ TimerFires(k) \/ Serve(k)
      PROVE  UNCHANGED Log!vars
  BY <1>4, ReceiveIsQuiet, TimerIsQuiet, ServeIsQuiet
<1>5. ASSUME NEW k \in Kinds, BatcherExit(k) PROVE Log!Next
  BY <1>5, BatcherExitCloses DEF Log!Next
<1>6. ASSUME NEW l \in Lanes, Take(l) PROVE UNCHANGED Log!vars
  BY <1>6, TakeIsQuiet
<1>7. ASSUME NEW l \in Lanes, Commit(l) PROVE Log!Next
  BY <1>7, CommitStores DEF Log!Next
<1>8. ASSUME NEW l \in Lanes, CommitFails(l) PROVE Log!Next
  BY <1>8, CommitFailsBreaks DEF Log!Next
<1>9. ASSUME NEW l \in Lanes, WorkerExit(l) PROVE Log!Next
  BY <1>9, WorkerExitCloses DEF Log!Next
<1>10. CASE ReadFails \/ GroupCancelled \/ CloseConn
  BY <1>1, <1>10 DEF ReadFails, GroupCancelled, CloseConn, flow
<1>11. CASE Reconnect
  BY <1>11, ReconnectReopens DEF Log!Next
<1>12. CASE GiveUp \/ UNCHANGED vars
  BY <1>1, <1>12 DEF GiveUp, vars
<1>13. QED
  BY <1>2, <1>3, <1>4, <1>5, <1>6, <1>7, <1>8, <1>9, <1>10, <1>11, <1>12 DEF Next

LEMMA InitImplementsRowLog == Init => Log!Init
<1> SUFFICES ASSUME Init PROVE Log!Init
  OBVIOUS
<1>1. ASSUME NEW l \in Lanes PROVE Waiting(l) = <<>>
  <2>1. l[1] \in Kinds /\ out[l[1]] = <<>> /\ item[l[1]] = NoRow
    BY LaneType DEF Init
  <2>2. InHand(l[1], l[2]) = <<>> /\ Routed(out[l[1]], l[2]) = <<>>
    BY <2>1, RoutedNothing DEF InHand
  <2>3. <<>> \o <<>> = <<>>
    OBVIOUS
  <2>4. Upstream(l) = <<>>
    BY <2>2, <2>3 DEF Init, Upstream
  <2>5. QED
    BY <2>3, <2>4 DEF Init, Waiting
<1>2. queueBar = [l \in Lanes |-> <<>>]
  BY <1>1 DEF queueBar
<1>3. openBar = [l \in Lanes |-> TRUE]
  BY DEF Init, openBar, Batchers
<1>4. QED
  BY <1>2, <1>3 DEF Init, Log!Init

\* However batchers, timers, commit workers and failures interleave, a storage
\* receives consecutive runs of what its lane has accepted, and a connector
\* that fails loses the end of the queue, never its middle.
THEOREM ImplementsRowLogHolds == Spec => ImplementsRowLog
<1>1. Init => Log!Init
  BY InitImplementsRowLog
<1>2. TypeOK /\ [Next]_vars => [Log!Next]_(Log!vars)
  BY StepImplementsRowLog
<1>3. QED
  BY <1>1, <1>2, TypeCorrect, PTL DEF Spec, ImplementsRowLog, Log!Spec

---------------------------------------------------------------------------
(* A connector that lives loses nothing *)

\* No goroutine of the errgroup returns before its context is done.
StopTogether == ~cancelled => procs = AllProcs /\ batchers = Batchers /\ workers = Lanes

\* No reader, batcher or commit worker is ever missing from a connector that
\* has not been cancelled: rows are not left in a channel nobody reads.
THEOREM StopTogetherHolds == Spec => []StopTogether
<1>1. Init => StopTogether
  BY DEF Init, StopTogether
<1>2. StopTogether /\ [Next]_vars => StopTogether'
  <2> SUFFICES ASSUME StopTogether, [Next]_vars PROVE StopTogether'
    OBVIOUS
  <2> USE DEF StopTogether
  <2>1. ASSUME NEW p \in Producers, Stamp(p) \/ Send(p) \/ EndFrame(p) \/ ProducerExit(p)
        PROVE  StopTogether'
    BY <2>1 DEF Stamp, Send, EndFrame, ProducerExit, LoopHead, conn
  <2>2. ASSUME NEW k \in Kinds, Receive(k) \/ TimerFires(k) \/ Serve(k) \/ BatcherExit(k)
        PROVE  StopTogether'
    BY <2>2 DEF Receive, TimerFires, Serve, BatcherExit, conn
  <2>3. ASSUME NEW l \in Lanes, Take(l) \/ Commit(l) \/ CommitFails(l) \/ WorkerExit(l)
        PROVE  StopTogether'
    <3>1. CASE Take(l) \/ Commit(l)
      BY <3>1 DEF Take, Commit, conn
    <3>2. CASE CommitFails(l)
      <4>1. cancelled'
        BY <3>2 DEF CommitFails
      <4> QED
        BY <4>1
    <3>3. CASE WorkerExit(l)
      BY <3>3 DEF WorkerExit
    <3> QED
      BY <2>3, <3>1, <3>2, <3>3
  <2>4. CASE ReadFails \/ GroupCancelled \/ CloseConn \/ Reconnect
    BY <2>4 DEF ReadFails, GroupCancelled, CloseConn, Reconnect
  <2>5. CASE GiveUp \/ UNCHANGED vars
    BY <2>5 DEF GiveUp, vars
  <2> QED
    BY <2>1, <2>2, <2>3, <2>4, <2>5 DEF Next
<1> QED
  BY <1>1, <1>2, PTL DEF Spec

\* What a step of a living connector may do to what l has accepted.
AcceptsAsSent(l) ==
  \/ /\ Accepted(l)' = Accepted(l)
     /\ \A p \in Producers : Leaves(p) => l \notin LanesOf(held[p])
  \/ \E p \in Producers : /\ Leaves(p) /\ l \in LanesOf(held[p])
                          /\ Accepted(l)' = Append(Accepted(l), held[p])

LEMMA QuietKeeps ==
  ASSUME UNCHANGED Log!vars, \A p \in Producers : ~Leaves(p), NEW l \in Lanes
  PROVE  AcceptsAsSent(l)
<1>1. queueBar' = queueBar /\ stored' = stored
  BY DEF Log!vars
<1>2. queueBar[l] = Waiting(l) /\ queueBar'[l] = Waiting(l)'
  BY DEF queueBar
<1> QED
  BY <1>1, <1>2 DEF AcceptsAsSent, Accepted

LEMMA SendKeeps ==
  ASSUME TypeOK, StopTogether, ~cancelled, NEW p \in Producers, Send(p), NEW l \in Lanes
  PROVE  AcceptsAsSent(l)
<1>1. PICK r \in Row : r = held[p]
  BY DEF Send, TypeOK, ProdTypeOK
<1>2. /\ held' = [held EXCEPT ![p] = NoRow] /\ stored' = stored
      /\ \A q \in Producers : Leaves(q) => q = p
      /\ Leaves(p)
  BY <1>1, RowIsSomething DEF Send, Leaves, TypeOK, ProdTypeOK
<1>3. l \in workers /\ l[1] \in batchers
  BY DEF StopTogether, Batchers
<1>4. Waiting(l)' = IF l \in LanesOf(r) THEN Append(Waiting(l), r) ELSE Waiting(l)
  BY <1>1, <1>3, SendGrows
<1>5. CASE l \in LanesOf(r)
  <2>1. stored[l] \in Seq(Row) /\ Waiting(l) \in Seq(Row)
    BY WaitingType
  <2>2. Append(stored[l] \o Waiting(l), r) = stored[l] \o Append(Waiting(l), r)
    BY <2>1, CatAppend
  <2>3. Accepted(l)' = Append(Accepted(l), r)
    BY <1>2, <1>4, <1>5, <2>2 DEF Accepted
  <2> QED
    BY <1>1, <1>2, <1>5, <2>3 DEF AcceptsAsSent
<1>6. CASE l \notin LanesOf(r)
  BY <1>1, <1>2, <1>4, <1>6 DEF AcceptsAsSent, Accepted
<1> QED
  BY <1>5, <1>6

LEMMA CommitKeeps ==
  ASSUME TypeOK, NEW m \in Lanes, Commit(m), NEW l \in Lanes
  PROVE  AcceptsAsSent(l)
<1>1. /\ m \in workers /\ workers' = workers /\ held' = held
      /\ stored' = [stored EXCEPT ![m] = @ \o busy[m]] /\ busy' = [busy EXCEPT ![m] = <<>>]
      /\ UNCHANGED <<batchers, out, at, item, batch, box>>
  BY DEF Commit, conn, flow, prod
<1>2. Upstream(l)' = Upstream(l)
  BY <1>1 DEF Upstream, InHand
<1>3. Accepted(l)' = Accepted(l)
  <2>1. CASE l # m
    <3>1. stored'[l] = stored[l] /\ busy'[l] = busy[l]
      BY <1>1, <2>1 DEF TypeOK, StoreTypeOK
    <3>2. Waiting(l)' = Waiting(l)
      BY <1>1, <1>2, <3>1 DEF Waiting
    <3> QED
      BY <3>1, <3>2 DEF Accepted
  <2>2. CASE l = m
    <3>1. PICK s \in Seq(Row), w \in Seq(Row), b \in Seq(Row), u \in Seq(Row) :
            s = stored[m] /\ w = busy[m] /\ b = box[m] /\ u = Upstream(m)
      BY WaitingType
    <3>2. stored'[m] = s \o w /\ busy'[m] = <<>> /\ box'[m] = b /\ Upstream(m)' = u
      BY <1>1, <1>2, <2>2, <3>1 DEF TypeOK, StoreTypeOK
    <3>3. Accepted(m) = s \o ((w \o b) \o u) /\ Accepted(m)' = (s \o w) \o ((<<>> \o b) \o u)
      BY <1>1, <3>1, <3>2 DEF Accepted, Waiting
    <3>4. <<>> \o b = b /\ (w \o b) \o u = w \o (b \o u) /\ b \o u \in Seq(Row)
      BY CatNothing, CatAssoc
    <3>5. (s \o w) \o (b \o u) = s \o (w \o (b \o u))
      BY <3>4, CatAssoc
    <3> QED
      BY <2>2, <3>3, <3>4, <3>5
  <2> QED
    BY <2>1, <2>2
<1> QED
  BY <1>1, <1>3 DEF AcceptsAsSent, Leaves

\* While the context is not done, what a lane has accepted is neither lost nor
\* doubled nor moved between producer and storage, and every row sent enters
\* each lane it is routed to, once and at the end.
THEOREM AliveLosesNothingHolds == Spec => AliveLosesNothing
<1>1. TypeOK /\ StopTogether /\ [Next]_vars
        => [~cancelled' /\ session' = session => \A l \in Lanes : AcceptsAsSent(l)]_vars
  <2> SUFFICES ASSUME TypeOK, StopTogether, Next, ~cancelled', session' = session, NEW l \in Lanes
               PROVE  AcceptsAsSent(l) \/ UNCHANGED vars
    OBVIOUS
  <2>1. ASSUME UNCHANGED <<workers, batchers, out, at, item, batch, box, busy, stored>>
        PROVE  UNCHANGED Log!vars
    <3>1. \A m \in Lanes : Waiting(m)' = Waiting(m)
      BY <2>1 DEF Waiting, Upstream, InHand
    <3> QED
      BY <2>1, <3>1, NothingHappens
  <2>2. ASSUME NEW p \in Producers, Send(p) PROVE AcceptsAsSent(l)
    <3>1. cancelled' = cancelled
      BY <2>2 DEF Send
    <3> QED
      BY <2>2, <3>1, SendKeeps
  <2>3. ASSUME NEW p \in Producers, Stamp(p) \/ EndFrame(p) PROVE AcceptsAsSent(l)
    <3>1. UNCHANGED <<workers, batchers, out, at, item, batch, box, busy, stored>>
      BY <2>3 DEF Stamp, EndFrame, conn, flow
    <3>2. \A q \in Producers : ~Leaves(q)
      <4>1. CASE EndFrame(p)
        BY <4>1 DEF EndFrame, Leaves
      <4>2. CASE Stamp(p)
        <5>1. p \in Producers /\ held[p] = NoRow /\ \A q \in Producers : q # p => held'[q] = held[q]
          BY <4>2 DEF Stamp, TypeOK, ProdTypeOK
        <5> QED
          BY <5>1 DEF Leaves
      <4> QED
        BY <2>3, <4>1, <4>2
    <3> QED
      BY <2>1, <3>1, <3>2, QuietKeeps
  <2>4. ASSUME NEW p \in Producers, ProducerExit(p) PROVE FALSE
    BY <2>4 DEF ProducerExit
  <2>5. ASSUME NEW k \in Kinds, Receive(k) \/ TimerFires(k) \/ Serve(k) PROVE AcceptsAsSent(l)
    <3>1. UNCHANGED Log!vars
      BY <2>5, ReceiveIsQuiet, TimerIsQuiet, ServeIsQuiet
    <3>2. \A q \in Producers : ~Leaves(q)
      BY <2>5 DEF Receive, TimerFires, Serve, prod, Leaves
    <3> QED
      BY <3>1, <3>2, QuietKeeps
  <2>6. ASSUME NEW k \in Kinds, BatcherExit(k) PROVE FALSE
    BY <2>6 DEF BatcherExit
  <2>7. ASSUME NEW m \in Lanes, Take(m) PROVE AcceptsAsSent(l)
    <3>1. UNCHANGED Log!vars
      BY <2>7, TakeIsQuiet
    <3>2. \A q \in Producers : ~Leaves(q)
      BY <2>7 DEF Take, prod, Leaves
    <3> QED
      BY <3>1, <3>2, QuietKeeps
  <2>8. ASSUME NEW m \in Lanes, Commit(m) PROVE AcceptsAsSent(l)
    BY <2>8, CommitKeeps
  <2>9. ASSUME NEW m \in Lanes PROVE ~CommitFails(m) /\ ~WorkerExit(m)
    <3>1. CommitFails(m) => cancelled'
      BY DEF CommitFails
    <3>2. WorkerExit(m) => cancelled'
      BY DEF WorkerExit
    <3> QED
      BY <3>1, <3>2
  <2>10. ~ReadFails /\ ~GroupCancelled /\ ~CloseConn
    BY DEF ReadFails, GroupCancelled, CloseConn
  <2>11. ~Reconnect
    BY DEF Reconnect, TypeOK, ConnTypeOK
  <2>12. CASE GiveUp
    BY <2>12 DEF GiveUp
  <2> QED
    BY <2>2, <2>3, <2>4, <2>5, <2>6, <2>7, <2>8, <2>9, <2>10, <2>11, <2>12 DEF Next
<1>2. AliveLosesNothing <=>
        [][~cancelled' /\ session' = session => \A l \in Lanes : AcceptsAsSent(l)]_vars
  BY DEF AliveLosesNothing, AcceptsAsSent
<1> QED
  BY <1>1, <1>2, TypeCorrect, StopTogetherHolds, PTL DEF Spec
===========================================================================
