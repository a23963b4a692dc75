------------------------- MODULE ByBitBookProofs -------------------------
(***************************************************************************)
(* CacheFollows, ReplayFollows and QuoteFollows, for any levels, books and *)
(* connectors.  ReplayFollows is not inductive: whether the reader's book  *)
(* survives the next change depends on how far readWs is ahead of the      *)
(* tables (Near), and a copy of the cached book must keep its place until  *)
(* it is stored.  QuoteFollows is, with the shape of the state; its proof  *)
(* is about what a frame says of a side: the entries of a delta come in    *)
(* either order, and between two frames the quote has not changed.         *)
(***************************************************************************)
EXTENDS ByBitBook, FiniteSetTheorems, WellFoundedInduction, TLAPS

Gap == "ordersbook" \in skipped

\* Version v is where readWs is, or where it was before the change in hand;
\* with a snapshot in hand or behind a dropped frame it does not matter.
Near(v) ==
  \/ Gap \/ row = "book"
  \/ row = "none" /\ v = pos["ordersbook"]
  \/ row = "change" /\ v \in {pos["ordersbook"] - 1, pos["ordersbook"]}

Version(v) == v \in 1..Len(past)

\* A row is about a version, a change about one that follows another.
ChangeHasBase ==
  /\ row # "none" => pos["ordersbook"] >= 1
  /\ row = "change" => pos["ordersbook"] >= 2

\* A copy without a gap is a book of the exchange, and no row of readWs has
\* passed it unless it is marked.
CopyHolds ==
  copy # None /\ copy.book # None =>
    /\ cache # None
    /\ ~copy.gap => /\ Version(copy.v) /\ copy.book = past[copy.v]
                    /\ AsksOf(copy.book) # {} /\ ~overtaken => Near(copy.v)

\* The reader's book is a book of the exchange that the next row fits.
ViewHolds ==
  view # None /\ ~astray =>
    /\ Version(last) /\ view = past[last]
    /\ cache # None => Near(last)

Typed   == TypeOK /\ ChangeHasBase
Follows == Typed /\ CacheFollows /\ CopyHolds /\ ViewHolds

\* A delta turns the book before it, and the book after it, into the latter.
LEMMA DeltaFits ==
  ASSUME NEW old \in Book, NEW new \in Book
  PROVE  Merge(old, Delta(old, new)) = new /\ Merge(new, Delta(old, new)) = new
  BY DEF Merge, Delta, Book

LEMMA MergeType ==
  ASSUME NEW old \in Book, NEW new \in Book, NEW book \in Book
  PROVE  Merge(book, Delta(old, new)) \in Book
  BY DEF Merge, Delta, Book

LEMMA BookIsNotNone == \A b \in Book : b # None
  BY NoneAssumption

LEMMA BoundsArePositive ==
  MaxSize \in Nat /\ MaxSize >= 1 /\ MaxSessions \in Nat /\ MaxSessions >= 1
  BY ByBitBoundsAssumption

LEMMA InitFollows == Init => Follows
<1> SUFFICES ASSUME Init PROVE Follows
  OBVIOUS
<1>1. [l \in Levels |-> 1] \in Book
  BY BoundsArePositive DEF Book
<1>2. past \in Seq(Book) /\ Len(past) = 1
  BY <1>1 DEF Init
<1>3. session \in 1..MaxSessions
  BY BoundsArePositive DEF Init
<1>4. ConnectorTypeOK
  BY <1>3 DEF Init, ConnectorTypeOK
<1>5. pos \in [Channels -> Nat] /\ \A c \in Channels : pos[c] <= Len(past)
  BY <1>2 DEF Init
<1>6. /\ row = "none" /\ cache = None /\ quote = None /\ copy = None /\ view = None
      /\ ver = 0 /\ last = 0 /\ skipped = {} /\ overtaken = FALSE /\ astray = FALSE
  BY DEF Init
<1>7. BookTypeOK
  <2>1. skipped \subseteq Channels /\ overtaken \in BOOLEAN /\ astray \in BOOLEAN
    BY <1>6
  <2>2. /\ Has(cache) /\ Has(view) /\ ver \in Nat /\ last \in Nat
        /\ row \in {"none", "book", "change"}
    BY <1>6 DEF Has
  <2> QED
    BY <1>2, <1>5, <1>6, <2>1, <2>2 DEF BookTypeOK
<1>8. ChangeHasBase
  BY <1>6 DEF ChangeHasBase
<1> QED
  BY <1>4, <1>7, <1>8 DEF Init, Follows, Typed, TypeOK, CacheFollows, CopyHolds, ViewHolds

\* The shape of the state is kept.
LEMMA StepTyped == Typed /\ [Next]_vars => Typed'
<1> SUFFICES ASSUME Typed, [Next]_vars PROVE Typed'
  OBVIOUS
<1> USE DEF Typed, TypeOK
<1>1. CASE ExchangeChanges
  <2>1. PICK b \in Book : past' = Append(past, b)
    BY <1>1 DEF ExchangeChanges
  <2>2. past' \in Seq(Book) /\ Len(past') = Len(past) + 1
    BY <2>1 DEF BookTypeOK
  <2>3. UNCHANGED <<session, group, reading, copy, tables, history>>
    BY <1>1 DEF ExchangeChanges
  <2> QED
    BY <2>2, <2>3 DEF ConnectorTypeOK, BookTypeOK, ChangeHasBase, group, reading, tables, history
<1>2. CASE Connect
  <2>1. ConnectorTypeOK'
    BY <1>2 DEF Connect, ConnectorTypeOK, group, reading, tables, history
  <2>2. BookTypeOK' /\ ChangeHasBase'
    BY <1>2, BookIsNotNone DEF Connect, ConnectorTypeOK, BookTypeOK, ChangeHasBase, Has, Channels,
           group, reading, tables, history
  <2> QED
    BY <2>1, <2>2
<1>3. CASE \E c \in Channels : Subscribe(c)
  <2>1. ConnectorTypeOK'
    <3>1. PICK c \in Channels : fed' = fed \cup {c}
      BY <1>3 DEF Subscribe
    <3>2. conn = "open" /\ UNCHANGED <<session, failed, procs, conn>>
      BY <1>3 DEF Subscribe
    <3> QED
      BY <3>1, <3>2 DEF ConnectorTypeOK
  <2>2. BookTypeOK' /\ ChangeHasBase'
    BY <1>3, BookIsNotNone DEF Subscribe, ConnectorTypeOK, BookTypeOK, ChangeHasBase, Has,
           Channels, group, reading, tables, history
  <2> QED
    BY <2>1, <2>2
<1>4. CASE GroupFails
  <2>1. ConnectorTypeOK'
    BY <1>4 DEF GroupFails, ConnectorTypeOK, group, reading, tables, history
  <2>2. BookTypeOK' /\ ChangeHasBase'
    BY <1>4, BookIsNotNone DEF GroupFails, ConnectorTypeOK, BookTypeOK, ChangeHasBase, Has,
           Channels, group, reading, tables, history
  <2> QED
    BY <2>1, <2>2
<1>5. CASE CloseConn
  <2>1. ConnectorTypeOK'
    BY <1>5 DEF CloseConn, Exit, ConnectorTypeOK, group, reading, tables, history
  <2>2. BookTypeOK' /\ ChangeHasBase'
    BY <1>5, BookIsNotNone DEF CloseConn, Exit, ConnectorTypeOK, BookTypeOK, ChangeHasBase, Has,
           Channels, group, reading, tables, history
  <2> QED
    BY <2>1, <2>2
<1>6. CASE Reconnect
  <2>1. ConnectorTypeOK'
    <3>1. session' \in 1..MaxSessions
      BY <1>6, BoundsArePositive DEF Reconnect, ConnectorTypeOK
    <3> QED
      BY <1>6, <3>1 DEF Reconnect, ConnectorTypeOK
  <2>2. BookTypeOK' /\ ChangeHasBase'
    BY <1>6 DEF Reconnect, ConnectorTypeOK, BookTypeOK, ChangeHasBase, Has, Channels, group,
           reading, tables, history
  <2> QED
    BY <2>1, <2>2
<1>7. CASE ReadSnapshot
  <2>1. ConnectorTypeOK'
    BY <1>7 DEF ReadSnapshot, Arrives, Skip, ConnectorTypeOK, group, reading, tables, history
  <2>2. BookTypeOK' /\ ChangeHasBase'
    <3>1. PICK v \in {pos["ordersbook"], pos["ordersbook"] + 1} :
            /\ cache = None => v > pos["ordersbook"]
            /\ Arrives("ordersbook", v)
            /\ \/ cache # None /\ Skip("ordersbook")
               \/ /\ cache' = past[v] /\ ver' = v /\ row' = "book"
                  /\ skipped' = skipped \ {"ordersbook"}
                  /\ UNCHANGED <<past, session, group, quote, copy, tables, overtaken, astray>>
      BY <1>7 DEF ReadSnapshot, Replace
    <3>2. v \in 1..Len(past) /\ past[v] \in Book /\ pos' = [pos EXCEPT !["ordersbook"] = v]
          /\ "ordersbook" \in fed /\ "read" \in procs /\ row = "none"
      BY <3>1 DEF Arrives, BookTypeOK
    <3>3. CASE cache # None /\ Skip("ordersbook")
      BY <3>1, <3>2, <3>3 DEF Skip, ConnectorTypeOK, BookTypeOK, ChangeHasBase, Has, Channels,
             group, reading, tables, history
    <3>4. CASE cache' = past[v] /\ ver' = v /\ row' = "book"
               /\ skipped' = skipped \ {"ordersbook"}
               /\ UNCHANGED <<past, session, group, quote, copy, tables, overtaken, astray>>
      BY <3>1, <3>2, <3>4, BookIsNotNone
         DEF ConnectorTypeOK, BookTypeOK, ChangeHasBase, Has, Channels, group, reading, tables,
             history
    <3> QED
      BY <3>1, <3>3, <3>4
  <2> QED
    BY <2>1, <2>2
<1>8. CASE ReadDelta
  <2>1. ConnectorTypeOK'
    BY <1>8 DEF ReadDelta, Arrives, Skip, ConnectorTypeOK, group, reading, tables, history
  <2> DEFINE v == pos["ordersbook"] + 1
  <2>2. BookTypeOK' /\ ChangeHasBase'
    <3>1. /\ v \in 1..Len(past) /\ v - 1 \in 1..Len(past)
          /\ cache \in Book /\ "ordersbook" \in fed /\ "read" \in procs /\ row = "none"
          /\ pos' = [pos EXCEPT !["ordersbook"] = v]
      BY <1>8 DEF ReadDelta, Arrives, ConnectorTypeOK, BookTypeOK, ChangeHasBase, Has, Channels
    <3>2. past[v] \in Book /\ past[v - 1] \in Book
      BY <3>1 DEF BookTypeOK
    <3>3. Merge(cache, Delta(past[v - 1], past[v])) \in Book
      BY <3>1, <3>2, MergeType
    <3>4. CASE Skip("ordersbook")
      BY <1>8, <3>1, <3>4 DEF Skip, ConnectorTypeOK, BookTypeOK, ChangeHasBase, Has, Channels,
             group, reading, tables, history
    <3>5. CASE ~Skip("ordersbook")
      <4>1. /\ cache' \in Book /\ ver' \in {ver, v} /\ row' = "change"
            /\ UNCHANGED <<past, session, group, quote, copy, tables, history>>
        BY <1>8, <3>1, <3>3, <3>5 DEF ReadDelta
      <4> QED
        BY <3>1, <4>1, BookIsNotNone DEF ConnectorTypeOK, BookTypeOK, ChangeHasBase, Has,
               Channels, group, reading, tables, history
    <3> QED
      BY <3>4, <3>5
  <2> QED
    BY <2>1, <2>2
<1>9. CASE StoreRow
  <2>1. ConnectorTypeOK'
    BY <1>9 DEF StoreRow, ConnectorTypeOK, group, reading, tables, history
  <2> DEFINE v == pos["ordersbook"]
  <2>2. BookTypeOK' /\ ChangeHasBase'
    <3>1. v \in 1..Len(past) /\ past[v] \in Book
      BY <1>9 DEF StoreRow, ConnectorTypeOK, BookTypeOK, ChangeHasBase, Has, Channels
    <3>2. row = "change" => past[v - 1] \in Book
      BY <3>1 DEF ConnectorTypeOK, BookTypeOK, ChangeHasBase, Has, Channels
    <3>3. view' = None \/ view' \in Book
      BY <1>9, <3>1, <3>2, MergeType DEF StoreRow, ConnectorTypeOK, BookTypeOK, ChangeHasBase,
             Has, Channels
    <3>4. astray' \in BOOLEAN
      BY <1>9 DEF StoreRow, BookTypeOK
    <3>5. /\ last' = v /\ overtaken' = TRUE /\ row' = "none"
          /\ UNCHANGED <<past, session, group, pos, quote, cache, ver, copy, skipped>>
      BY <1>9 DEF StoreRow
    <3> QED
      BY <3>1, <3>3, <3>4, <3>5 DEF ConnectorTypeOK, BookTypeOK, ChangeHasBase, Has, Channels,
             group, reading, tables, history
  <2> QED
    BY <2>1, <2>2
<1>10. CASE ReadQuote
  <2>1. ConnectorTypeOK'
    BY <1>10 DEF ReadQuote, Arrives, Skip, MergeQuote, ConnectorTypeOK, group, reading, tables,
           history
  <2>2. BookTypeOK' /\ ChangeHasBase'
    <3>1. PICK v \in 1..Len(past) : pos' = [pos EXCEPT !["ticker"] = v]
      BY <1>10 DEF ReadQuote, Arrives
    <3>2. "ticker" \in fed /\ skipped' \subseteq Channels
      BY <1>10 DEF ReadQuote, Arrives, Skip, BookTypeOK, Channels, history
    <3>3. UNCHANGED <<past, session, group, row, cache, ver, copy, tables, overtaken, astray>>
      BY <1>10 DEF ReadQuote, Skip, MergeQuote, history
    <3> QED
      BY <3>1, <3>2, <3>3 DEF ConnectorTypeOK, BookTypeOK, ChangeHasBase, Has, Channels, group,
             reading, tables, history
  <2> QED
    BY <2>1, <2>2
<1>11. CASE ReaderEnds
  <2>1. ConnectorTypeOK'
    BY <1>11 DEF ReaderEnds, Exit, ConnectorTypeOK, group, reading, tables, history
  <2>2. BookTypeOK' /\ ChangeHasBase'
    BY <1>11, BookIsNotNone DEF ReaderEnds, Exit, ConnectorTypeOK, BookTypeOK, ChangeHasBase, Has,
           Channels, group, reading, tables, history
  <2> QED
    BY <2>1, <2>2
<1>12. CASE Copy
  <2>1. ConnectorTypeOK'
    BY <1>12 DEF Copy, ConnectorTypeOK, group, reading, tables, history
  <2>2. BookTypeOK' /\ ChangeHasBase'
    <3>1. copy'.book = cache /\ copy'.v = ver
      BY <1>12 DEF Copy
    <3>2. copy'.gap = ("ordersbook" \in skipped)
      BY <1>12, Zenon DEF Copy
    <3>4. copy'.gap \in BOOLEAN
      BY <3>2
    <3>3. /\ "tick" \in procs /\ overtaken' = FALSE
          /\ UNCHANGED <<past, session, group, reading, tables, skipped, astray>>
      BY <1>12 DEF Copy
    <3> QED
      BY <3>1, <3>3, <3>4 DEF ConnectorTypeOK, BookTypeOK, ChangeHasBase, Has, Channels, group,
             reading, tables, history
  <2> QED
    BY <2>1, <2>2
<1>13. CASE StoreCopy
  <2>1. ConnectorTypeOK'
    BY <1>13 DEF StoreCopy, ConnectorTypeOK, group, reading, tables, history
  <2>2. BookTypeOK' /\ ChangeHasBase'
    BY <1>13, BookIsNotNone DEF StoreCopy, ConnectorTypeOK, BookTypeOK, ChangeHasBase, Has,
           Channels, group, reading, tables, history
  <2> QED
    BY <2>1, <2>2
<1>14. CASE TickEnds
  <2>1. ConnectorTypeOK'
    BY <1>14 DEF TickEnds, Exit, ConnectorTypeOK, group, reading, tables, history
  <2>2. BookTypeOK' /\ ChangeHasBase'
    BY <1>14, BookIsNotNone DEF TickEnds, Exit, ConnectorTypeOK, BookTypeOK, ChangeHasBase, Has,
           Channels, group, reading, tables, history
  <2> QED
    BY <2>1, <2>2
<1>15. CASE UNCHANGED vars
  <2>1. ConnectorTypeOK'
    BY <1>15 DEF vars, ConnectorTypeOK, group, reading, tables, history
  <2>2. BookTypeOK' /\ ChangeHasBase'
    BY <1>15, BookIsNotNone DEF vars, ConnectorTypeOK, BookTypeOK, ChangeHasBase, Has, Channels,
           group, reading, tables, history
  <2> QED
    BY <2>1, <2>2
<1> QED
  BY <1>1, <1>2, <1>3, <1>4, <1>5, <1>6, <1>7, <1>8, <1>9, <1>10, <1>11, <1>12, <1>13, <1>14, <1>15
     DEF Next

\* The properties are kept too.
LEMMA StepFollows == Follows /\ [Next]_vars => Follows'
<1> SUFFICES ASSUME Follows, [Next]_vars PROVE Follows'
  OBVIOUS
<1> USE DEF Follows
<1>0. Typed'
  BY StepTyped
<1>1. CASE ExchangeChanges
  <2>1. PICK b \in Book : past' = Append(past, b)
    BY <1>1 DEF ExchangeChanges
  <2>2. past' \in Seq(Book) /\ Len(past') = Len(past) + 1
        /\ \A v \in 1..Len(past) : past'[v] = past[v]
    BY <2>1 DEF Typed, TypeOK, BookTypeOK
  <2>3. UNCHANGED <<session, group, reading, copy, tables, history>>
    BY <1>1 DEF ExchangeChanges
  <2>4. CacheFollows'
    BY <2>2, <2>3 DEF CacheFollows, Typed, TypeOK, BookTypeOK, Channels, reading, history
  <2>5. CopyHolds' /\ ViewHolds'
    BY <2>2, <2>3 DEF CopyHolds, ViewHolds, Near, Gap, Version, Typed, TypeOK, BookTypeOK,
           reading, tables, history
  <2> QED
    BY <1>0, <2>4, <2>5
<1>2. CASE Connect
  <2> USE <1>2, BookIsNotNone DEF Connect, Typed, TypeOK, BookTypeOK, Channels, ChangeHasBase,
         group, reading, tables, history
  <2>1. CacheFollows'
    BY DEF CacheFollows
  <2>2. CopyHolds'
    BY DEF CopyHolds, CacheFollows, Near, Gap, Version
  <2>3. ViewHolds'
    BY DEF ViewHolds, CacheFollows, CopyHolds, Near, Gap, Version
  <2> QED
    BY <1>0, <2>1, <2>2, <2>3
<1>3. CASE \E c \in Channels : Subscribe(c)
  <2> USE <1>3, BookIsNotNone DEF Subscribe, Typed, TypeOK, BookTypeOK, Channels, ChangeHasBase,
         group, reading, tables, history
  <2>1. CacheFollows'
    BY DEF CacheFollows
  <2>2. CopyHolds'
    BY DEF CopyHolds, CacheFollows, Near, Gap, Version
  <2>3. ViewHolds'
    BY DEF ViewHolds, CacheFollows, CopyHolds, Near, Gap, Version
  <2> QED
    BY <1>0, <2>1, <2>2, <2>3
<1>4. CASE GroupFails
  <2> USE <1>4, BookIsNotNone DEF GroupFails, Typed, TypeOK, BookTypeOK, Channels, ChangeHasBase,
         group, reading, tables, history
  <2>1. CacheFollows'
    BY DEF CacheFollows
  <2>2. CopyHolds'
    BY DEF CopyHolds, CacheFollows, Near, Gap, Version
  <2>3. ViewHolds'
    BY DEF ViewHolds, CacheFollows, CopyHolds, Near, Gap, Version
  <2> QED
    BY <1>0, <2>1, <2>2, <2>3
<1>5. CASE CloseConn
  <2> USE <1>5, BookIsNotNone DEF CloseConn, Exit, Typed, TypeOK, BookTypeOK, Channels,
         ChangeHasBase, group, reading, tables, history
  <2>1. CacheFollows'
    BY DEF CacheFollows
  <2>2. CopyHolds'
    BY DEF CopyHolds, CacheFollows, Near, Gap, Version
  <2>3. ViewHolds'
    BY DEF ViewHolds, CacheFollows, CopyHolds, Near, Gap, Version
  <2> QED
    BY <1>0, <2>1, <2>2, <2>3
<1>6. CASE Reconnect
  <2> USE <1>6, BookIsNotNone DEF Reconnect, Typed, TypeOK, BookTypeOK, Channels, ChangeHasBase,
         group, reading, tables, history
  <2>1. CacheFollows'
    BY DEF CacheFollows
  <2>2. CopyHolds'
    BY DEF CopyHolds, CacheFollows, Near, Gap, Version
  <2>3. ViewHolds'
    BY DEF ViewHolds, CacheFollows, CopyHolds, Near, Gap, Version
  <2> QED
    BY <1>0, <2>1, <2>2, <2>3
<1>7. CASE ReadSnapshot
  <2> USE <1>7, BookIsNotNone DEF ReadSnapshot, Arrives, Skip, Replace, Typed, TypeOK, BookTypeOK,
         Channels, ChangeHasBase, group, reading, tables, history
  <2>1. CacheFollows'
    BY DEF CacheFollows
  <2>2. CopyHolds'
    BY DEF CopyHolds, CacheFollows, Near, Gap, Version
  <2>3. ViewHolds'
    BY DEF ViewHolds, CacheFollows, CopyHolds, Near, Gap, Version
  <2> QED
    BY <1>0, <2>1, <2>2, <2>3
<1>8. CASE ReadDelta
  <2> DEFINE v == pos["ordersbook"] + 1
  <2> USE DEF Typed, TypeOK
  <2>1. /\ v \in 1..Len(past) /\ v - 1 \in 1..Len(past) /\ pos["ordersbook"] \in Nat
        /\ cache \in Book /\ cache # None /\ row = "none"
        /\ pos' = [pos EXCEPT !["ordersbook"] = v] /\ pos'["ordersbook"] = v
        /\ past[v] \in Book /\ past[v - 1] \in Book
    BY <1>8 DEF ReadDelta, Arrives, BookTypeOK, Has, Channels
  <2>2. CASE Skip("ordersbook")
    <3>1. Gap' /\ UNCHANGED <<past, row, cache, ver, copy, tables, overtaken, astray>>
      BY <2>2 DEF Skip, Gap
    <3> QED
      BY <1>0, <3>1 DEF CacheFollows, CopyHolds, ViewHolds, Near, Gap, Version, tables
  <2>3. CASE ~Skip("ordersbook")
    <3>1. /\ IF AsksOf(cache) # {}
                THEN cache' = Merge(cache, Delta(past[v - 1], past[v])) /\ ver' = v
                ELSE UNCHANGED <<cache, ver>>
          /\ row' = "change"
          /\ UNCHANGED <<past, session, group, quote, copy, tables, history>>
      BY <1>8, <2>3 DEF ReadDelta
    <3>2. CacheFollows'
      <4>1. CASE AsksOf(cache) # {} /\ ~Gap
        <5>1. cache = past[v - 1]
          BY <2>1, <4>1 DEF CacheFollows, Gap
        <5>2. cache' = past[v] /\ ver' = v
          BY <2>1, <3>1, <4>1, <5>1, DeltaFits
        <5> QED
          BY <2>1, <3>1, <5>2 DEF CacheFollows
      <4>2. CASE AsksOf(cache) = {} \/ Gap
        BY <2>1, <3>1, <4>2 DEF CacheFollows, Gap, history
      <4> QED
        BY <4>1, <4>2
    <3>3. cache' # None
      BY <2>1, <3>1, MergeType, BookIsNotNone
    <3>4. CopyHolds'
      BY <2>1, <3>1, <3>3 DEF CopyHolds, Near, Gap, Version, history
    <3>5. ViewHolds'
      BY <2>1, <3>1, <3>3 DEF ViewHolds, Near, Gap, Version, tables, history
    <3> QED
      BY <1>0, <3>2, <3>4, <3>5
  <2> QED
    BY <1>0, <2>2, <2>3
<1>9. CASE StoreRow
  <2> DEFINE v == pos["ordersbook"]
  <2> USE <1>9 DEF StoreRow, Typed, TypeOK, BookTypeOK, Channels, ChangeHasBase, group, reading,
         tables, history
  <2>1. CacheFollows'
    BY DEF CacheFollows
  <2>2. CopyHolds'
    BY DEF CopyHolds, CacheFollows, Near, Gap, Version
  <2>3. ViewHolds'
    <3>1. v \in 1..Len(past) /\ past[v] \in Book
      OBVIOUS
    <3>2. CASE row = "book"
      BY <3>1, <3>2 DEF ViewHolds, Near, Version
    <3>3. CASE row = "change"
      <4>1. v - 1 \in 1..Len(past) /\ past[v - 1] \in Book /\ cache # None
        BY <3>1, <3>3
      <4>2. SUFFICES ASSUME view # None, ~astray, ~Gap
                     PROVE  Merge(view, Delta(past[v - 1], past[v])) = past[v]
        BY <3>1, <3>3, <4>1 DEF ViewHolds, Near, Gap, Version
      <4>3. view \in {past[v - 1], past[v]}
        BY <3>3, <4>1, <4>2 DEF ViewHolds, Near, Gap, Version
      <4> HIDE <1>9
      <4> QED
        BY <3>1, <4>1, <4>3, DeltaFits
    <3> QED
      BY <3>2, <3>3
  <2> QED
    BY <1>0, <2>1, <2>2, <2>3
<1>10. CASE ReadQuote
  <2> USE <1>10, BookIsNotNone DEF ReadQuote, Arrives, Skip, MergeQuote, Typed, TypeOK,
         BookTypeOK, Channels, ChangeHasBase, group, reading, tables, history
  <2>1. CacheFollows'
    BY DEF CacheFollows
  <2>2. CopyHolds'
    BY DEF CopyHolds, CacheFollows, Near, Gap, Version
  <2>3. ViewHolds'
    BY DEF ViewHolds, CacheFollows, CopyHolds, Near, Gap, Version
  <2> QED
    BY <1>0, <2>1, <2>2, <2>3
<1>11. CASE ReaderEnds
  <2> USE <1>11, BookIsNotNone DEF ReaderEnds, Exit, Typed, TypeOK, BookTypeOK, Channels,
         ChangeHasBase, group, reading, tables, history
  <2>1. CacheFollows'
    BY DEF CacheFollows
  <2>2. CopyHolds'
    BY DEF CopyHolds, CacheFollows, Near, Gap, Version
  <2>3. ViewHolds'
    BY DEF ViewHolds, CacheFollows, CopyHolds, Near, Gap, Version
  <2> QED
    BY <1>0, <2>1, <2>2, <2>3
<1>12. CASE Copy
  <2> USE <1>12 DEF Copy, Typed, TypeOK, BookTypeOK, Channels, ChangeHasBase, group, reading,
         tables, history
  <2>1. CacheFollows'
    BY DEF CacheFollows
  <2>2. CopyHolds'
    <3>1. copy'.book = cache /\ copy'.v = ver
      OBVIOUS
    <3>2. copy'.gap = Gap
      BY Zenon DEF Gap
    <3>3. CASE cache = None
      BY <3>1, <3>3 DEF CopyHolds
    <3>4. CASE cache # None
      <4>1. cache' # None /\ overtaken' = FALSE /\ (Gap' <=> Gap) /\ past' = past
            /\ row' = row /\ pos' = pos
        BY <3>4 DEF Gap
      <4>2. ~Gap => /\ ver \in 1..Len(past) /\ cache = past[ver]
                    /\ AsksOf(cache) # {} => ver = pos["ordersbook"]
        BY <3>4 DEF Gap, CacheFollows
      <4>3. row \in {"none", "book", "change"}
        OBVIOUS
      <4> HIDE <1>12 DEF Copy
      <4> QED
        BY <3>1, <3>2, <4>1, <4>2, <4>3 DEF CopyHolds, Near, Version
    <3> QED
      BY <3>3, <3>4
  <2>3. ViewHolds'
    BY DEF ViewHolds, CacheFollows, CopyHolds, Near, Gap, Version
  <2> QED
    BY <1>0, <2>1, <2>2, <2>3
<1>13. CASE StoreCopy
  <2> USE <1>13, BookIsNotNone DEF StoreCopy, Typed, TypeOK, BookTypeOK, Channels, ChangeHasBase,
         group, reading, tables, history
  <2>1. CacheFollows'
    BY DEF CacheFollows
  <2>2. CopyHolds'
    BY DEF CopyHolds, CacheFollows, Near, Gap, Version
  <2>3. ViewHolds'
    BY DEF ViewHolds, CacheFollows, CopyHolds, Near, Gap, Version
  <2> QED
    BY <1>0, <2>1, <2>2, <2>3
<1>14. CASE TickEnds
  <2> USE <1>14, BookIsNotNone DEF TickEnds, Exit, Typed, TypeOK, BookTypeOK, Channels,
         ChangeHasBase, group, reading, tables, history
  <2>1. CacheFollows'
    BY DEF CacheFollows
  <2>2. CopyHolds'
    BY DEF CopyHolds, CacheFollows, Near, Gap, Version
  <2>3. ViewHolds'
    BY DEF ViewHolds, CacheFollows, CopyHolds, Near, Gap, Version
  <2> QED
    BY <1>0, <2>1, <2>2, <2>3
<1>15. CASE UNCHANGED vars
  <2> USE <1>15, BookIsNotNone DEF vars, Typed, TypeOK, BookTypeOK, Channels, ChangeHasBase,
         group, reading, tables, history
  <2>1. CacheFollows'
    BY DEF CacheFollows
  <2>2. CopyHolds'
    BY DEF CopyHolds, CacheFollows, Near, Gap, Version
  <2>3. ViewHolds'
    BY DEF ViewHolds, CacheFollows, CopyHolds, Near, Gap, Version
  <2> QED
    BY <1>0, <2>1, <2>2, <2>3
<1> QED
  BY <1>1, <1>2, <1>3, <1>4, <1>5, <1>6, <1>7, <1>8, <1>9, <1>10, <1>11, <1>12, <1>13, <1>14, <1>15
     DEF Next

LEMMA Invariance == Spec => []Follows
  BY InitFollows, StepFollows, PTL DEF Spec

\* The state keeps its shape: data follow their subscription and their
\* connector, for every market and any number of reconnects.
THEOREM TypeCorrect == Spec => []TypeOK
<1>1. Follows => TypeOK
  BY DEF Follows, Typed
<1> QED
  BY <1>1, Invariance, PTL

\* The cached book is a book the exchange had, and with an ask in it the one
\* of the latest frame, unless the consider interval has dropped a frame.
THEOREM CacheFollowsHolds == Spec => []CacheFollows
<1>1. Follows => CacheFollows
  BY DEF Follows
<1> QED
  BY <1>1, Invariance, PTL

\* A replay of the tables gives the exchange's book, except after a cached
\* book that was overtaken, has no asks, or lacks a frame.
THEOREM ReplayFollowsHolds == Spec => []ReplayFollows
<1>1. Follows => ReplayFollows
  BY DEF Follows, ViewHolds, ReplayFollows
<1> QED
  BY <1>1, Invariance, PTL

---------------------------------------------------------------------------
(* The quote *)

LessThan == {ss \in Nat \X Nat : ss[1] < ss[2]}

\* A set of numbers that is not empty has a least element ...
LEMMA LeastNumber ==
  ASSUME NEW T, T \subseteq Nat, T # {}
  PROVE  \E m \in T : \A n \in T : m <= n
<1>1. IsWellFoundedOn(LessThan, Nat)
  BY NatLessThanWellFounded DEF OpToRel, LessThan
<1>2. PICK m \in T : \A n \in T : ~ (<<n, m>> \in LessThan)
  BY <1>1, WFMin
<1>3. ASSUME NEW n \in T PROVE m <= n
  <2>1. n \in Nat /\ m \in Nat /\ <<n, m>> \in Nat \X Nat
    OBVIOUS
  <2>2. ~ (n < m)
    BY <1>2, <2>1 DEF LessThan
  <2>3. QED
    BY <2>1, <2>2
<1>4. QED
  BY <1>3

\* ... and when it is finite a greatest one.
LEMMA GreatestNumber ==
  ASSUME NEW T, T \subseteq Nat, T # {}, IsFiniteSet(T)
  PROVE  \E m \in T : \A n \in T : n <= m
<1> DEFINE Above(m) == {k \in T : k > m}
           Counts   == {Cardinality(Above(m)) : m \in T}
<1>1. \A m \in T : IsFiniteSet(Above(m)) /\ Cardinality(Above(m)) \in Nat
  <2> SUFFICES ASSUME NEW m \in T PROVE IsFiniteSet(Above(m)) /\ Cardinality(Above(m)) \in Nat
    OBVIOUS
  <2>1. IsFiniteSet(Above(m))
    BY FS_Subset
  <2> QED
    BY <2>1, FS_CardinalityType
<1>2. PICK c \in Counts : \A d \in Counts : c <= d
  <2>1. Counts \subseteq Nat /\ Counts # {}
    BY <1>1
  <2> QED
    BY <2>1, LeastNumber
<1>3. PICK m \in T : c = Cardinality(Above(m))
  BY <1>2
<1>4. ASSUME NEW n \in T, n > m PROVE FALSE
  <2>1. Above(n) \subseteq Above(m) /\ n \in Above(m) /\ n \notin Above(n)
    <3>1. m \in Nat /\ n \in Nat /\ \A k \in T : k \in Nat
      OBVIOUS
    <3>2. \A k \in T : k > n => k > m
      BY <1>4, <3>1
    <3>3. Above(n) \subseteq Above(m)
      BY <3>2
    <3>4. n \in Above(m)
      BY <1>4
    <3>5. ~ (n > n)
      BY <3>1
    <3>6. n \notin Above(n)
      BY <3>5
    <3> QED
      BY <3>3, <3>4, <3>6
  <2>2. Cardinality(Above(n)) < Cardinality(Above(m))
    BY <1>1, <2>1, FS_Subset
  <2>3. Cardinality(Above(m)) <= Cardinality(Above(n))
    BY <1>2, <1>3
  <2> QED
    BY <1>1, <2>2, <2>3
<1> QED
  BY <1>4

\* The best level of a side that has levels, with a size that is not 0.
Best(S) == S \X (Nat \ {0})

LEMMA BestIsALevel ==
  ASSUME NEW book \in Book
  PROVE  /\ IF AsksOf(book) = {} THEN BestAsk(book) = <<>> ELSE BestAsk(book) \in Best(Asks)
         /\ IF BidsOf(book) = {} THEN BestBid(book) = <<>> ELSE BestBid(book) \in Best(Bids)
<1>1. \A l \in Levels : book[l] \in Nat
  BY BoundsArePositive DEF Book
<1>2. ASSUME AsksOf(book) # {} PROVE BestAsk(book) \in Best(Asks)
  <2>1. AsksOf(book) \subseteq Nat
    BY LevelsAssumption DEF LevelsAssumption, AsksOf
  <2>2. \E m \in AsksOf(book) : \A n \in AsksOf(book) : m <= n
    BY <1>2, <2>1, LeastNumber
  <2>3. Min(AsksOf(book)) \in AsksOf(book)
    BY <2>2 DEF Min
  <2>4. PICK m \in AsksOf(book) : m = Min(AsksOf(book))
    BY <2>3
  <2>5. m \in Asks /\ book[m] \in Nat \ {0}
    BY <1>1 DEF AsksOf, Levels
  <2> QED
    BY <1>2, <2>4, <2>5 DEF BestAsk, Best
<1>3. ASSUME BidsOf(book) # {} PROVE BestBid(book) \in Best(Bids)
  <2>1. BidsOf(book) \subseteq Nat /\ BidsOf(book) \subseteq Bids
    BY LevelsAssumption DEF LevelsAssumption, BidsOf
  <2>2. IsFiniteSet(BidsOf(book))
    BY <2>1, LevelsAssumption, FS_Subset DEF LevelsAssumption
  <2>3. \E m \in BidsOf(book) : \A n \in BidsOf(book) : n <= m
    BY <1>3, <2>1, <2>2, GreatestNumber
  <2>4. \E m \in BidsOf(book) : \A n \in BidsOf(book) : m >= n
    BY <2>1, <2>3
  <2>5. Max(BidsOf(book)) \in BidsOf(book)
    BY <2>4 DEF Max
  <2>6. PICK m \in BidsOf(book) : m = Max(BidsOf(book))
    BY <2>5
  <2>7. m \in Bids /\ book[m] \in Nat \ {0}
    BY <1>1 DEF BidsOf, Levels
  <2> QED
    BY <1>3, <2>6, <2>7 DEF BestBid, Best
<1>4. /\ AsksOf(book) = {} => BestAsk(book) = <<>>
      /\ BidsOf(book) = {} => BestBid(book) = <<>>
  BY DEF BestAsk, BestBid
<1> QED
  BY <1>2, <1>3, <1>4

LEMMA SeqsOfNothing == ASSUME NEW f \in SetToSeqs({}) PROVE f = <<>>
<1>1. Cardinality({}) = 0
  BY FS_EmptySet
<1> QED
  BY <1>1 DEF SetToSeqs

LEMMA SeqsOfOne == ASSUME NEW x, NEW f \in SetToSeqs({x}) PROVE f = <<x>>
<1>1. Cardinality({x}) = 1
  BY FS_Singleton
<1>2. f \in [1..1 -> {x}]
  BY <1>1 DEF SetToSeqs
<1> QED
  BY <1>2

LEMMA SeqsOfTwo ==
  ASSUME NEW x, NEW y, x # y, NEW f \in SetToSeqs({x, y})
  PROVE  f = <<x, y>> \/ f = <<y, x>>
<1>1. Cardinality({x, y}) = 2
  <2>1. IsFiniteSet({x}) /\ Cardinality({x}) = 1
    BY FS_Singleton
  <2>2. Cardinality({x} \cup {y}) = IF y \in {x} THEN Cardinality({x}) ELSE Cardinality({x}) + 1
    BY <2>1, FS_AddElement
  <2>3. {x} \cup {y} = {x, y} /\ y \notin {x} /\ 1 + 1 = 2
    OBVIOUS
  <2> QED
    BY <2>1, <2>2, <2>3
<1>2. f \in [1..2 -> {x, y}] /\ \A i, j \in 1..2 : i # j => f[i] # f[j]
  BY <1>1 DEF SetToSeqs
<1>3. (f[1] = x /\ f[2] = y) \/ (f[1] = y /\ f[2] = x)
  <2>1. 1 \in 1..2 /\ 2 \in 1..2 /\ 1 # 2
    OBVIOUS
  <2>2. f[1] \in {x, y} /\ f[2] \in {x, y} /\ f[1] # f[2]
    BY <1>2, <2>1
  <2> QED
    BY <2>2
<1> QED
  BY <1>2, <1>3

\* A snapshot gives a side that has levels its best one.
LEMMA SnapshotGivesBest ==
  ASSUME NEW S, NEW best \in Best(S), NEW kept, NEW entries \in InSnapshot(best)
  PROVE  MergeSide(kept, entries) = best
<1>1. best # <<>>
  BY DEF Best
<1>2. entries = <<best>>
  BY <1>1 DEF InSnapshot
<1> QED
  BY <1>2 DEF MergeSide

\* So does a delta, on what the side was before.
LEMMA DeltaGivesBest ==
  ASSUME NEW S, NEW best \in Best(S), NEW old, old = <<>> \/ old \in Best(S),
         NEW kept, old # <<>> => kept = old, NEW entries \in InDelta(old, best)
  PROVE  MergeSide(kept, entries) = best
<1>1. /\ best # <<>> /\ best[1] \in S /\ best[2] \in Nat /\ best[2] # 0
      /\ best = <<best[1], best[2]>>
  BY DEF Best
<1>2. CASE old = best
  <2>1. entries \in SetToSeqs({})
    BY <1>1, <1>2 DEF InDelta
  <2>2. entries = <<>>
    BY <2>1, SeqsOfNothing
  <2> QED
    BY <1>1, <1>2, <2>2 DEF MergeSide
<1>3. CASE old # best /\ (old = <<>> \/ old[1] = best[1])
  <2>1. entries \in SetToSeqs({best})
    BY <1>1, <1>3 DEF InDelta
  <2>2. entries = <<best>>
    BY <2>1, SeqsOfOne
  <2> QED
    BY <2>2 DEF MergeSide
<1>4. CASE old # <<>> /\ old[1] # best[1]
  <2> DEFINE gone == <<old[1], 0>>
  <2>1. old # best /\ gone # best /\ gone[2] = 0
    BY <1>1, <1>4
  <2>2. entries \in SetToSeqs({gone, best})
    <3>1. {gone} \cup ({best} \ {<<>>, old}) = {gone, best}
      BY <1>1, <2>1
    <3> QED
      BY <1>4, <3>1 DEF InDelta
  <2> HIDE DEF gone
  <2>3. entries = <<gone, best>> \/ entries = <<best, gone>>
    BY <2>1, <2>2, SeqsOfTwo
  <2>4. CASE entries = <<gone, best>>
    BY <2>1, <2>4 DEF MergeSide
  <2>5. CASE entries = <<best, gone>>
    BY <1>1, <2>5 DEF MergeSide
  <2> QED
    BY <2>3, <2>4, <2>5
<1> QED
  BY <1>2, <1>3, <1>4

\* Until the quote is another one it is the quote of the last frame.
LEMMA QuoteHolds ==
  ASSUME Typed, pos["ticker"] >= 1, NextQuote <= Len(past)
  PROVE  /\ NextQuote > pos["ticker"] /\ NextQuote \in Nat
         /\ Quote(past[NextQuote - 1]) = Quote(past[pos["ticker"]])
<1> DEFINE p     == pos["ticker"]
           later == {v \in (p + 1)..Len(past) : Quote(past[v]) # Quote(past[v - 1])}
           other == {u \in p..Len(past) : Quote(past[u]) # Quote(past[p])}
<1>1. p \in Nat /\ Len(past) \in Nat
  BY DEF Typed, TypeOK, BookTypeOK, Channels
<1>2. later # {}
  BY <1>1 DEF NextQuote
<1>3. PICK v : v = NextQuote
  OBVIOUS
<1>4. v \in later /\ \A u \in later : v <= u
  <2>1. later \subseteq Nat
    BY <1>1
  <2>2. \E m \in later : \A n \in later : m <= n
    BY <1>2, <2>1, LeastNumber
  <2>3. Min(later) \in later /\ \A u \in later : Min(later) <= u
    BY <2>2 DEF Min
  <2> QED
    BY <1>2, <1>3, <2>3 DEF NextQuote
<1>5. v \in Nat /\ v > p /\ v <= Len(past) /\ v - 1 \in p..Len(past)
  BY <1>1, <1>4
<1>6. CASE v - 1 \in other
  <2>1. other \subseteq Nat
    BY <1>1
  <2>2. PICK m \in other : \A n \in other : m <= n
    BY <1>6, <2>1, LeastNumber
  <2>3. m # p /\ m \in p..Len(past) /\ m <= v - 1
    BY <1>6, <2>2
  <2>4. m - 1 \in p..Len(past) /\ m \in (p + 1)..Len(past) /\ ~(m <= m - 1) /\ ~(v <= m)
    BY <1>1, <1>5, <2>3
  <2>5. m - 1 \notin other
    BY <2>2, <2>4
  <2>6. Quote(past[m - 1]) = Quote(past[p]) /\ Quote(past[m]) # Quote(past[p])
    BY <2>4, <2>5
  <2>7. m \in later
    BY <2>4, <2>6
  <2> QED
    BY <1>4, <2>4, <2>7
<1>7. CASE v - 1 \notin other
  BY <1>3, <1>5, <1>7
<1> QED
  BY <1>6, <1>7

\* A quote comes from a frame.
QuoteRead == quote # None => pos["ticker"] >= 1

LEMMA FrameSetsQuote ==
  ASSUME Typed, QuoteRead, QuoteFollows, ReadQuote
  PROVE  QuoteRead' /\ QuoteFollows'
<1>1. PICK v \in IF quote = None THEN {pos["ticker"] + 1} ELSE {pos["ticker"], NextQuote} :
        /\ v \in 1..Len(past) /\ pos' = [pos EXCEPT !["ticker"] = v]
        /\ \/ quote # None /\ Skip("ticker")
           \/ /\ \E asks \in InSnapshot(BestAsk(past[v])), bids \in InSnapshot(BestBid(past[v])) :
                   MergeQuote(asks, bids)
              /\ past' = past
           \/ /\ quote # None /\ v # pos["ticker"]
              /\ \E asks \in InDelta(BestAsk(past[v - 1]), BestAsk(past[v])),
                    bids \in InDelta(BestBid(past[v - 1]), BestBid(past[v])) : MergeQuote(asks, bids)
              /\ past' = past /\ skipped' = skipped
  BY DEF ReadQuote, Arrives, history
<1>2. pos'["ticker"] = v /\ v >= 1 /\ past[v] \in Book
  BY <1>1 DEF Typed, TypeOK, BookTypeOK, Channels
<1>3. QuoteRead'
  BY <1>2 DEF QuoteRead
<1> DEFINE AsksRight == AsksOf(past[v]) # {} => quote'.ask = BestAsk(past[v])
           BidsRight == BidsOf(past[v]) # {} => quote'.bid = BestBid(past[v])
<1>4. past' = past /\ AsksRight /\ BidsRight => QuoteFollows'
  BY <1>2 DEF QuoteFollows
<1>5. Skip("ticker") => QuoteFollows'
  BY DEF Skip, QuoteFollows
<1>6. ASSUME NEW asks \in InSnapshot(BestAsk(past[v])), NEW bids \in InSnapshot(BestBid(past[v])),
             MergeQuote(asks, bids), past' = past
      PROVE  QuoteFollows'
  <2>1. quote'.ask = MergeSide(Kept.ask, asks) /\ quote'.bid = MergeSide(Kept.bid, bids)
    BY <1>6 DEF MergeQuote
  <2>2. AsksRight
    BY <1>2, <2>1, BestIsALevel, SnapshotGivesBest
  <2>3. BidsRight
    BY <1>2, <2>1, BestIsALevel, SnapshotGivesBest
  <2> QED
    BY <1>4, <1>6, <2>2, <2>3
<1>7. ASSUME quote # None, v # pos["ticker"],
             NEW asks \in InDelta(BestAsk(past[v - 1]), BestAsk(past[v])),
             NEW bids \in InDelta(BestBid(past[v - 1]), BestBid(past[v])),
             MergeQuote(asks, bids), past' = past, skipped' = skipped
      PROVE  QuoteFollows'
  <2>1. SUFFICES ASSUME "ticker" \notin skipped PROVE QuoteFollows'
    BY <1>7 DEF QuoteFollows
  <2>2. v = NextQuote /\ pos["ticker"] >= 1
    BY <1>1, <1>7 DEF QuoteRead
  <2>3. v > pos["ticker"] /\ v \in Nat /\ Quote(past[v - 1]) = Quote(past[pos["ticker"]])
    BY <1>1, <2>2, QuoteHolds
  <2>4. PICK p \in Nat : p = pos["ticker"]
    BY DEF Typed, TypeOK, BookTypeOK, Channels
  <2>5. past[v - 1] \in Book /\ past[p] \in Book
    BY <1>1, <2>2, <2>3, <2>4 DEF Typed, TypeOK, BookTypeOK
  <2>6. BestAsk(past[v - 1]) = BestAsk(past[p]) /\ BestBid(past[v - 1]) = BestBid(past[p])
    BY <2>3, <2>4 DEF Quote
  <2>7. /\ BestAsk(past[p]) # <<>> => quote.ask = BestAsk(past[p])
        /\ BestBid(past[p]) # <<>> => quote.bid = BestBid(past[p])
    <3>1. /\ AsksOf(past[p]) # {} => quote.ask = BestAsk(past[p])
          /\ BidsOf(past[p]) # {} => quote.bid = BestBid(past[p])
      BY <1>7, <2>1, <2>4 DEF QuoteFollows
    <3> QED
      BY <2>5, <3>1, BestIsALevel
  <2>8. /\ quote'.ask = MergeSide(quote.ask, asks)
        /\ quote'.bid = MergeSide(quote.bid, bids)
    BY <1>7 DEF MergeQuote, Kept
  <2>9. AsksRight
    <3> SUFFICES ASSUME AsksOf(past[v]) # {} PROVE quote'.ask = BestAsk(past[v])
      OBVIOUS
    <3>1. BestAsk(past[v]) \in Best(Asks)
      BY <1>2, BestIsALevel
    <3>2. BestAsk(past[v - 1]) = <<>> \/ BestAsk(past[v - 1]) \in Best(Asks)
      BY <2>5, BestIsALevel
    <3>3. BestAsk(past[v - 1]) # <<>> => quote.ask = BestAsk(past[v - 1])
      BY <2>6, <2>7
    <3> QED
      BY <2>8, <3>1, <3>2, <3>3, DeltaGivesBest
  <2>10. BidsRight
    <3> SUFFICES ASSUME BidsOf(past[v]) # {} PROVE quote'.bid = BestBid(past[v])
      OBVIOUS
    <3>1. BestBid(past[v]) \in Best(Bids)
      BY <1>2, BestIsALevel
    <3>2. BestBid(past[v - 1]) = <<>> \/ BestBid(past[v - 1]) \in Best(Bids)
      BY <2>5, BestIsALevel
    <3>3. BestBid(past[v - 1]) # <<>> => quote.bid = BestBid(past[v - 1])
      BY <2>6, <2>7
    <3> QED
      BY <2>8, <3>1, <3>2, <3>3, DeltaGivesBest
  <2> QED
    BY <1>4, <1>7, <2>9, <2>10
<1>8. QuoteFollows'
  BY <1>1, <1>5, <1>6, <1>7
<1> QED
  BY <1>3, <1>8

LEMMA StepQuote == Typed /\ QuoteRead /\ QuoteFollows /\ [Next]_vars => QuoteRead' /\ QuoteFollows'
<1> SUFFICES ASSUME Typed, QuoteRead, QuoteFollows, [Next]_vars
             PROVE  QuoteRead' /\ QuoteFollows'
  OBVIOUS
<1> USE DEF QuoteRead, QuoteFollows
<1>1. CASE ExchangeChanges
  <2>1. PICK b \in Book : past' = Append(past, b)
    BY <1>1 DEF ExchangeChanges
  <2>2. UNCHANGED <<pos, quote, skipped>>
    BY <1>1 DEF ExchangeChanges, reading, history
  <2>3. quote # None => pos["ticker"] \in 1..Len(past)
    BY DEF Typed, TypeOK, BookTypeOK, Channels
  <2>4. quote # None => past'[pos["ticker"]] = past[pos["ticker"]]
    BY <2>1, <2>3 DEF Typed, TypeOK, BookTypeOK
  <2> QED
    BY <2>2, <2>4
<1>2. CASE \E c \in Channels : Subscribe(c)
  <2>1. PICK c \in Channels : Subscribe(c)
    BY <1>2
  <2>2. c = "ticker" => quote = None
    BY <2>1 DEF Subscribe, Typed, TypeOK, BookTypeOK
  <2>3. pos' = [pos EXCEPT ![c] = Len(past) - 1] /\ UNCHANGED <<past, quote, skipped>>
    BY <2>1 DEF Subscribe, history
  <2>4. quote # None => pos'["ticker"] = pos["ticker"]
    BY <2>2, <2>3 DEF Typed, TypeOK, BookTypeOK, Channels
  <2> QED
    BY <2>3, <2>4
<1>3. CASE Reconnect
  BY <1>3 DEF Reconnect
<1>4. CASE ReadQuote
  BY <1>4, FrameSetsQuote
<1>5. CASE ReadSnapshot \/ ReadDelta
  <2>1. UNCHANGED <<past, quote>> /\ \E v : pos' = [pos EXCEPT !["ordersbook"] = v]
    BY <1>5 DEF ReadSnapshot, ReadDelta, Arrives, Skip
  <2>2. pos'["ticker"] = pos["ticker"] /\ ("ticker" \in skipped => "ticker" \in skipped')
    BY <1>5, <2>1 DEF ReadSnapshot, ReadDelta, Skip, history, Typed, TypeOK, BookTypeOK, Channels
  <2> QED
    BY <2>1, <2>2
<1>6. CASE Connect \/ GroupFails \/ CloseConn \/ StoreRow \/ ReaderEnds \/ Copy \/ StoreCopy
             \/ TickEnds \/ UNCHANGED vars
  <2>1. UNCHANGED <<past, pos, quote, skipped>>
    BY <1>6 DEF Connect, GroupFails, CloseConn, StoreRow, ReaderEnds, Copy, StoreCopy, TickEnds,
           reading, history, vars
  <2> QED
    BY <2>1
<1> QED
  BY <1>1, <1>2, <1>3, <1>4, <1>5, <1>6 DEF Next

\* Each side of the stored quote that has levels is the exchange's best one,
\* for any levels, however snapshots and deltas mix and in whichever order a
\* delta names the old level and the new.
THEOREM QuoteFollowsHolds == Spec => []QuoteFollows
<1>1. Init => Typed /\ QuoteRead /\ QuoteFollows
  BY InitFollows DEF Follows, Init, QuoteRead, QuoteFollows
<1> QED
  BY <1>1, StepTyped, StepQuote, PTL DEF Spec
==========================================================================
