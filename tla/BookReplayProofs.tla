-------------------------- MODULE BookReplayProofs --------------------------
(***************************************************************************)
(* StreamReplays and AnchorAheadHeals for any levels and sizes and any     *)
(* number of versions, rows and connectors.                                *)
(*                                                                         *)
(* Replay is a recursive function, so first: it is one, and a row more is  *)
(* one step more of it.  The properties are not inductive by themselves:   *)
(* that the next change fits what was recorded last depends on what is     *)
(* under way (WireRuns), on what is unread when a token loses its entry    *)
(* (StreamGoesOn) and on when the exchange streams it (Discovered).  While *)
(* the stream is behind a REST anchor, every level of the reader's book    *)
(* is the anchor's or the stream's (AnchorView): at the anchor's version   *)
(* the two are the same.                                                   *)
(***************************************************************************)
EXTENDS BookReplay, WellFoundedInduction, TLAPS

---------------------------------------------------------------------------
(* Induction and recursion over an interval of numbers, with the predicate *)
(* given as the set of numbers that satisfy it, and the step of the        *)
(* recursion as a function                                                 *)

LessThan == {ss \in Nat \X Nat : ss[1] < ss[2]}

\* A set of numbers that is not empty has a least element ...
LEMMA LeastNumber ==
  ASSUME NEW T, T \subseteq Nat, T # {}
  PROVE  \E m \in T : \A n \in T : m <= n
<1>1. IsWellFoundedOn(LessThan, Nat)
  BY NatLessThanWellFounded DEF OpToRel, LessThan
<1>2. PICK m \in T : \A n \in T : ~ (<<n, m>> \in LessThan)
  BY <1>1, WFMin
<1>3. ASSUME NEW n \in T PROVE m <= n
  <2>1. n \in Nat /\ m \in Nat /\ <<n, m>> \in Nat \X Nat
    OBVIOUS
  <2>2. ~ (n < m)
    BY <1>2, <2>1 DEF LessThan
  <2>3. QED
    BY <2>1, <2>2
<1>4. QED
  BY <1>3

\* ... and a greatest one when it is bounded.
LEMMA GreatestNumber ==
  ASSUME NEW T, T \subseteq Nat, T # {}, NEW b \in Nat, \A n \in T : n <= b
  PROVE  \E m \in T : \A n \in T : n <= m
<1> DEFINE Bounds == {m \in Nat : \A n \in T : n <= m}
<1>1. PICK m \in Bounds : \A n \in Bounds : m <= n
  <2>1. Bounds \subseteq Nat /\ b \in Bounds
    OBVIOUS
  <2>2. QED
    BY <2>1, LeastNumber
<1>2. CASE m \in T
  BY <1>2
<1>3. CASE m \notin T
  <2>1. \A n \in T : n < m
    BY <1>3
  <2>2. PICK n \in T : TRUE
    OBVIOUS
  <2>3. m - 1 \in Nat /\ \A k \in T : k <= m - 1
    BY <2>1, <2>2
  <2>4. m <= m - 1
    BY <1>1, <2>3
  <2>5. QED
    BY <2>4
<1>4. QED
  BY <1>2, <1>3

\* What holds at the lower end and goes from each number to the next, holds
\* in the whole interval.
LEMMA IntervalInduction ==
  ASSUME NEW lo \in Nat, NEW hi \in Nat, NEW S, lo \in S,
         \A i \in lo..hi : i \in S /\ i + 1 \in lo..hi => i + 1 \in S
  PROVE  lo..hi \subseteq S
<1> SUFFICES ASSUME NEW j \in lo..hi, j \notin S PROVE FALSE
  OBVIOUS
<1> DEFINE T == {i \in lo..hi : i \notin S}
<1>1. PICK i \in T : \A n \in T : i <= n
  <2>1. T \subseteq Nat /\ T # {}
    OBVIOUS
  <2>2. QED
    BY <2>1, LeastNumber
<1>2. i \in lo..hi /\ i # lo
  OBVIOUS
<1>3. i - 1 \in lo..hi /\ i - 1 \in S
  BY <1>1, <1>2
<1>4. QED
  BY <1>2, <1>3

\* f has the given first value and its values follow one from the other.
Recurs(f, lo, hi, V, base, step) ==
  /\ f \in [lo..hi -> V]
  /\ f[lo] = base
  /\ \A i \in (lo + 1)..hi : f[i] = step[<<i, f[i - 1]>>]

\* There is such a function.
LEMMA IntervalRecursion ==
  ASSUME NEW lo \in Nat, NEW hi \in Nat, lo <= hi, NEW V, NEW base \in V,
         NEW step \in [((lo + 1)..hi) \X V -> V]
  PROVE  \E f : Recurs(f, lo, hi, V, base, step)
<1> DEFINE Good(f, n) == f[lo] = base /\ \A i \in (lo + 1)..n : f[i] = step[<<i, f[i - 1]>>]
           S == {n \in lo..hi : \E f \in [lo..n -> V] : Good(f, n)}
<1>1. lo \in S
  <2> DEFINE f == [i \in lo..lo |-> base]
  <2>1. f \in [lo..lo -> V]
    OBVIOUS
  <2>2. f[lo] = base /\ (lo + 1)..lo = {}
    OBVIOUS
  <2>3. Good(f, lo)
    BY <2>2
  <2>4. \E h \in [lo..lo -> V] : Good(h, lo)
    BY <2>1, <2>3
  <2>5. QED
    BY <2>4
<1>2. ASSUME NEW n \in lo..hi, n \in S, n + 1 \in lo..hi
      PROVE  n + 1 \in S
  <2>1. PICK f \in [lo..n -> V] : Good(f, n)
    BY <1>2
  <2> DEFINE next == step[<<n + 1, f[n]>>]
             g    == [i \in lo..(n + 1) |-> IF i = n + 1 THEN next ELSE f[i]]
  <2>2. next \in V
    <3>1. f[n] \in V /\ n + 1 \in (lo + 1)..hi
      BY <1>2
    <3>2. <<n + 1, f[n]>> \in ((lo + 1)..hi) \X V
      BY <3>1
    <3>3. QED
      BY <3>2
  <2>3. g[n + 1] = next /\ \A i \in lo..n : g[i] = f[i]
    BY <1>2
  <2>4. g \in [lo..(n + 1) -> V]
    <3> HIDE DEF next
    <3>1. QED
      BY <1>2, <2>2
  <2>5. ASSUME NEW i \in (lo + 1)..(n + 1) PROVE g[i] = step[<<i, g[i - 1]>>]
    <3> HIDE DEF g
    <3>1. CASE i = n + 1
      BY <2>3, <3>1
    <3>2. CASE i # n + 1
      BY <2>1, <2>3, <3>2
    <3>3. QED
      BY <3>1, <3>2
  <2>6. Good(g, n + 1)
    <3>1. g[lo] = base
      BY <2>1, <2>3
    <3>2. QED
      BY <2>5, <3>1
  <2>7. \E h \in [lo..(n + 1) -> V] : Good(h, n + 1)
    <3> HIDE DEF g, Good
    <3>1. QED
      BY <2>4, <2>6
  <2>8. QED
    BY <1>2, <2>7
<1>3. hi \in S
  <2> HIDE DEF S
  <2>1. lo..hi \subseteq S
    BY <1>1, <1>2, IntervalInduction
  <2>2. QED
    BY <2>1
<1>4. QED
  BY <1>3 DEF Recurs

---------------------------------------------------------------------------
(* Books and rows *)

LEMMA RowShape ==
  ASSUME NEW row \in Row
  PROVE  /\ row.src \in {"ws", "rest"} /\ row.ver \in Nat
         /\ row.kind = "book" => row.data \in Book
         /\ row.kind # "book" => row.src = "ws" /\ row.data \in Changes
  BY DEF Row

LEMMA MergeType ==
  ASSUME NEW book \in Book, NEW d \in Changes
  PROVE  Merge(book, d) \in Book
<1>1. PICK L \in SUBSET Levels : d \in [L -> Sizes]
  BY DEF Changes
<1>2. QED
  BY <1>1 DEF Merge, Book

LEMMA ReadType ==
  ASSUME NEW book \in Book, NEW row \in Row, NEW origins
  PROVE  Read(book, row, origins) \in Book
  BY RowShape, MergeType DEF Read

\* f gives the books a reader goes through.
Runs(f, s, from, origins) ==
  /\ f \in [from..Len(s) -> Book]
  /\ f[from] = s[from].data
  /\ \A i \in (from + 1)..Len(s) : f[i] = Read(f[i - 1], s[i], origins)
  /\ Replay(s, from, origins) = f[Len(s)]

LEMMA ReplayRuns ==
  ASSUME NEW s \in Seq(Row), NEW from \in 1..Len(s), s[from].kind = "book", NEW origins
  PROVE  \E f : Runs(f, s, from, origins)
<1> DEFINE n    == Len(s)
           step == [p \in ((from + 1)..n) \X Book |-> Read(p[2], s[p[1]], origins)]
           Eqn(f) == f = [i \in from..n |->
                            IF i = from THEN s[i].data ELSE Read(f[i - 1], s[i], origins)]
<1>1. n \in Nat /\ from \in Nat /\ from <= n /\ s[from].data \in Book
  BY RowShape
<1>2. step \in [((from + 1)..n) \X Book -> Book]
  <2>1. ASSUME NEW p \in ((from + 1)..n) \X Book
        PROVE  Read(p[2], s[p[1]], origins) \in Book
    <3>1. p[2] \in Book /\ p[1] \in 1..n
      BY <1>1
    <3>2. s[p[1]] \in Row
      BY <3>1
    <3>3. QED
      BY <3>1, <3>2, ReadType
  <2>2. QED
    BY <2>1
<1>3. \E f : Recurs(f, from, n, Book, s[from].data, step)
  <2> HIDE DEF n, step
  <2>1. QED
    BY <1>1, <1>2, IntervalRecursion
<1>4. PICK f \in [from..n -> Book] :
        f[from] = s[from].data /\ \A i \in (from + 1)..n : f[i] = step[<<i, f[i - 1]>>]
  BY <1>3 DEF Recurs
<1>5. \E h : Eqn(h)
  <2>1. \A i \in (from + 1)..n : f[i] = Read(f[i - 1], s[i], origins)
    <3>1. SUFFICES ASSUME NEW i \in (from + 1)..n
                   PROVE  f[i] = Read(f[i - 1], s[i], origins)
      OBVIOUS
    <3>2. f[i - 1] \in Book
      BY <1>1, <1>4
    <3>3. step[<<i, f[i - 1]>>] = Read(f[i - 1], s[i], origins)
      BY <3>2
    <3>4. QED
      BY <1>4, <3>3
  <2>2. Eqn(f)
    BY <1>1, <1>4, <2>1
  <2>3. QED
    BY <2>2
<1> DEFINE g == CHOOSE h : Eqn(h)
<1>6. Eqn(g)
  BY <1>5
<1>7. Replay(s, from, origins) = g[n]
  BY DEF Replay
<1> HIDE DEF g
<1>8. /\ DOMAIN g = from..n /\ g[from] = s[from].data
      /\ \A i \in (from + 1)..n : g[i] = Read(g[i - 1], s[i], origins)
  BY <1>1, <1>6
<1>9. g \in [from..n -> Book]
  <2> DEFINE S == {i \in from..n : g[i] \in Book}
  <2>1. from \in S
    BY <1>1, <1>8
  <2>2. \A i \in from..n : i \in S /\ i + 1 \in from..n => i + 1 \in S
    <3>1. SUFFICES ASSUME NEW i \in from..n, g[i] \in Book, i + 1 \in from..n
                   PROVE  g[i + 1] \in Book
      OBVIOUS
    <3>2. i + 1 \in (from + 1)..n /\ s[i + 1] \in Row
      BY <1>1, <3>1
    <3>3. g[i + 1] = Read(g[(i + 1) - 1], s[i + 1], origins)
      BY <1>8, <3>2
    <3>4. (i + 1) - 1 = i
      BY <1>1
    <3>5. QED
      BY <3>1, <3>2, <3>3, <3>4, ReadType
  <2>3. from..n \subseteq S
    <3> HIDE DEF S
    <3>1. QED
      BY <1>1, <2>1, <2>2, IntervalInduction
  <2>4. g = [i \in from..n |-> g[i]]
    BY <1>6
  <2>5. QED
    BY <2>3, <2>4
<1>10. Runs(g, s, from, origins)
  BY <1>7, <1>8, <1>9 DEF Runs
<1>11. QED
  BY <1>10

LEMMA ReplayType ==
  ASSUME NEW s \in Seq(Row), NEW from \in 1..Len(s), s[from].kind = "book", NEW origins
  PROVE  Replay(s, from, origins) \in Book
<1>1. PICK f : Runs(f, s, from, origins)
  BY ReplayRuns
<1>2. Len(s) \in from..Len(s)
  OBVIOUS
<1>3. QED
  BY <1>1, <1>2 DEF Runs

\* A reader who has read nothing but the anchor has the anchor's book.
LEMMA ReplayStarts ==
  ASSUME NEW s \in Seq(Row), s # <<>>, s[Len(s)].kind = "book", NEW origins
  PROVE  Replay(s, Len(s), origins) = s[Len(s)].data
<1>1. Len(s) \in 1..Len(s)
  OBVIOUS
<1>2. PICK f : Runs(f, s, Len(s), origins)
  BY <1>1, ReplayRuns
<1>3. QED
  BY <1>2 DEF Runs

\* A row more is one step more of the reader.
LEMMA ReplayGrows ==
  ASSUME NEW s \in Seq(Row), NEW from \in 1..Len(s), s[from].kind = "book", NEW origins,
         NEW row \in Row
  PROVE  Replay(Append(s, row), from, origins) = Read(Replay(s, from, origins), row, origins)
<1> DEFINE n == Len(s)
           t == Append(s, row)
<1>1. t \in Seq(Row) /\ Len(t) = n + 1 /\ t[n + 1] = row /\ \A i \in 1..n : t[i] = s[i]
  OBVIOUS
<1>2. from \in 1..Len(t) /\ t[from].kind = "book" /\ n \in Nat
  BY <1>1
<1>3. PICK f : Runs(f, s, from, origins)
  BY ReplayRuns
<1> HIDE DEF t
<1>4. PICK g : Runs(g, t, from, origins)
  BY <1>1, <1>2, ReplayRuns
<1>5. f[n] = g[n]
  <2> DEFINE S == {i \in from..n : f[i] = g[i]}
  <2>1. from \in S
    BY <1>1, <1>2, <1>3, <1>4 DEF Runs
  <2>2. \A i \in from..n : i \in S /\ i + 1 \in from..n => i + 1 \in S
    <3>1. SUFFICES ASSUME NEW i \in from..n, f[i] = g[i], i + 1 \in from..n
                   PROVE  f[i + 1] = g[i + 1]
      OBVIOUS
    <3>2. i + 1 \in (from + 1)..n /\ i + 1 \in (from + 1)..Len(t) /\ (i + 1) - 1 = i
          /\ t[i + 1] = s[i + 1]
      BY <1>1, <1>2, <3>1
    <3>3. f[i + 1] = Read(f[(i + 1) - 1], s[i + 1], origins)
      BY <1>3, <3>2 DEF Runs
    <3>4. g[i + 1] = Read(g[(i + 1) - 1], t[i + 1], origins)
      BY <1>4, <3>2 DEF Runs
    <3>5. QED
      BY <3>1, <3>2, <3>3, <3>4
  <2>3. from..n \subseteq S
    <3> HIDE DEF S
    <3>1. from \in Nat
      OBVIOUS
    <3>2. QED
      BY <1>2, <2>1, <2>2, <3>1, IntervalInduction
  <2>4. n \in from..n
    BY <1>2
  <2>5. QED
    BY <2>3, <2>4
<1>6. g[n + 1] = Read(g[(n + 1) - 1], t[n + 1], origins)
  BY <1>1, <1>2, <1>4 DEF Runs
<1>7. (n + 1) - 1 = n
  BY <1>2
<1>8. QED
  BY <1>1, <1>3, <1>4, <1>5, <1>6, <1>7 DEF Runs, t

---------------------------------------------------------------------------
(* The latest row of a kind *)

LEMMA MaxOfRows ==
  ASSUME NEW n \in Nat, NEW S \in SUBSET (1..n), S # {}
  PROVE  Max(S) \in S /\ \A i \in S : i <= Max(S)
<1>1. \E m \in S : \A i \in S : i <= m
  <2>1. S \subseteq Nat /\ \A i \in S : i <= n
    OBVIOUS
  <2>2. QED
    BY <2>1, GreatestNumber
<1>2. \E m \in S : \A i \in S : m >= i
  BY <1>1
<1>3. QED
  BY <1>2 DEF Max

LEMMA MaxIs ==
  ASSUME NEW n \in Nat, NEW S \in SUBSET (1..n), NEW m \in S, \A i \in S : i <= m
  PROVE  Max(S) = m
<1>1. Max(S) \in S /\ m <= Max(S)
  BY MaxOfRows
<1>2. Max(S) <= m
  BY <1>1
<1>3. Max(S) \in Nat /\ m \in Nat
  <2>1. S \subseteq Nat
    OBVIOUS
  <2>2. QED
    BY <1>1, <2>1
<1>4. QED
  BY <1>1, <1>2, <1>3

\* A row is appended ...
LEMMA WsGrows ==
  ASSUME rows \in Seq(Row), NEW row \in Row, rows' = Append(rows, row)
  PROVE  /\ row.src = "ws" => WsRows' # {} /\ Max(WsRows)' = Len(rows)'
         /\ row.src # "ws" => WsRows' = WsRows
         /\ row.src # "ws" /\ WsRows # {} => LastWs' = LastWs
<1> DEFINE n == Len(rows)
<1>1. /\ n \in Nat /\ n + 1 \in Nat /\ rows' \in Seq(Row) /\ Len(rows') = n + 1 /\ rows'[n + 1] = row
      /\ \A i \in 1..n : rows'[i] = rows[i]
  OBVIOUS
<1>2. WsRows \in SUBSET (1..n) /\ WsRows' \in SUBSET (1..(n + 1))
  BY <1>1 DEF WsRows
<1>3. ASSUME row.src = "ws" PROVE WsRows' # {} /\ Max(WsRows)' = Len(rows)'
  <2>1. n + 1 \in WsRows' /\ \A i \in WsRows' : i <= n + 1
    BY <1>1, <1>3 DEF WsRows
  <2>2. Max(WsRows') = n + 1
    BY <1>1, <1>2, <2>1, MaxIs
  <2>3. QED
    BY <1>1, <2>1, <2>2
<1>4. ASSUME row.src # "ws" PROVE WsRows' = WsRows
  BY <1>1, <1>4 DEF WsRows
<1>5. ASSUME row.src # "ws", WsRows # {} PROVE LastWs' = LastWs
  <2>1. Max(WsRows) \in 1..n
    BY <1>1, <1>2, <1>5, MaxOfRows
  <2>2. QED
    BY <1>1, <1>4, <1>5, <2>1 DEF LastWs
<1>6. QED
  BY <1>3, <1>4, <1>5

\* ... which becomes the latest anchor, or not.
LEMMA AnchorsGrow ==
  ASSUME rows \in Seq(Row), NEW row \in Row, rows' = Append(rows, row)
  PROVE  /\ row.kind = "book" => Anchors' # {} /\ LatestAnchor' = Len(rows)'
         /\ row.kind # "book" => Anchors' = Anchors /\ LatestAnchor' = LatestAnchor
<1> DEFINE n == Len(rows)
<1>1. /\ n \in Nat /\ n + 1 \in Nat /\ rows' \in Seq(Row) /\ Len(rows') = n + 1 /\ rows'[n + 1] = row
      /\ \A i \in 1..n : rows'[i] = rows[i]
  OBVIOUS
<1>2. Anchors' \in SUBSET (1..(n + 1))
  BY <1>1 DEF Anchors
<1>3. ASSUME row.kind = "book" PROVE Anchors' # {} /\ LatestAnchor' = Len(rows)'
  <2>1. n + 1 \in Anchors' /\ \A i \in Anchors' : i <= n + 1
    BY <1>1, <1>3 DEF Anchors
  <2>2. Max(Anchors') = n + 1
    BY <1>1, <1>2, <2>1, MaxIs
  <2>3. QED
    BY <1>1, <2>1, <2>2 DEF LatestAnchor
<1>4. ASSUME row.kind # "book" PROVE Anchors' = Anchors /\ LatestAnchor' = LatestAnchor
  <2>1. Anchors' = Anchors
    BY <1>1, <1>4 DEF Anchors
  <2>2. QED
    BY <2>1 DEF LatestAnchor
<1>5. QED
  BY <1>3, <1>4

\* The anchor is a row, and a full book.
LEMMA AnchorIsBook ==
  ASSUME rows \in Seq(Row), Anchors # {}
  PROVE  LatestAnchor \in 1..Len(rows) /\ rows[LatestAnchor].kind = "book"
<1>1. Anchors \in SUBSET (1..Len(rows)) /\ Len(rows) \in Nat
  BY DEF Anchors
<1>2. LatestAnchor \in Anchors
  BY <1>1, MaxOfRows DEF LatestAnchor
<1>3. QED
  BY <1>2 DEF Anchors

LEMMA LastWsIsRow ==
  ASSUME rows \in Seq(Row), WsRows # {}
  PROVE  \E i \in 1..Len(rows) : LastWs = rows[i]
<1>1. WsRows \in SUBSET (1..Len(rows)) /\ Len(rows) \in Nat
  BY DEF WsRows
<1>2. Max(WsRows) \in WsRows
  BY <1>1, MaxOfRows
<1>3. QED
  BY <1>2 DEF WsRows, LastWs

---------------------------------------------------------------------------
(* The inductive invariant *)

\* A full book is the book of its version, changes lead to theirs.
BelongsTo(bs, m) ==
  /\ m.kind = "book" => m.data = bs[m.ver]
  /\ m.kind # "book" => m.ver >= 2 /\ Merge(bs[m.ver - 1], m.data) = bs[m.ver]

RowsBelong == \A i \in 1..Len(rows) : BelongsTo(books, rows[i])

\* What is under way has no hole before a change, and while the exchange
\* streams it goes on to today's book.
WireRuns ==
  /\ \A i \in 1..Len(wire) : BelongsTo(books, wire[i])
  /\ \A i \in 1..(Len(wire) - 1) :
       wire[i + 1].kind # "book" => wire[i + 1].ver = wire[i].ver + 1
  /\ streaming /\ wire # <<>> => wire[Len(wire)].ver = Version

\* The latest row of the websocket is of version v.
RecordedUpTo(v) == WsRows # {} /\ LastWs.ver = v

\* While messages are recorded the next change fits the latest row.
StreamGoesOn ==
  meta /\ ~spliced =>
    /\ wire # <<>> /\ wire[1].kind # "book" => RecordedUpTo(wire[1].ver - 1)
    /\ wire = <<>> /\ streaming => RecordedUpTo(Version)

\* The exchange streams what discovery has subscribed, or not yet unsubscribed.
Discovered ==
  /\ streaming => subscribed \/ dpc = "unsubscribing"
  /\ dpc = "subscribing" => subscribed
  /\ dpc = "unsubscribing" => ~meta

\* From the latest anchor a reader has, level by level, the anchor's book or
\* the stream's, and the stream's once it has caught up.
AnchorVer  == rows[LatestAnchor].ver
AnchorBook == Replay(rows, LatestAnchor, {"ws", "rest"})
AnchorView ==
  ~spliced /\ WsRows # {} /\ Anchors # {}
  /\ (\A i \in 1..LatestAnchor : rows[i].ver <= AnchorVer) =>
    /\ LastWs.ver >= AnchorVer => AnchorBook = books[LastWs.ver]
    /\ LastWs.ver <= AnchorVer =>
         \A l \in Levels : AnchorBook[l] \in {books[AnchorVer][l], books[LastWs.ver][l]}

Recorded == RowsBelong /\ StreamReplays /\ AnchorView
IInv     == TypeOK /\ Discovered /\ WireRuns /\ StreamGoesOn /\ Recorded

---------------------------------------------------------------------------
(* What a step does to the rows *)

\* New versions of the book change nothing of what was recorded, and a reader
\* is promised less when rows have been spliced.
LEMMA NothingRecorded ==
  ASSUME TypeOK, Recorded, rows' = rows, spliced => spliced',
         \A v \in 1..Version : books'[v] = books[v]
  PROVE  Recorded'
<1>1. rows \in Seq(Row) /\ Len(rows) \in Nat /\ \A i \in 1..Len(rows) : rows[i].ver \in 1..Version
  BY DEF TypeOK
<1>2. RowsBelong'
  <2>1. SUFFICES ASSUME NEW i \in 1..Len(rows) PROVE BelongsTo(books', rows[i])
    BY DEF RowsBelong
  <2>2. BelongsTo(books, rows[i]) /\ rows[i].ver \in 1..Version
    BY <1>1 DEF Recorded, RowsBelong
  <2>3. Version \in Nat
    BY DEF Version, TypeOK
  <2>4. rows[i].kind # "book" => rows[i].ver - 1 \in 1..Version
    BY <2>2, <2>3 DEF BelongsTo
  <2>5. QED
    BY <2>2, <2>4 DEF BelongsTo
<1>3. WsRows' = WsRows /\ Anchors' = Anchors /\ LastWs' = LastWs
      /\ LatestAnchor' = LatestAnchor
  BY DEF WsRows, Anchors, LastWs, LatestAnchor
<1>4. WsRows # {} => LastWs.ver \in 1..Version
  BY <1>1, LastWsIsRow
<1>5. Anchors # {} => AnchorVer \in 1..Version
  BY <1>1, AnchorIsBook DEF AnchorVer
<1>6. StreamReplays'
  BY <1>3, <1>4 DEF Recorded, StreamReplays
<1>7. AnchorView'
  <2>1. AnchorVer' = AnchorVer /\ AnchorBook' = AnchorBook
    BY <1>3 DEF AnchorVer, AnchorBook
  <2>2. QED
    BY <1>3, <1>4, <1>5, <2>1 DEF Recorded, AnchorView
<1>8. QED
  BY <1>2, <1>6, <1>7 DEF Recorded

\* An anchor of the websocket is where a reader begins.
LEMMA WsAnchorRecorded ==
  ASSUME TypeOK, Recorded, books' = books,
         NEW row \in Row, BelongsTo(books, row), row.src = "ws", row.kind = "book",
         rows' = <<row>>
  PROVE  Recorded' /\ RecordedUpTo(row.ver)'
<1>1. rows' \in Seq(Row) /\ Len(rows') = 1 /\ rows'[1] = row /\ rows' # <<>>
  OBVIOUS
<1>2. RowsBelong'
  BY <1>1 DEF RowsBelong
<1>3. WsRows' = {1} /\ Anchors' = {1}
  BY <1>1 DEF WsRows, Anchors
<1>4. Max({1}) = 1
  <2>1. 1 \in Nat /\ {1} \in SUBSET (1..1) /\ 1 \in {1} /\ \A i \in {1} : i <= 1
    OBVIOUS
  <2>2. QED
    BY <2>1, MaxIs
<1>5. LastWs' = row /\ LatestAnchor' = 1
  BY <1>1, <1>3, <1>4 DEF LastWs, LatestAnchor
<1>6. \A o : Replay(rows', 1, o) = books[row.ver]
  <2>1. \A o : Replay(rows', 1, o) = row.data
    BY <1>1, ReplayStarts
  <2>2. QED
    BY <2>1 DEF BelongsTo
<1>7. StreamReplays'
  BY <1>1, <1>5, <1>6 DEF StreamReplays
<1>8. AnchorVer' = row.ver /\ AnchorBook' = books[row.ver]
  BY <1>1, <1>5, <1>6 DEF AnchorVer, AnchorBook
<1>9. AnchorView'
  BY <1>5, <1>8 DEF AnchorView
<1>10. QED
  BY <1>2, <1>3, <1>5, <1>7, <1>9 DEF Recorded, RecordedUpTo

LEMMA RowsBelongGrows ==
  ASSUME TypeOK, RowsBelong, books' = books, NEW row \in Row, BelongsTo(books, row),
         rows' = Append(rows, row)
  PROVE  RowsBelong'
<1>1. rows \in Seq(Row) /\ Len(rows') = Len(rows) + 1 /\ rows'[Len(rows) + 1] = row
      /\ \A i \in 1..Len(rows) : rows'[i] = rows[i]
  BY DEF TypeOK
<1>2. ASSUME NEW i \in 1..Len(rows') PROVE BelongsTo(books, rows'[i])
  <2>1. i = Len(rows) + 1 \/ i \in 1..Len(rows)
    BY <1>1
  <2>2. QED
    BY <1>1, <2>1 DEF RowsBelong
<1>3. QED
  BY <1>2 DEF RowsBelong

\* A change that fits the latest row takes the reader to its version; behind
\* an anchor from REST, the levels it names.
LEMMA WsChangeRecorded ==
  ASSUME TypeOK, Recorded, books' = books,
         NEW row \in Row, BelongsTo(books, row), row.src = "ws", row.kind # "book",
         row.ver \in 1..Version, ~spliced => RecordedUpTo(row.ver - 1),
         rows' = Append(rows, row), spliced' = spliced
  PROVE  Recorded' /\ RecordedUpTo(row.ver)'
<1> DEFINE n == Len(rows)
           v == row.ver
<1>1. /\ rows \in Seq(Row) /\ rows' \in Seq(Row) /\ n \in Nat /\ Len(rows') = n + 1
      /\ rows'[n + 1] = row /\ \A i \in 1..n : rows'[i] = rows[i]
  BY DEF TypeOK
<1>2. /\ v \in Nat /\ v >= 2 /\ row.data \in Changes /\ books \in Seq(Book)
      /\ v \in 1..Len(books) /\ v - 1 \in 1..Len(books)
      /\ Merge(books[v - 1], row.data) = books[v]
  BY RowShape DEF TypeOK, Version, BelongsTo
<1>3. books[v] \in Book /\ books[v - 1] \in Book
  BY <1>2
<1>4. WsRows' # {} /\ LastWs' = row /\ Anchors' = Anchors /\ LatestAnchor' = LatestAnchor
  <2>1. WsRows' # {} /\ Max(WsRows)' = Len(rows)' /\ Anchors' = Anchors
        /\ LatestAnchor' = LatestAnchor
    BY <1>1, WsGrows, AnchorsGrow
  <2>2. QED
    BY <1>1, <2>1 DEF LastWs
<1>5. \A o, b : "ws" \in o => Read(b, row, o) = Merge(b, row.data)
  BY DEF Read
<1>6. RowsBelong'
  BY RowsBelongGrows DEF Recorded
<1>7. StreamReplays'
  <2>1. SUFFICES ASSUME ~spliced
                 PROVE  /\ rows'[1].src = "ws" /\ rows'[1].kind = "book"
                        /\ Replay(rows', 1, {"ws"}) = books[v]
    BY <1>4 DEF StreamReplays
  <2>2. /\ WsRows # {} /\ LastWs.ver = v - 1
        /\ rows[1].src = "ws" /\ rows[1].kind = "book"
        /\ Replay(rows, 1, {"ws"}) = books[v - 1]
    BY <2>1 DEF Recorded, StreamReplays, RecordedUpTo
  <2>3. 1 \in 1..n
    BY <1>1, <2>2 DEF WsRows
  <2>4. Replay(rows', 1, {"ws"}) = Read(books[v - 1], row, {"ws"})
    BY <1>1, <2>2, <2>3, ReplayGrows
  <2>5. QED
    BY <1>1, <1>2, <1>5, <2>2, <2>3, <2>4
<1>8. AnchorView'
  <2>1. SUFFICES ASSUME ~spliced, Anchors # {},
                        \A i \in 1..LatestAnchor : rows'[i].ver <= AnchorVer'
                 PROVE  /\ v >= AnchorVer' => AnchorBook' = books[v]
                        /\ v <= AnchorVer' =>
                             \A l \in Levels : AnchorBook'[l] \in {books[AnchorVer'][l], books[v][l]}
    BY <1>4 DEF AnchorView
  <2>2. LatestAnchor \in 1..n /\ rows[LatestAnchor].kind = "book"
    BY <1>1, <2>1, AnchorIsBook
  <2>3. AnchorVer' = AnchorVer /\ AnchorVer \in 1..Version
        /\ \A i \in 1..LatestAnchor : rows[i].ver <= AnchorVer
    <3>1. LatestAnchor' = LatestAnchor /\ LatestAnchor \in Nat /\ LatestAnchor <= n
      BY <1>1, <1>4, <2>2
    <3>2. \A i \in 1..LatestAnchor : i \in 1..n /\ rows'[i] = rows[i]
      BY <1>1, <3>1
    <3>3. AnchorVer' = AnchorVer
      BY <1>1, <2>2, <3>1 DEF AnchorVer
    <3>4. AnchorVer \in 1..Version
      BY <2>2 DEF AnchorVer, TypeOK
    <3>5. QED
      BY <2>1, <3>2, <3>3, <3>4
  <2>4. AnchorBook \in Book
    BY <1>1, <2>2, ReplayType DEF AnchorBook
  <2>5. AnchorBook' = Merge(AnchorBook, row.data)
    <3>1. AnchorBook' = Read(AnchorBook, row, {"ws", "rest"})
      BY <1>1, <1>4, <2>2, ReplayGrows DEF AnchorBook
    <3>2. QED
      BY <1>5, <3>1
  <2>6. WsRows # {} /\ LastWs.ver = v - 1
    BY <2>1 DEF RecordedUpTo
  <2>7. /\ v - 1 >= AnchorVer => AnchorBook = books[v - 1]
        /\ v - 1 <= AnchorVer =>
             \A l \in Levels : AnchorBook[l] \in {books[AnchorVer][l], books[v - 1][l]}
    BY <2>1, <2>3, <2>6 DEF Recorded, AnchorView
  <2>8. AnchorVer \in Nat
    BY <2>3
  <2>9. CASE v - 1 >= AnchorVer
    <3>1. AnchorBook' = books[v]
      BY <1>2, <2>5, <2>7, <2>9
    <3>2. QED
      BY <2>3, <3>1
  <2>10. CASE v <= AnchorVer
    <3>1. \A l \in Levels : AnchorBook[l] \in {books[AnchorVer][l], books[v - 1][l]}
      BY <1>2, <2>7, <2>8, <2>10
    <3>2. \A l \in Levels : books[v][l] = IF l \in DOMAIN row.data THEN row.data[l]
                                                                  ELSE books[v - 1][l]
      BY <1>2 DEF Merge
    <3>3. \A l \in Levels : AnchorBook'[l] = IF l \in DOMAIN row.data THEN row.data[l]
                                                                     ELSE AnchorBook[l]
      BY <2>5 DEF Merge
    <3>4. \A l \in Levels : AnchorBook'[l] \in {books[AnchorVer][l], books[v][l]}
      BY <3>1, <3>2, <3>3
    <3>5. ASSUME v >= AnchorVer PROVE AnchorBook' = books[v]
      <4>1. v = AnchorVer
        BY <1>2, <2>8, <2>10, <3>5
      <4>2. \A l \in Levels : AnchorBook'[l] = books[v][l]
        BY <3>4, <4>1
      <4>3. AnchorBook' \in Book
        BY <1>2, <2>4, <2>5, MergeType
      <4>4. QED
        BY <1>3, <4>2, <4>3 DEF Book
    <3>6. QED
      BY <2>3, <3>4, <3>5
  <2>11. QED
    BY <1>2, <2>8, <2>9, <2>10
<1>9. QED
  BY <1>4, <1>6, <1>7, <1>8 DEF Recorded, RecordedUpTo

\* An anchor from REST leaves the stream alone, and a reader begins with it.
LEMMA RestAnchorRecorded ==
  ASSUME TypeOK, Recorded, books' = books,
         NEW row \in Row, BelongsTo(books, row), row.src = "rest", row.kind = "book",
         rows' = Append(rows, row), spliced' = spliced
  PROVE  Recorded' /\ \A v : RecordedUpTo(v) => RecordedUpTo(v)'
<1> DEFINE n == Len(rows)
<1>1. /\ rows \in Seq(Row) /\ rows' \in Seq(Row) /\ n \in Nat /\ Len(rows') = n + 1
      /\ rows'[n + 1] = row /\ (\A i \in 1..n : rows'[i] = rows[i]) /\ rows' # <<>>
      /\ row.ver \in Nat
  <2>1. rows \in Seq(Row) /\ row.ver \in Nat
    BY RowShape DEF TypeOK
  <2>2. QED
    BY <2>1
<1>2. /\ WsRows' = WsRows /\ (WsRows # {} => LastWs' = LastWs)
      /\ Anchors' # {} /\ LatestAnchor' = n + 1
  BY <1>1, WsGrows, AnchorsGrow
<1>3. RowsBelong'
  BY RowsBelongGrows DEF Recorded
<1>4. StreamReplays'
  <2>1. SUFFICES ASSUME ~spliced, WsRows # {}
                 PROVE  /\ rows'[1].src = "ws" /\ rows'[1].kind = "book"
                        /\ Replay(rows', 1, {"ws"}) = books[LastWs.ver]
    BY <1>2 DEF StreamReplays
  <2>2. /\ rows[1].src = "ws" /\ rows[1].kind = "book"
        /\ Replay(rows, 1, {"ws"}) = books[LastWs.ver]
    BY <2>1 DEF Recorded, StreamReplays
  <2>3. 1 \in 1..n
    BY <1>1, <2>1 DEF WsRows
  <2>4. Replay(rows', 1, {"ws"}) = Read(Replay(rows, 1, {"ws"}), row, {"ws"})
    BY <1>1, <2>2, <2>3, ReplayGrows
  <2>5. QED
    BY <1>1, <2>2, <2>3, <2>4 DEF Read
<1>5. AnchorVer' = row.ver /\ AnchorBook' = books[row.ver]
  <2>1. Replay(rows', n + 1, {"ws", "rest"}) = row.data
    BY <1>1, ReplayStarts
  <2>2. QED
    BY <1>1, <1>2, <2>1 DEF AnchorVer, AnchorBook, BelongsTo
<1>6. AnchorView'
  <2>1. SUFFICES ASSUME WsRows # {}, \A i \in 1..(n + 1) : rows'[i].ver <= row.ver
                 PROVE  /\ LastWs.ver >= row.ver => books[row.ver] = books[LastWs.ver]
                        /\ \A l \in Levels :
                             books[row.ver][l] \in {books[row.ver][l], books[LastWs.ver][l]}
    BY <1>2, <1>5 DEF AnchorView
  <2>2. PICK i \in 1..n : LastWs = rows[i]
    BY <1>1, <2>1, LastWsIsRow
  <2>3. LastWs.ver <= row.ver /\ LastWs.ver \in Nat
    BY <1>1, <2>1, <2>2, RowShape
  <2>4. QED
    BY <1>1, <2>3
<1>7. QED
  BY <1>2, <1>3, <1>4, <1>6 DEF Recorded, RecordedUpTo

---------------------------------------------------------------------------
(* The initial state, and the shape of the others *)

LEMMA InitIInv == Init => IInv
<1> SUFFICES ASSUME Init PROVE IInv
  OBVIOUS
<1>1. books \in Seq(Book) /\ Len(books) = 1
  <2>1. [l \in Levels |-> 0] \in Book
    BY SizesAssumption DEF Book
  <2>2. QED
    BY <2>1 DEF Init
<1>2. wire = <<>> /\ rows = <<>> /\ ~meta /\ ~streaming
  BY DEF Init
<1>3. TypeOK
  <2>1. wire \in Seq(Message) /\ Len(wire) = 0 /\ rows \in Seq(Row) /\ Len(rows) = 0
    BY <1>2
  <2>2. session \in 1..MaxSessions
    BY ReplayBoundsAssumption DEF Init
  <2>3. answer \in 0..Version
    BY <1>1 DEF Init, Version
  <2>4. /\ \A i \in 1..Len(wire) : wire[i].ver \in 1..Version
        /\ \A i \in 1..Len(rows) : rows[i].ver \in 1..Version
    BY <2>1
  <2>5. /\ streaming \in BOOLEAN /\ reading \in BOOLEAN /\ meta \in BOOLEAN
        /\ subscribed \in BOOLEAN /\ spliced \in BOOLEAN
        /\ dpc = "start" /\ rpc = "idle" /\ answer = 0
    BY DEF Init
  <2>6. QED
    BY <1>1, <2>1, <2>2, <2>3, <2>4, <2>5 DEF TypeOK
<1>4. WireRuns /\ StreamGoesOn /\ Discovered
  BY <1>2 DEF Init, WireRuns, StreamGoesOn, Discovered
<1>5. WsRows = {}
  BY <1>2 DEF WsRows
<1>6. Recorded
  BY <1>2, <1>5 DEF Recorded, RowsBelong, StreamReplays, AnchorView
<1>7. QED
  BY <1>3, <1>4, <1>6 DEF IInv

\* What a row is made of is a message: of the websocket ...
LEMMA WsRow ==
  ASSUME NEW msg \in Message
  PROVE  [src |-> "ws", kind |-> msg.kind, data |-> msg.data, ver |-> msg.ver] \in Row
  BY DEF Message, Row

\* ... or a full book.
LEMMA FullBook ==
  ASSUME TypeOK, NEW v \in 1..Version
  PROVE  /\ BookOf(v) \in Message /\ BelongsTo(books, BookOf(v))
         /\ [src |-> "rest", kind |-> BookOf(v).kind, data |-> BookOf(v).data,
             ver |-> BookOf(v).ver] \in Row
<1>1. books[v] \in Book /\ v \in Nat
  BY DEF TypeOK, Version
<1>2. QED
  BY <1>1 DEF BookOf, Message, Row, BelongsTo

\* Recording a message keeps the shape of the rows.
LEMMA PersistType ==
  ASSUME TypeOK, NEW src, NEW msg, Persist(src, msg), msg.ver \in 1..Version,
         [src |-> src, kind |-> msg.kind, data |-> msg.data, ver |-> msg.ver] \in Row
  PROVE  /\ rows' \in Seq(Row) /\ \A i \in 1..Len(rows') : rows'[i].ver \in 1..Version
         /\ spliced' \in BOOLEAN
<1> DEFINE row == [src |-> src, kind |-> msg.kind, data |-> msg.data, ver |-> msg.ver]
<1>1. rows \in Seq(Row) /\ (\A i \in 1..Len(rows) : rows[i].ver \in 1..Version)
      /\ spliced \in BOOLEAN /\ row \in Row /\ row.ver \in 1..Version
  BY DEF TypeOK
<1>2. \/ rows' = rows /\ spliced' = spliced
      \/ rows' = <<row>> /\ spliced' = FALSE
      \/ rows' = Append(rows, row) /\ spliced' = spliced
  BY DEF Persist, log
<1> HIDE DEF row
<1>3. CASE rows' = <<row>> /\ spliced' = FALSE
  <2>1. rows' \in Seq(Row) /\ Len(rows') = 1 /\ rows'[1] = row
    BY <1>1, <1>3
  <2>2. \A i \in 1..Len(rows') : i = 1
    BY <2>1
  <2>3. \A i \in 1..Len(rows') : rows'[i].ver \in 1..Version
    BY <1>1, <2>1, <2>2
  <2>4. QED
    BY <1>3, <2>1, <2>3
<1>4. CASE rows' = Append(rows, row) /\ spliced' = spliced
  <2>1. rows' \in Seq(Row) /\ Len(rows') = Len(rows) + 1 /\ rows'[Len(rows) + 1] = row
        /\ \A i \in 1..Len(rows) : rows'[i] = rows[i]
    BY <1>1, <1>4
  <2>2. QED
    BY <1>1, <1>4, <2>1
<1>5. QED
  BY <1>1, <1>2, <1>3, <1>4

LEMMA StepTypeOK == TypeOK /\ Discovered /\ [Next]_vars => TypeOK' /\ Discovered'
<1> SUFFICES ASSUME TypeOK, Discovered, [Next]_vars PROVE TypeOK' /\ Discovered'
  OBVIOUS
<1>0. Version \in Nat /\ Version >= 1
  BY DEF TypeOK, Version
<1>1. CASE Change
  <2>1. PICK d \in Changes :
          /\ books' = Append(books, Merge(books[Version], d))
          /\ wire' = IF streaming
                       THEN Append(wire, [kind |-> "price_change", data |-> d, ver |-> Version + 1])
                       ELSE wire
    BY <1>1 DEF Change
  <2>2. UNCHANGED <<streaming, conn, disc, rest, log>>
    BY <1>1 DEF Change
  <2>3. books[Version] \in Book
    BY <1>0 DEF TypeOK, Version
  <2>4. books' \in Seq(Book) /\ Version' = Version + 1 /\ Len(books') >= 1
    BY <1>0, <2>1, <2>3, MergeType DEF TypeOK, Version
  <2>5. wire' \in Seq(Message) /\ \A i \in 1..Len(wire') : wire'[i].ver \in 1..Version'
    <3> DEFINE m == [kind |-> "price_change", data |-> d, ver |-> Version + 1]
    <3>1. m \in Message /\ m.ver = Version'
      BY <1>0, <2>4 DEF Message
    <3>2. wire \in Seq(Message) /\ \A i \in 1..Len(wire) : wire[i].ver \in 1..Version'
      BY <1>0, <2>4 DEF TypeOK
    <3> HIDE DEF m
    <3>3. CASE wire' = Append(wire, m)
      <4>1. /\ wire' \in Seq(Message) /\ Len(wire') = Len(wire) + 1
            /\ wire'[Len(wire) + 1] = m /\ \A i \in 1..Len(wire) : wire'[i] = wire[i]
        BY <3>1, <3>2, <3>3
      <4>2. QED
        BY <1>0, <2>4, <3>1, <3>2, <4>1
    <3>4. QED
      BY <2>1, <3>2, <3>3 DEF m
  <2>6. \A i \in 1..Len(rows') : rows'[i].ver \in 1..Version'
    BY <1>0, <2>2, <2>4 DEF TypeOK, log
  <2>7. answer' \in 0..Version'
    BY <1>0, <2>2, <2>4 DEF TypeOK, rest
  <2>8. TypeOK'
    BY <2>2, <2>4, <2>5, <2>6, <2>7 DEF TypeOK, conn, disc, rest, log
  <2>9. QED
    BY <2>2, <2>8 DEF Discovered, disc
<1>2. ASSUME wire' = Append(wire, BookOf(Version)), books' = books,
             UNCHANGED <<session, meta, subscribed, rest, log>>,
             streaming' \in BOOLEAN, reading' \in BOOLEAN,
             dpc' \in {"start", "published", "subscribing", "idle", "unsubscribing"}
      PROVE  TypeOK'
  <2>1. BookOf(Version) \in Message /\ BookOf(Version).ver \in 1..Version
    <3>1. Version \in 1..Version
      BY <1>0
    <3>2. BookOf(Version).ver = Version
      BY DEF BookOf
    <3>3. QED
      BY <3>1, <3>2, FullBook
  <2>2. wire' \in Seq(Message) /\ \A i \in 1..Len(wire') : wire'[i].ver \in 1..Version
    <3>1. wire \in Seq(Message) /\ \A i \in 1..Len(wire) : wire[i].ver \in 1..Version
      BY DEF TypeOK
    <3>2. /\ wire' \in Seq(Message) /\ Len(wire') = Len(wire) + 1
          /\ wire'[Len(wire) + 1] = BookOf(Version)
          /\ \A i \in 1..Len(wire) : wire'[i] = wire[i]
      BY <1>2, <2>1, <3>1
    <3>3. QED
      BY <2>1, <3>1, <3>2
  <2>3. QED
    BY <1>2, <2>2 DEF TypeOK, Version, rest, log
<1>3. CASE Trade
  <2>1. wire' = Append(wire, BookOf(Version))
        /\ UNCHANGED <<books, streaming, conn, disc, rest, log>>
    BY <1>3 DEF Trade
  <2>2. TypeOK'
    BY <1>2, <2>1 DEF TypeOK, conn, disc
  <2>3. QED
    BY <2>1, <2>2 DEF Discovered, disc
<1>4. CASE SendSubscribe
  <2>1. /\ wire' = Append(wire, BookOf(Version)) /\ dpc = "subscribing"
        /\ streaming' = TRUE /\ dpc' = "idle" /\ reading' = TRUE
        /\ UNCHANGED <<books, session, meta, subscribed, rest, log>>
    BY <1>4 DEF SendSubscribe
  <2>2. TypeOK'
    BY <1>2, <2>1
  <2>3. QED
    BY <2>1, <2>2 DEF Discovered
<1>5. CASE ReadWs
  <2>1. /\ wire # <<>> /\ Persist("ws", Head(wire)) /\ wire' = Tail(wire)
        /\ UNCHANGED <<books, streaming, conn, disc, rest>>
    BY <1>5 DEF ReadWs, Stored
  <2>2. /\ wire \in Seq(Message) /\ Head(wire) \in Message /\ Head(wire).ver \in 1..Version
        /\ Tail(wire) \in Seq(Message) /\ Len(Tail(wire)) = Len(wire) - 1
        /\ \A i \in 1..Len(Tail(wire)) : Tail(wire)[i] = wire[i + 1] /\ i + 1 \in 1..Len(wire)
    BY <2>1 DEF TypeOK
  <2>3. /\ rows' \in Seq(Row) /\ \A i \in 1..Len(rows') : rows'[i].ver \in 1..Version
        /\ spliced' \in BOOLEAN
    BY <2>1, <2>2, WsRow, PersistType
  <2>4. \A i \in 1..Len(wire') : wire'[i].ver \in 1..Version
    BY <2>1, <2>2 DEF TypeOK
  <2>5. TypeOK'
    BY <2>1, <2>2, <2>3, <2>4 DEF TypeOK, Version, conn, disc, rest
  <2>6. QED
    BY <2>1, <2>5 DEF Discovered, disc
<1>6. CASE PersistAnchor
  <2>1. /\ rpc = "answered" /\ Persist("rest", BookOf(answer)) /\ rpc' = "idle" /\ answer' = 0
        /\ UNCHANGED <<books, streaming, wire, conn, disc>>
    BY <1>6 DEF PersistAnchor
  <2>2. answer \in 1..Version /\ BookOf(answer).ver = answer
    BY <1>0, <2>1 DEF TypeOK, BookOf
  <2>3. /\ rows' \in Seq(Row) /\ \A i \in 1..Len(rows') : rows'[i].ver \in 1..Version
        /\ spliced' \in BOOLEAN
    BY <2>1, <2>2, FullBook, PersistType
  <2>4. TypeOK'
    BY <1>0, <2>1, <2>3 DEF TypeOK, Version, conn, disc
  <2>5. QED
    BY <2>1, <2>4 DEF Discovered, disc
<1>7. CASE FetchBook
  BY <1>7 DEF FetchBook, TypeOK, Discovered, Version, conn, disc, log
<1>8. CASE Answer
  BY <1>0, <1>8 DEF Answer, TypeOK, Discovered, Version, conn, disc, log
<1>9. CASE Publish
  <2>1. spliced' \in BOOLEAN
    BY <1>9 DEF Publish
  <2>2. QED
    BY <1>9, <2>1 DEF Publish, TypeOK, Discovered, Version, conn, rest
<1>10. CASE Subscribe \/ StaySubscribed
  BY <1>10 DEF Subscribe, StaySubscribed, TypeOK, Discovered, Version, conn, rest, log
<1>11. CASE StartWithout
  BY <1>11 DEF StartWithout, TypeOK, Discovered, Version, rest, log
<1>12. CASE Withdraw
  BY <1>12 DEF Withdraw, TypeOK, Discovered, Version, conn, rest, log
<1>13. CASE SendUnsubscribe
  BY <1>13 DEF SendUnsubscribe, TypeOK, Discovered, Version, conn, rest, log
<1>14. CASE Forget
  <2>1. UNCHANGED <<books, streaming, wire, session, reading, subscribed, dpc, rpc, answer,
                    rows, spliced>> /\ meta' = FALSE
    BY <1>14 DEF Forget, conn, rest, log
  <2>2. TypeOK'
    BY <2>1 DEF TypeOK, Version
  <2>3. QED
    BY <2>1, <2>2 DEF Discovered
<1>15. CASE Reconnect
  <2>1. session' \in 1..MaxSessions
    BY <1>15, ReplayBoundsAssumption DEF Reconnect, TypeOK
  <2>2. wire' \in Seq(Message) /\ \A i \in 1..Len(wire') : wire'[i].ver \in 1..Version
    BY <1>15 DEF Reconnect
  <2>3. /\ books' = books /\ rows' = rows /\ spliced' = spliced /\ reading' = FALSE
        /\ streaming' = FALSE /\ meta' = FALSE /\ subscribed' = FALSE /\ dpc' = "start"
        /\ rpc' = "idle" /\ answer' = 0
    BY <1>15 DEF Reconnect, log
  <2>4. /\ books \in Seq(Book) /\ Len(books) >= 1 /\ rows \in Seq(Row)
        /\ (\A i \in 1..Len(rows) : rows[i].ver \in 1..Version) /\ spliced \in BOOLEAN
    BY DEF TypeOK
  <2>5. Version' = Version /\ 0 \in 0..Version
    BY <1>0, <2>3 DEF Version
  <2>6. TypeOK'
    BY <2>1, <2>2, <2>3, <2>4, <2>5 DEF TypeOK
  <2>7. QED
    BY <2>3, <2>6 DEF Discovered
<1>16. CASE UNCHANGED vars
  BY <1>16 DEF vars, TypeOK, Discovered, Version
<1>17. QED
  BY <1>1, <1>3, <1>4, <1>5, <1>6, <1>7, <1>8, <1>9, <1>10, <1>11, <1>12, <1>13, <1>14, <1>15, <1>16
     DEF Next

---------------------------------------------------------------------------
(* The steps *)

\* A message of today's book goes on where the last one ended.
LEMMA BookSent ==
  ASSUME TypeOK, WireRuns, StreamGoesOn, books' = books, rows' = rows, spliced' = spliced,
         meta' = meta, wire' = Append(wire, BookOf(Version))
  PROVE  WireRuns' /\ StreamGoesOn'
<1> DEFINE m == BookOf(Version)
<1>1. m.kind = "book" /\ m.ver = Version /\ m.data = books[Version]
  BY DEF BookOf
<1>2. wire \in Seq(Message) /\ Len(wire) \in Nat /\ m \in Message
  <2>1. Version \in 1..Version
    BY DEF TypeOK, Version
  <2>2. m \in Message
    BY <2>1, FullBook
  <2>3. wire \in Seq(Message)
    BY DEF TypeOK
  <2>4. QED
    BY <2>2, <2>3
<1> HIDE DEF m
<1>3. /\ wire' = Append(wire, m) /\ Len(wire') = Len(wire) + 1 /\ wire'[Len(wire) + 1] = m
      /\ wire' # <<>> /\ \A i \in 1..Len(wire) : wire'[i] = wire[i]
  BY <1>2 DEF m
<1>4. Version' = Version
  BY DEF Version
<1>5. WireRuns'
  <2>1. ASSUME NEW i \in 1..Len(wire') PROVE BelongsTo(books, wire'[i])
    <3>1. i = Len(wire) + 1 \/ i \in 1..Len(wire)
      BY <1>2, <1>3
    <3>2. BelongsTo(books, m)
      BY <1>1 DEF BelongsTo
    <3>3. QED
      BY <1>3, <3>1, <3>2 DEF WireRuns
  <2>2. ASSUME NEW i \in 1..(Len(wire') - 1), wire'[i + 1].kind # "book"
        PROVE  wire'[i + 1].ver = wire'[i].ver + 1
    <3>1. i \in 1..Len(wire)
      BY <1>2, <1>3
    <3>2. i # Len(wire)
      BY <1>1, <1>3, <2>2
    <3>3. i \in 1..(Len(wire) - 1) /\ i + 1 \in 1..Len(wire)
      BY <1>2, <3>1, <3>2
    <3>4. wire'[i] = wire[i] /\ wire'[i + 1] = wire[i + 1]
      BY <1>3, <3>1, <3>3
    <3>5. QED
      BY <2>2, <3>3, <3>4 DEF WireRuns
  <2>3. wire'[Len(wire')].ver = Version
    BY <1>1, <1>3
  <2>4. QED
    BY <1>4, <2>1, <2>2, <2>3 DEF WireRuns
<1>6. StreamGoesOn'
  <2>1. SUFFICES ASSUME meta, ~spliced, wire'[1].kind # "book"
                 PROVE  WsRows # {} /\ LastWs.ver = wire'[1].ver - 1
    BY <1>3 DEF StreamGoesOn, RecordedUpTo, LastWs, WsRows
  <2>2. wire # <<>> /\ wire'[1] = wire[1]
    BY <1>1, <1>2, <1>3, <2>1
  <2>3. RecordedUpTo(wire[1].ver - 1)
    BY <2>1, <2>2 DEF StreamGoesOn
  <2>4. QED
    BY <2>2, <2>3 DEF RecordedUpTo
<1>7. QED
  BY <1>5, <1>6

\* A change leads from the book that was sent last.
LEMMA ChangeSent ==
  ASSUME TypeOK, WireRuns, StreamGoesOn, Change
  PROVE  WireRuns' /\ StreamGoesOn' /\ \A v \in 1..Version : books'[v] = books[v]
<1>1. PICK d \in Changes :
        /\ books' = Append(books, Merge(books[Version], d))
        /\ wire' = IF streaming
                     THEN Append(wire, [kind |-> "price_change", data |-> d, ver |-> Version + 1])
                     ELSE wire
  BY DEF Change
<1> DEFINE m == [kind |-> "price_change", data |-> d, ver |-> Version + 1]
<1>2. /\ streaming' = streaming /\ meta' = meta /\ rows' = rows /\ spliced' = spliced
  BY DEF Change, disc, log
<1>3. /\ Version \in Nat /\ Version >= 1 /\ books \in Seq(Book) /\ books[Version] \in Book
      /\ wire \in Seq(Message) /\ Len(wire) \in Nat
      /\ \A i \in 1..Len(wire) : wire[i].ver \in 1..Version
  BY DEF TypeOK, Version
<1>4. /\ Version' = Version + 1 /\ books'[Version + 1] = Merge(books[Version], d)
      /\ \A v \in 1..Version : books'[v] = books[v]
  BY <1>1, <1>3, MergeType DEF Version
<1>5. ASSUME NEW i \in 1..Len(wire) PROVE BelongsTo(books', wire[i])
  <2>1. BelongsTo(books, wire[i]) /\ wire[i].ver \in 1..Version
    BY <1>3 DEF WireRuns
  <2>2. wire[i].kind # "book" => wire[i].ver - 1 \in 1..Version
    BY <1>3, <2>1 DEF BelongsTo
  <2>3. QED
    BY <1>4, <2>1, <2>2 DEF BelongsTo
<1>6. \A v : RecordedUpTo(v)' <=> RecordedUpTo(v)
  BY <1>2 DEF RecordedUpTo, LastWs, WsRows
<1>7. CASE ~streaming
  <2>1. wire' = wire
    BY <1>1, <1>7
  <2>2. WireRuns'
    BY <1>2, <1>5, <1>7, <2>1 DEF WireRuns
  <2>3. StreamGoesOn'
    BY <1>2, <1>6, <1>7, <2>1 DEF StreamGoesOn
  <2>4. QED
    BY <1>4, <2>2, <2>3
<1>8. CASE streaming
  <2>1. m.kind # "book" /\ m.ver = Version + 1 /\ m \in Message /\ BelongsTo(books', m)
    <3>1. m \in Message
      BY <1>3 DEF Message
    <3>2. (Version + 1) - 1 = Version /\ Version \in 1..Version /\ Version + 1 >= 2
      BY <1>3
    <3>3. QED
      BY <1>4, <3>1, <3>2 DEF BelongsTo
  <2>2. wire' = Append(wire, m)
    BY <1>1, <1>8
  <2> HIDE DEF m
  <2>3. /\ Len(wire') = Len(wire) + 1 /\ wire'[Len(wire) + 1] = m /\ wire' # <<>>
        /\ \A i \in 1..Len(wire) : wire'[i] = wire[i]
    BY <1>3, <2>1, <2>2
  <2>4. WireRuns'
    <3>1. ASSUME NEW i \in 1..Len(wire') PROVE BelongsTo(books', wire'[i])
      <4>1. i = Len(wire) + 1 \/ i \in 1..Len(wire)
        BY <1>3, <2>3
      <4>2. QED
        BY <1>5, <2>1, <2>3, <4>1
    <3>2. ASSUME NEW i \in 1..(Len(wire') - 1), wire'[i + 1].kind # "book"
          PROVE  wire'[i + 1].ver = wire'[i].ver + 1
      <4>1. i \in 1..Len(wire) /\ wire'[i] = wire[i]
        BY <1>3, <2>3
      <4>2. CASE i = Len(wire)
        <5>1. wire # <<>>
          BY <1>3, <4>1
        <5>2. wire[Len(wire)].ver = Version
          BY <1>8, <5>1 DEF WireRuns
        <5>3. QED
          BY <2>1, <2>3, <4>1, <4>2, <5>2
      <4>3. CASE i # Len(wire)
        <5>1. i \in 1..(Len(wire) - 1) /\ i + 1 \in 1..Len(wire)
          BY <1>3, <4>1, <4>3
        <5>2. wire'[i + 1] = wire[i + 1]
          BY <2>3, <5>1
        <5>3. QED
          BY <3>2, <4>1, <5>1, <5>2 DEF WireRuns
      <4>4. QED
        BY <4>2, <4>3
    <3>3. wire'[Len(wire')].ver = Version'
      BY <1>4, <2>1, <2>3
    <3>4. QED
      BY <3>1, <3>2, <3>3 DEF WireRuns
  <2>5. StreamGoesOn'
    <3>1. SUFFICES ASSUME meta, ~spliced, wire'[1].kind # "book"
                   PROVE  RecordedUpTo(wire'[1].ver - 1)
      BY <1>2, <1>6, <2>3 DEF StreamGoesOn
    <3>2. CASE wire = <<>>
      <4>1. RecordedUpTo(Version)
        BY <1>8, <3>1, <3>2 DEF StreamGoesOn
      <4>2. wire'[1].ver - 1 = Version
        BY <1>3, <2>1, <2>3, <3>2
      <4>3. QED
        BY <4>1, <4>2
    <3>3. CASE wire # <<>>
      <4>1. wire'[1] = wire[1]
        BY <1>3, <2>3, <3>3
      <4>2. QED
        BY <3>1, <3>3, <4>1 DEF StreamGoesOn
    <3>4. QED
      BY <3>2, <3>3
  <2>6. QED
    BY <1>4, <2>4, <2>5
<1>9. QED
  BY <1>7, <1>8

\* The first message is taken.
LEMMA WireShrinks ==
  ASSUME TypeOK, WireRuns, wire # <<>>, books' = books, streaming' = streaming,
         wire' = Tail(wire)
  PROVE  /\ WireRuns'
         /\ wire' # <<>> /\ wire'[1].kind # "book" => wire'[1].ver - 1 = Head(wire).ver
         /\ wire' = <<>> /\ streaming => Head(wire).ver = Version
<1>1. /\ wire \in Seq(Message) /\ Len(wire) \in Nat /\ Len(wire) >= 1 /\ Head(wire) = wire[1]
      /\ wire' \in Seq(Message) /\ Len(wire') = Len(wire) - 1
      /\ \A i \in 1..Len(wire') : wire'[i] = wire[i + 1] /\ i + 1 \in 1..Len(wire)
      /\ \A i \in 1..Len(wire) : wire[i].ver \in Nat
  BY DEF TypeOK, Message
<1>2. wire' # <<>> <=> Len(wire') >= 1
  <2>1. wire' \in Seq(Message) /\ Len(wire') \in Nat
    BY <1>1
  <2>2. QED
    BY <2>1
<1>3. WireRuns'
  <2>1. \A i \in 1..Len(wire') : BelongsTo(books, wire'[i])
    BY <1>1 DEF WireRuns
  <2>2. ASSUME NEW i \in 1..(Len(wire') - 1), wire'[i + 1].kind # "book"
        PROVE  wire'[i + 1].ver = wire'[i].ver + 1
    <3>1. i \in 1..Len(wire') /\ i + 1 \in 1..Len(wire') /\ i + 1 \in 1..(Len(wire) - 1)
      BY <1>1
    <3>2. wire'[i] = wire[i + 1] /\ wire'[i + 1] = wire[(i + 1) + 1]
      BY <1>1, <3>1
    <3>3. QED
      BY <2>2, <3>1, <3>2 DEF WireRuns
  <2>3. ASSUME streaming, wire' # <<>> PROVE wire'[Len(wire')].ver = Version
    <3>1. Len(wire') \in 1..Len(wire') /\ Len(wire') + 1 = Len(wire)
      BY <1>1, <1>2, <2>3
    <3>2. wire'[Len(wire')] = wire[Len(wire)]
      BY <1>1, <3>1
    <3>3. QED
      BY <2>3, <3>2 DEF WireRuns
  <2>4. QED
    BY <2>1, <2>2, <2>3 DEF WireRuns, Version
<1>4. ASSUME wire' # <<>>, wire'[1].kind # "book" PROVE wire'[1].ver - 1 = Head(wire).ver
  <2>1. 1 \in 1..Len(wire') /\ 1 \in 1..(Len(wire) - 1)
    BY <1>1, <1>2, <1>4
  <2>2. wire'[1] = wire[1 + 1]
    BY <1>1, <2>1
  <2>3. wire[1 + 1].ver = wire[1].ver + 1 /\ wire[1].ver \in Nat
    BY <1>1, <1>4, <2>1, <2>2 DEF WireRuns
  <2>4. wire'[1].ver = wire[1].ver + 1 /\ wire[1].ver = Head(wire).ver
    BY <1>1, <2>2, <2>3
  <2>5. wire[1].ver \in Nat
    BY <2>3
  <2>6. \A v \in Nat : (v + 1) - 1 = v
    OBVIOUS
  <2>7. QED
    BY <2>4, <2>5, <2>6, Zenon
<1>5. ASSUME wire' = <<>>, streaming PROVE Head(wire).ver = Version
  <2>1. Len(wire) = 1
    BY <1>1, <1>2, <1>5
  <2>2. QED
    BY <1>1, <1>5, <2>1 DEF WireRuns
<1>6. QED
  BY <1>3, <1>4, <1>5

LEMMA StepIInv == IInv /\ [Next]_vars => IInv'
<1> SUFFICES ASSUME IInv, [Next]_vars PROVE IInv'
  OBVIOUS
<1>1. TypeOK /\ Discovered /\ WireRuns /\ StreamGoesOn /\ Recorded
  BY DEF IInv
<1>2. TypeOK' /\ Discovered'
  BY <1>1, StepTypeOK
<1>3. SUFFICES WireRuns' /\ StreamGoesOn' /\ Recorded'
  BY <1>2 DEF IInv
<1>4. ASSUME UNCHANGED <<books, wire, rows, spliced>>, streaming' => streaming, meta' => meta
      PROVE  WireRuns' /\ StreamGoesOn' /\ Recorded'
  <2>1. WireRuns'
    BY <1>1, <1>4 DEF WireRuns, Version
  <2>2. \A v : RecordedUpTo(v)' <=> RecordedUpTo(v)
    BY <1>4 DEF RecordedUpTo, LastWs, WsRows
  <2>3. StreamGoesOn'
    BY <1>1, <1>4, <2>2 DEF StreamGoesOn, Version
  <2>4. Recorded'
    BY <1>1, <1>4, NothingRecorded
  <2>5. QED
    BY <2>1, <2>3, <2>4
<1>5. CASE Change
  <2>1. rows' = rows /\ spliced' = spliced
    BY <1>5 DEF Change, log
  <2>2. WireRuns' /\ StreamGoesOn' /\ \A v \in 1..Version : books'[v] = books[v]
    BY <1>1, <1>5, ChangeSent
  <2>3. QED
    BY <1>1, <2>1, <2>2, NothingRecorded
<1>6. CASE Trade \/ SendSubscribe
  <2>1. UNCHANGED <<books, rows, spliced, meta>> /\ wire' = Append(wire, BookOf(Version))
    BY <1>6 DEF Trade, SendSubscribe, disc, log
  <2>2. Recorded'
    BY <1>1, <2>1, NothingRecorded
  <2>3. QED
    BY <1>1, <2>1, <2>2, BookSent
<1>7. CASE ReadWs
  <2>0. PICK msg : msg = Head(wire)
    OBVIOUS
  <2> DEFINE row == [src |-> "ws", kind |-> msg.kind, data |-> msg.data, ver |-> msg.ver]
  <2>1. /\ wire # <<>> /\ Persist("ws", msg) /\ wire' = Tail(wire)
        /\ UNCHANGED <<books, streaming, meta>>
    BY <1>7, <2>0 DEF ReadWs, Stored, disc
  <2>2. /\ msg \in Message /\ msg = wire[1] /\ msg.ver \in 1..Version /\ BelongsTo(books, msg)
    <3>1. 1 \in 1..Len(wire) /\ Head(wire) = wire[1] /\ Head(wire) \in Message
      BY <1>1, <2>1 DEF TypeOK
    <3>2. QED
      BY <1>1, <2>0, <3>1 DEF TypeOK, WireRuns
  <2>3. /\ row \in Row /\ BelongsTo(books, row) /\ row.src = "ws"
        /\ row.kind = msg.kind /\ row.ver = msg.ver
    BY <2>2, WsRow DEF BelongsTo
  <2>4. /\ WireRuns'
        /\ wire' # <<>> /\ wire'[1].kind # "book" => wire'[1].ver - 1 = msg.ver
        /\ wire' = <<>> /\ streaming => msg.ver = Version
    BY <1>1, <2>0, <2>1, WireShrinks
  <2>5. CASE ~meta
    <3>1. rows' = rows /\ spliced' = spliced
      BY <2>1, <2>5 DEF Persist, log
    <3>2. Recorded'
      BY <1>1, <2>1, <3>1, NothingRecorded
    <3>3. StreamGoesOn'
      BY <2>1, <2>5 DEF StreamGoesOn
    <3>4. QED
      BY <2>4, <3>2, <3>3
  <2>6. CASE meta
    <3>1. Recorded' /\ RecordedUpTo(msg.ver)'
      <4>1. CASE msg.kind = "book"
        <5>1. rows' = <<row>>
          BY <2>1, <2>6, <4>1 DEF Persist
        <5> HIDE DEF row
        <5>2. QED
          BY <1>1, <2>1, <2>3, <4>1, <5>1, WsAnchorRecorded
      <4>2. CASE msg.kind # "book"
        <5>1. rows' = Append(rows, row) /\ spliced' = spliced
          BY <2>1, <2>6, <4>2 DEF Persist
        <5>2. ~spliced => RecordedUpTo(msg.ver - 1)
          BY <1>1, <2>1, <2>2, <2>6, <4>2 DEF StreamGoesOn
        <5> HIDE DEF row
        <5>3. QED
          BY <1>1, <2>1, <2>2, <2>3, <4>2, <5>1, <5>2, WsChangeRecorded
      <4>3. QED
        BY <4>1, <4>2
    <3>2. StreamGoesOn'
      BY <2>1, <2>4, <3>1 DEF StreamGoesOn, Version
    <3>3. QED
      BY <2>4, <3>1, <3>2
  <2>7. QED
    BY <2>5, <2>6
<1>8. CASE PersistAnchor
  <2>0. PICK msg : msg = BookOf(answer)
    OBVIOUS
  <2> DEFINE row == [src |-> "rest", kind |-> msg.kind, data |-> msg.data, ver |-> msg.ver]
  <2>1. /\ rpc = "answered" /\ Persist("rest", msg)
        /\ UNCHANGED <<books, streaming, wire, meta>>
    BY <1>8, <2>0 DEF PersistAnchor, disc
  <2>2. answer \in 1..Version
    BY <1>1, <2>1 DEF TypeOK, Version
  <2>3. /\ row \in Row /\ BelongsTo(books, row) /\ row.src = "rest" /\ row.kind = "book"
    <3>1. row \in Row /\ BelongsTo(books, msg)
      BY <1>1, <2>0, <2>2, FullBook
    <3>2. msg.kind = "book"
      BY <2>0 DEF BookOf
    <3>3. QED
      BY <3>1, <3>2 DEF BelongsTo
  <2>4. \/ rows' = rows /\ spliced' = spliced
        \/ rows' = Append(rows, row) /\ spliced' = spliced
    BY <2>1 DEF Persist, log
  <2>5. CASE rows' = rows /\ spliced' = spliced
    BY <1>4, <2>1, <2>5
  <2>6. CASE rows' = Append(rows, row) /\ spliced' = spliced
    <3> HIDE DEF row
    <3>1. Recorded' /\ \A v : RecordedUpTo(v) => RecordedUpTo(v)'
      BY <1>1, <2>1, <2>3, <2>6, RestAnchorRecorded
    <3>2. WireRuns'
      BY <1>1, <2>1 DEF WireRuns, Version
    <3>3. StreamGoesOn'
      BY <1>1, <2>1, <2>6, <3>1 DEF StreamGoesOn, Version
    <3>4. QED
      BY <3>1, <3>2, <3>3
  <2>7. QED
    BY <2>4, <2>5, <2>6
<1>9. CASE Publish
  <2>1. /\ UNCHANGED <<books, wire, rows, streaming>> /\ dpc \in {"start", "idle"}
        /\ spliced' = (spliced \/ (~meta /\ (subscribed \/ wire # <<>>)))
    BY <1>9 DEF Publish
  <2>2. WireRuns'
    BY <1>1, <2>1 DEF WireRuns, Version
  <2>3. StreamGoesOn'
    <3>1. \A v : RecordedUpTo(v)' <=> RecordedUpTo(v)
      BY <2>1 DEF RecordedUpTo, LastWs, WsRows
    <3>2. CASE meta
      BY <1>1, <2>1, <3>1, <3>2 DEF StreamGoesOn, Version
    <3>3. CASE ~meta /\ (subscribed \/ wire # <<>>)
      BY <2>1, <3>3 DEF StreamGoesOn
    <3>4. CASE ~subscribed /\ wire = <<>>
      <4>1. ~streaming
        BY <1>1, <2>1, <3>4 DEF Discovered
      <4>2. QED
        BY <2>1, <3>4, <4>1 DEF StreamGoesOn
    <3>5. QED
      BY <3>2, <3>3, <3>4
  <2>4. Recorded'
    BY <1>1, <2>1, NothingRecorded
  <2>5. QED
    BY <2>2, <2>3, <2>4
<1>10. CASE Reconnect
  <2>1. UNCHANGED <<books, rows, spliced>> /\ wire' = <<>> /\ ~meta' /\ ~streaming'
    BY <1>10 DEF Reconnect, log
  <2>2. WireRuns'
    BY <2>1 DEF WireRuns
  <2>3. StreamGoesOn'
    BY <2>1 DEF StreamGoesOn
  <2>4. Recorded'
    BY <1>1, <2>1, NothingRecorded
  <2>5. QED
    BY <2>2, <2>3, <2>4
<1>11. CASE FetchBook \/ Answer
  BY <1>4, <1>11 DEF FetchBook, Answer, disc, log
<1>12. CASE Subscribe \/ StaySubscribed \/ StartWithout
  BY <1>4, <1>12 DEF Subscribe, StaySubscribed, StartWithout, log
<1>13. CASE Withdraw \/ SendUnsubscribe \/ Forget
  BY <1>4, <1>13 DEF Withdraw, SendUnsubscribe, Forget, log
<1>14. CASE UNCHANGED vars
  BY <1>4, <1>14 DEF vars
<1>15. QED
  BY <1>5, <1>6, <1>7, <1>8, <1>9, <1>10, <1>11, <1>12, <1>13, <1>14 DEF Next

---------------------------------------------------------------------------
(* The theorems *)

THEOREM IInvHolds == Spec => []IInv
<1>1. Init => IInv
  BY InitIInv
<1>2. IInv /\ [Next]_vars => IInv'
  BY StepIInv
<1>3. QED
  BY <1>1, <1>2, PTL DEF Spec

\* The shape of the state: fullBookSweep holds an answer exactly until it is
\* stored or the connector is gone, what it stores are full books only, and no
\* row or message is of a version the exchange has not had, whatever discovery
\* and checkResolutions do to the token meanwhile.
THEOREM TypeCorrect == Spec => []TypeOK
<1>1. IInv => TypeOK
  BY DEF IInv
<1>2. QED
  BY <1>1, IInvHolds, PTL

\* What readWs records of a token's stream replays to the exchange's book: it
\* begins with an anchor and has no hole, over lost connections, tokens
\* withdrawn and found again and meta entries lost, however many: the exception
\* is a token published again before its old messages were read, or while it
\* was still subscribed, and it ends with the next anchor.
THEOREM StreamReplaysHolds == Spec => []StreamReplays
<1>1. IInv => StreamReplays
  BY DEF IInv, Recorded
<1>2. QED
  BY <1>1, IInvHolds, PTL

\* The latest row is its anchor, or a change the stream has brought.
LEMMA LastRow ==
  ASSUME TypeOK, Anchors # {}
  PROVE  LatestAnchor = Len(rows) \/ (WsRows # {} /\ LastWs = Last(rows))
<1> DEFINE n == Len(rows)
<1>1. rows \in Seq(Row) /\ LatestAnchor \in 1..n /\ n \in Nat
  BY AnchorIsBook DEF TypeOK
<1>2. n \in 1..n /\ rows[n] \in Row
  BY <1>1
<1>3. CASE rows[n].kind = "book"
  <2>1. n \in Anchors /\ Anchors \in SUBSET (1..n) /\ \A i \in Anchors : i <= n
    BY <1>2, <1>3 DEF Anchors
  <2>2. QED
    BY <1>1, <2>1, MaxIs DEF LatestAnchor
<1>4. CASE rows[n].kind # "book"
  <2>1. rows[n].src = "ws"
    BY <1>2, <1>4, RowShape
  <2>2. n \in WsRows /\ WsRows \in SUBSET (1..n) /\ \A i \in WsRows : i <= n
    BY <1>2, <2>1 DEF WsRows
  <2>3. Max(WsRows) = n
    BY <1>1, <2>2, MaxIs
  <2>4. QED
    BY <2>2, <2>3 DEF LastWs, Last
<1>5. QED
  BY <1>3, <1>4

\* A full book from REST may be ahead of the stream, so the changes it already
\* contains are replayed on top of it: a reader who begins with the latest
\* anchor, whoever stored it, has the exchange's book as soon as the stream
\* has caught up with it.
THEOREM AnchorAheadHealsHolds == Spec => []AnchorAheadHeals
<1>1. IInv => AnchorAheadHeals
  <2>1. SUFFICES ASSUME IInv, ~spliced, Anchors # {}, CaughtUp
                 PROVE  Replay(rows, LatestAnchor, {"ws", "rest"}) = books[Last(rows).ver]
    BY DEF AnchorAheadHeals
  <2>2. TypeOK /\ RowsBelong /\ AnchorView
    BY <2>1 DEF IInv, Recorded
  <2>3. /\ rows \in Seq(Row) /\ LatestAnchor \in 1..Len(rows)
        /\ rows[LatestAnchor].kind = "book"
    BY <2>1, <2>2, AnchorIsBook DEF TypeOK
  <2>4. CASE LatestAnchor = Len(rows)
    <3>1. rows # <<>> /\ Last(rows) = rows[LatestAnchor]
      BY <2>3, <2>4 DEF Last
    <3>2. Replay(rows, LatestAnchor, {"ws", "rest"}) = rows[LatestAnchor].data
      BY <2>3, <2>4, <3>1, ReplayStarts
    <3>3. QED
      BY <2>2, <2>3, <3>1, <3>2 DEF RowsBelong, BelongsTo
  <2>5. CASE WsRows # {} /\ LastWs = Last(rows)
    <3>1. LastWs.ver >= AnchorVer /\ \A i \in 1..LatestAnchor : rows[i].ver <= AnchorVer
      BY <2>1, <2>5 DEF CaughtUp, AnchorVer
    <3>2. QED
      BY <2>1, <2>2, <2>5, <3>1 DEF AnchorView, AnchorBook
  <2>6. QED
    BY <2>1, <2>2, <2>4, <2>5, LastRow
<1>2. QED
  BY <1>1, IInvHolds, PTL
=============================================================================
