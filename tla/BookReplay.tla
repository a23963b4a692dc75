---------------------------- MODULE BookReplay ----------------------------
(***************************************************************************)
(* The rows recorded of one token's book, and what a reader makes of them. *)
(* The connector keeps no book: it stores the websocket's full books and   *)
(* changes, and the full books it asks for by REST, as they come, stamped  *)
(* with one counter.  The reader takes the latest full book (anchor) and   *)
(* replays the changes that follow it.                                     *)
(*                                                                         *)
(* A row carries the version of the book it belongs to - what its hash     *)
(* identifies - and rows are listed by seq, from the latest websocket      *)
(* anchor on: nothing older matters to a reader.  The token is one of a    *)
(* configured subject: an AUTO token is promoted and released by the       *)
(* screener.  How rows reach the storage is RecordPipeline's, why a token  *)
(* comes and goes MarketTracking's matter.                                 *)
(***************************************************************************)
EXTENDS Naturals, SequencesExt, TLC

CONSTANTS
  Levels, Sizes,   \* price levels of the token, and the sizes they may have
  MaxVersion,      \* bound: versions of the book in a behaviour
  MaxWire,         \* bound: websocket messages under way
  MaxRows,         \* bound: rows since the latest websocket anchor
  MaxSessions      \* bound: connectors built in a behaviour

ASSUME SizesAssumption == 0 \in Sizes
ASSUME ReplayBoundsAssumption ==
  /\ MaxVersion \in Nat \ {0} /\ MaxWire \in Nat \ {0}
  /\ MaxRows \in Nat \ {0} /\ MaxSessions \in Nat \ {0}

Book    == [Levels -> Sizes]
Changes == UNION {[L -> Sizes] : L \in SUBSET Levels \ {{}}}

\* The changes laid over a book.
Merge(book, d) == [l \in Levels |-> IF l \in DOMAIN d THEN d[l] ELSE book[l]]

Message == [kind : {"book"}, data : Book, ver : Nat]
           \cup [kind : {"price_change"}, data : Changes, ver : Nat]
Row == [src : {"ws", "rest"}, kind : {"book"}, data : Book, ver : Nat]
       \cup [src : {"ws"}, kind : {"price_change"}, data : Changes, ver : Nat]

VARIABLES
  books,       \* every version of the exchange's book so far
  streaming,   \* the exchange streams the token on this connection
  wire,        \* websocket messages under way
  session,     \* connectors built so far
  reading,     \* readWs and fullBookLoop have been started
  meta,        \* the token has an entry in meta
  subscribed,  \* and in subscribed
  dpc,         \* where discovery stands with the token
  rpc,         \* where fullBookSweep stands with the token
  answer,      \* the version REST has answered with, 0 when it has not
  rows,        \* the recorded rows
  spliced      \* history: when the token was published again it was still
               \* subscribed, or old messages were left, and no websocket
               \* anchor was recorded since

conn == <<session, reading>>
disc == <<meta, subscribed, dpc>>
rest == <<rpc, answer>>
log  == <<rows, spliced>>
vars == <<books, streaming, wire, session, reading, meta, subscribed, dpc, rpc, answer,
          rows, spliced>>

Version   == Len(books)
BookOf(v) == [kind |-> "book", data |-> books[v], ver |-> v]

Init ==
  /\ books = <<[l \in Levels |-> 0]>> /\ streaming = FALSE /\ wire = <<>>
  /\ session = 1 /\ reading = FALSE
  /\ meta = FALSE /\ subscribed = FALSE /\ dpc = "start"
  /\ rpc = "idle" /\ answer = 0 /\ rows = <<>> /\ spliced = FALSE

---------------------------------------------------------------------------
(* The exchange *)

\* The book changes, at one level or at several at once; the message names
\* the new sizes.
Change ==
  /\ Version < MaxVersion /\ (streaming => Len(wire) < MaxWire)
  /\ \E d \in Changes :
       /\ \A l \in DOMAIN d : d[l] # books[Version][l]
       /\ books' = Append(books, Merge(books[Version], d))
       /\ wire' = IF streaming
                    THEN Append(wire, [kind |-> "price_change", data |-> d, ver |-> Version + 1])
                    ELSE wire
  /\ UNCHANGED <<streaming, conn, disc, rest, log>>

\* A trade: the full book is sent.
Trade ==
  /\ streaming /\ Len(wire) < MaxWire
  /\ wire' = Append(wire, BookOf(Version))
  /\ UNCHANGED <<books, streaming, conn, disc, rest, log>>

---------------------------------------------------------------------------
(* readWs, fullBookLoop *)

\* persistBook: the row of a token in meta is stamped, that of another is
\* dropped.
Persist(src, msg) ==
  LET row == [src |-> src, kind |-> msg.kind, data |-> msg.data, ver |-> msg.ver] IN
    IF ~meta THEN UNCHANGED log
    ELSE IF src = "ws" /\ msg.kind = "book"
           THEN rows' = <<row>> /\ spliced' = FALSE
           ELSE rows' = Append(rows, row) /\ UNCHANGED spliced

\* Mutant of Stored: of several changes of the token only the last is kept.
LastChange(msg) ==
  IF msg.kind = "book" THEN msg
    ELSE [msg EXCEPT !.data = LET l == CHOOSE l \in DOMAIN @ : TRUE IN l :> @[l]]

\* What readWs makes of a message: the changes of the token are collected.
Stored(msg) == msg

ReadWs ==
  /\ reading /\ wire # <<>> /\ Len(rows) < MaxRows
  /\ Persist("ws", Stored(Head(wire)))
  /\ wire' = Tail(wire)
  /\ UNCHANGED <<books, streaming, conn, disc, rest>>

\* A sweep asks for the token's book ...
FetchBook ==
  /\ reading /\ rpc = "idle" /\ subscribed /\ meta
  /\ rpc' = "asked"
  /\ UNCHANGED <<books, streaming, wire, conn, disc, answer, log>>

\* ... which is answered, or not (there is none, or the call fails) ...
Answer ==
  /\ rpc = "asked"
  /\ \/ rpc' = "answered" /\ answer' = Version
     \/ rpc' = "idle" /\ UNCHANGED answer
  /\ UNCHANGED <<books, streaming, wire, conn, disc, log>>

\* Mutant of PersistAnchor: the answer is not cleared.
PersistAnchorAgain ==
  /\ rpc = "answered" /\ Len(rows) < MaxRows
  /\ Persist("rest", BookOf(answer))
  /\ rpc' = "idle"
  /\ UNCHANGED <<books, streaming, wire, conn, disc, answer>>

\* ... and stored.
PersistAnchor ==
  /\ rpc = "answered" /\ Len(rows) < MaxRows
  /\ Persist("rest", BookOf(answer))
  /\ rpc' = "idle" /\ answer' = 0
  /\ UNCHANGED <<books, streaming, wire, conn, disc>>

---------------------------------------------------------------------------
(* discover, reconcileSubscriptions *)

\* The token is among the markets found: its meta entry is published.  When
\* it had none, what is left unread of an earlier subscription is recorded
\* from here on, and what comes on a subscription that was kept ...
Publish ==
  /\ dpc \in {"start", "idle"}
  /\ meta' = TRUE /\ dpc' = "published"
  /\ spliced' = (spliced \/ (~meta /\ (subscribed \/ wire # <<>>)))
  /\ UNCHANGED <<books, streaming, wire, conn, subscribed, rest, rows>>

\* ... a token that is subscribed already is left alone ...
StaySubscribed ==
  /\ dpc = "published" /\ subscribed
  /\ dpc' = "idle"
  /\ UNCHANGED <<books, streaming, wire, conn, meta, subscribed, rest, log>>

\* ... another is entered in subscribed ...
Subscribe ==
  /\ dpc = "published" /\ ~subscribed
  /\ subscribed' = TRUE /\ dpc' = "subscribing"
  /\ UNCHANGED <<books, streaming, wire, conn, meta, rest, log>>

\* ... and the frame is sent, to which the exchange answers with the full
\* book.  After the first discovery of a connector its loops are started.
SendSubscribe ==
  /\ dpc = "subscribing" /\ Len(wire) < MaxWire
  /\ streaming' = TRUE /\ wire' = Append(wire, BookOf(Version))
  /\ dpc' = "idle" /\ reading' = TRUE
  /\ UNCHANGED <<books, session, meta, subscribed, rest, log>>

\* The first discovery does not find the token.
StartWithout ==
  /\ dpc = "start"
  /\ dpc' = "idle" /\ reading' = TRUE
  /\ UNCHANGED <<books, streaming, wire, session, meta, subscribed, rest, log>>

\* A later discovery does not find it: out of both maps it goes ...
Withdraw ==
  /\ dpc = "idle" /\ subscribed
  /\ subscribed' = FALSE /\ meta' = FALSE /\ dpc' = "unsubscribing"
  /\ UNCHANGED <<books, streaming, wire, conn, rest, log>>

\* Mutant of SendUnsubscribe: the frame is not sent.
SendNothing ==
  /\ dpc = "unsubscribing"
  /\ dpc' = "idle"
  /\ UNCHANGED <<books, streaming, wire, conn, meta, subscribed, rest, log>>

\* ... and is unsubscribed.  What was under way still arrives.
SendUnsubscribe ==
  /\ dpc = "unsubscribing"
  /\ streaming' = FALSE /\ dpc' = "idle"
  /\ UNCHANGED <<books, wire, conn, meta, subscribed, rest, log>>

\* checkResolutions, beside all this: the token's market has an outcome, and
\* its meta entry goes.  It stays subscribed until a discovery withdraws it.
Forget ==
  /\ reading /\ meta
  /\ meta' = FALSE
  /\ UNCHANGED <<books, streaming, wire, conn, subscribed, dpc, rest, log>>

\* The connection is lost with what was under way; the next connector starts
\* with empty maps.
Reconnect ==
  /\ session < MaxSessions /\ session' = session + 1 /\ reading' = FALSE
  /\ streaming' = FALSE /\ wire' = <<>>
  /\ meta' = FALSE /\ subscribed' = FALSE /\ dpc' = "start"
  /\ rpc' = "idle" /\ answer' = 0
  /\ UNCHANGED <<books, log>>

Next ==
  \/ Change \/ Trade \/ ReadWs \/ FetchBook \/ Answer \/ PersistAnchor
  \/ Publish \/ StaySubscribed \/ Subscribe \/ SendSubscribe \/ StartWithout
  \/ Withdraw \/ SendUnsubscribe \/ Forget \/ Reconnect

Spec == Init /\ [][Next]_vars

---------------------------------------------------------------------------
(* Properties *)

\* The shape of the state; an answer is there exactly while it is to be stored,
\* and REST records full books only.
TypeOK ==
  /\ books \in Seq(Book) /\ Len(books) >= 1 /\ streaming \in BOOLEAN
  /\ wire \in Seq(Message) /\ \A i \in 1..Len(wire) : wire[i].ver \in 1..Version
  /\ session \in 1..MaxSessions /\ reading \in BOOLEAN
  /\ meta \in BOOLEAN /\ subscribed \in BOOLEAN
  /\ dpc \in {"start", "published", "subscribing", "idle", "unsubscribing"}
  /\ rpc \in {"idle", "asked", "answered"} /\ answer \in 0..Version
  /\ rpc = "answered" <=> answer # 0
  /\ rows \in Seq(Row) /\ \A i \in 1..Len(rows) : rows[i].ver \in 1..Version
  /\ spliced \in BOOLEAN

\* What a reader of the rows of some origins makes of a row, ...
Read(book, row, origins) ==
  IF row.src \notin origins THEN book
  ELSE IF row.kind = "book" THEN row.data ELSE Merge(book, row.data)

\* ... and the book he gets from the anchor in row from on.
Replay(s, from, origins) ==
  LET book[i \in from..Len(s)] ==
        IF i = from THEN s[i].data ELSE Read(book[i - 1], s[i], origins)
  IN book[Len(s)]

WsRows  == {i \in 1..Len(rows) : rows[i].src = "ws"}
Anchors == {i \in 1..Len(rows) : rows[i].kind = "book"}

LastWs       == rows[Max(WsRows)]
LatestAnchor == Max(Anchors)

\* The stream as the websocket brought it replays exactly: it begins with an
\* anchor and has no hole, over lost connections, over tokens withdrawn while
\* messages are under way and found again, and over tokens whose meta entry
\* went with the outcome of their market.  The exception lasts to the next
\* anchor, for a token published again while messages were still unread, or
\* while it was still subscribed, which brings it no anchor.
StreamReplays ==
  WsRows # {} /\ ~spliced => /\ rows[1].src = "ws" /\ rows[1].kind = "book"
                             /\ Replay(rows, 1, {"ws"}) = books[LastWs.ver]

\* No row up to the latest anchor is newer than it, and the last row is not
\* older: what REST answered is not stale, and the stream has caught up.
CaughtUp ==
  /\ \A i \in 1..LatestAnchor : rows[i].ver <= rows[LatestAnchor].ver
  /\ Last(rows).ver >= rows[LatestAnchor].ver

\* An anchor that REST has answered AHEAD of the stream does no harm: as soon
\* as the stream has caught up, the replay from the latest anchor of any origin
\* is exact again, although changes the anchor already contained were replayed
\* on top of it.
AnchorAheadHeals ==
  ~spliced /\ Anchors # {} /\ CaughtUp =>
    Replay(rows, LatestAnchor, {"ws", "rest"}) = books[Last(rows).ver]
===========================================================================
