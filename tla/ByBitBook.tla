---------------------------- MODULE ByBitBook ----------------------------
(***************************************************************************)
(* One market of Bybit (spot or futures: the code is the same up to names) *)
(* recorded on the channels ticker and ordersbook, over the connectors     *)
(* that follow one another.  readWs merges the exchange's snapshots and    *)
(* deltas into a cached book, which tickOB stores on a clock of its own;   *)
(* of the ticker channel it keeps the latest quote, to fill in the side a  *)
(* delta leaves out.                                                       *)
(*                                                                         *)
(* Batches, workers, retries and connectors that overlap are those of      *)
(* SpotConnector: here a row is in its table once it is stamped, and the   *)
(* next connector starts when the one before has ended.                    *)
(*                                                                         *)
(* External: on a subscription the exchange sends a snapshot and then each *)
(* change as a delta or, at will, as another snapshot; a delta of the      *)
(* ticker channel names the level that was the best with size 0.           *)
(***************************************************************************)
EXTENDS Naturals, Sequences, FiniteSets, FiniteSetsExt, SequencesExt

CONSTANTS
  Asks, Bids,    \* the price levels of the two sides, as numbers
  MaxSize,       \* bound: sizes of a level
  None,          \* no book
  Filtered,      \* websocket_consider_interval_sec is not 0
  MaxChange,     \* bound: levels that change at once
  MaxVersion,    \* bound: books of the exchange in a behaviour
  MaxSessions    \* bound: connectors in a behaviour

ASSUME LevelsAssumption ==
  /\ Asks \subseteq Nat /\ Bids \subseteq Nat /\ Asks \cap Bids = {}
  /\ IsFiniteSet(Asks) /\ IsFiniteSet(Bids)
ASSUME FilterAssumption == Filtered \in BOOLEAN
ASSUME ByBitBoundsAssumption ==
  {MaxSize, MaxChange, MaxVersion, MaxSessions} \subseteq Nat \ {0}

Channels == {"ticker", "ordersbook"}
Levels   == Asks \cup Bids

\* A level of size 0 is not in the book.
Book == [Levels -> 0..MaxSize]
ASSUME NoneAssumption == None \notin Book

VARIABLES
  past,        \* past[v]: version v of the exchange's book; the last is today's
  \* the connector and its error group
  session,     \* connectors built so far
  failed,      \* a function of the group has returned an error
  procs,       \* functions running
  conn,        \* "none", "open" or "closed"
  fed,         \* channels subscribed
  \* readWs
  row,         \* the row in hand: "none", "book" or "change"
  pos,         \* pos[c]: version of the last frame read of channel c
  quote,       \* storeTick
  cache,       \* cacheOB
  ver,         \* version of the last frame merged into it
  \* tickOB
  copy,        \* what it has copied and not stored, None if nothing
  \* what a reader of the tables has after their last row
  view,        \* his book
  last,        \* the version that row was about
  \* history, for the properties
  skipped,     \* channels of which a frame was ignored since a snapshot
  overtaken,   \* readWs stored a row since tickOB took its copy
  astray       \* his book may go wrong, see StoreRow and StoreCopy

group   == <<failed, procs, conn, fed>>
reading == <<row, pos, quote, cache, ver>>
tables  == <<view, last>>
history == <<skipped, overtaken, astray>>
vars    == <<past, session, failed, procs, conn, fed, row, pos, quote, cache, ver, copy,
             view, last, skipped, overtaken, astray>>

Init ==
  /\ past = <<[l \in Levels |-> 1]>>
  /\ session = 1
  /\ failed = FALSE /\ procs = {"tick"} /\ conn = "none" /\ fed = {}
  /\ row = "none" /\ pos = [c \in Channels |-> 0]
  /\ quote = None /\ cache = None /\ ver = 0
  /\ copy = None
  /\ view = None /\ last = 0
  /\ skipped = {} /\ overtaken = FALSE /\ astray = FALSE

---------------------------------------------------------------------------
(* Books, changes and quotes *)

\* Levels whose size differs between two books, with the new sizes.
Delta(old, new) == [l \in {k \in Levels : old[k] # new[k]} |-> new[l]]

\* A level of size 0 is deleted, another one set: the same here.
Merge(book, delta) == [l \in Levels |-> IF l \in DOMAIN delta THEN delta[l] ELSE book[l]]

AsksOf(book) == {l \in Asks : book[l] # 0}
BidsOf(book) == {l \in Bids : book[l] # 0}

\* The best level of a side with its size, <<>> for an empty side.
BestAsk(book) == LET S == AsksOf(book) IN IF S = {} THEN <<>> ELSE <<Min(S), book[Min(S)]>>
BestBid(book) == LET S == BidsOf(book) IN IF S = {} THEN <<>> ELSE <<Max(S), book[Max(S)]>>
Quote(book)   == [ask |-> BestAsk(book), bid |-> BestBid(book)]

\* The entries of one side in a frame of the ticker channel: in a snapshot the
\* best level; in a delta, in some order, the level that was the best and is
\* not any more, and the one that is.
InSnapshot(best)   == {IF best = <<>> THEN <<>> ELSE <<best>>}
InDelta(old, best) ==
  LET gone == IF old # <<>> /\ (best = <<>> \/ old[1] # best[1]) THEN {<<old[1], 0>>} ELSE {}
      now  == {best} \ {<<>>, old}
  IN SetToSeqs(gone \cup now)

\* Mutant of MergeSide: the first entry is taken.
MergeFirst(kept, entries) == IF entries = <<>> THEN kept ELSE entries[1]

\* readWs: of two entries the one that is there, else the first; what it had
\* when the frame says nothing of the side.
MergeSide(kept, entries) ==
  IF entries = <<>> THEN kept
  ELSE IF Len(entries) = 2 /\ entries[1][2] = 0 THEN entries[2] ELSE entries[1]

---------------------------------------------------------------------------
(* The exchange and the connector *)

ExchangeChanges ==
  /\ Len(past) < MaxVersion
  /\ \E b \in Book \ {Last(past)} :
       /\ Cardinality(DOMAIN Delta(Last(past), b)) <= MaxChange
       /\ past' = Append(past, b)
  /\ UNCHANGED <<session, group, reading, copy, tables, history>>

\* newByBit: connectWs, after which the rest of the group is started.
Connect ==
  /\ conn = "none" /\ ~failed
  /\ conn' = "open"
  /\ procs' = procs \cup {"read", "close"}
  /\ UNCHANGED <<past, session, failed, fed, reading, copy, tables, history>>

\* subWsChannel: the exchange will begin with a snapshot of today's book.
Subscribe(c) ==
  /\ conn = "open" /\ c \notin fed
  /\ fed' = fed \cup {c}
  /\ pos' = [pos EXCEPT ![c] = Len(past) - 1]
  /\ UNCHANGED <<past, session, failed, procs, conn, row, quote, cache, ver, copy, tables, history>>

\* Function p of the group returns its error.
Exit(p) == procs' = procs \ {p} /\ failed' = TRUE

\* A ping, a commit or a subscription fails, or appCtx is cancelled.
GroupFails ==
  /\ ~failed
  /\ failed' = TRUE
  /\ UNCHANGED <<past, session, procs, conn, fed, reading, copy, tables, history>>

\* closeWsConnOnError.
CloseConn ==
  /\ "close" \in procs /\ failed
  /\ Exit("close")
  /\ conn' = "closed"
  /\ UNCHANGED <<past, session, fed, reading, copy, tables, history>>

\* Mutant of Reconnect: the cached book is taken over.
ReconnectCached ==
  /\ procs = {} /\ session < MaxSessions
  /\ session' = session + 1
  /\ failed' = FALSE /\ procs' = {"tick"} /\ conn' = "none" /\ fed' = {}
  /\ pos' = [c \in Channels |-> 0]
  /\ quote' = None
  /\ skipped' = {}
  /\ UNCHANGED <<past, row, cache, ver, copy, tables, overtaken, astray>>

\* StartByBit builds the next connector, with a cache of its own.
Reconnect ==
  /\ procs = {} /\ session < MaxSessions
  /\ session' = session + 1
  /\ failed' = FALSE /\ procs' = {"tick"} /\ conn' = "none" /\ fed' = {}
  /\ pos' = [c \in Channels |-> 0]
  /\ quote' = None /\ cache' = None /\ ver' = 0
  /\ skipped' = {}
  /\ UNCHANGED <<past, row, copy, tables, overtaken, astray>>

---------------------------------------------------------------------------
(* readWs *)

\* A frame of channel c about version v, with no row in hand.
Arrives(c, v) ==
  /\ "read" \in procs /\ row = "none" /\ conn = "open" /\ c \in fed
  /\ v \in 1..Len(past)
  /\ pos' = [pos EXCEPT ![c] = v]

\* It comes too soon after the last one of the channel that was considered.
Skip(c) ==
  /\ Filtered
  /\ skipped' = skipped \cup {c}
  /\ UNCHANGED <<past, session, group, row, quote, cache, ver, copy, tables, overtaken, astray>>

\* Mutant of Replace: the levels before stay.
ReplaceNot(book) ==
  IF cache = None THEN book ELSE [l \in Levels |-> IF book[l] = 0 THEN cache[l] ELSE book[l]]

\* What a snapshot leaves of the cached book.
Replace(book) == book

\* A snapshot replaces the cached book ...
ReadSnapshot ==
  \E v \in {pos["ordersbook"], pos["ordersbook"] + 1} :
    /\ cache = None => v > pos["ordersbook"]
    /\ Arrives("ordersbook", v)
    /\ \/ /\ cache # None
          /\ Skip("ordersbook")
       \/ /\ cache' = Replace(past[v]) /\ ver' = v
          /\ row' = "book"
          /\ skipped' = skipped \ {"ordersbook"}
          /\ UNCHANGED <<past, session, group, quote, copy, tables, overtaken, astray>>

\* ... and a delta is merged into it while an ask is left there.
ReadDelta ==
  LET v == pos["ordersbook"] + 1 IN
    /\ cache # None
    /\ Arrives("ordersbook", v)
    /\ \/ Skip("ordersbook")
       \/ /\ IF AsksOf(cache) # {}
               THEN cache' = Merge(cache, Delta(past[v - 1], past[v])) /\ ver' = v
               ELSE UNCHANGED <<cache, ver>>
          /\ row' = "change"
          /\ UNCHANGED <<past, session, group, quote, copy, tables, history>>

\* Mutant of StoreRow: a delta keeps the event of its channel, ordersbook.
StoreRowAsBook ==
  LET v == pos["ordersbook"] IN
    /\ row # "none"
    /\ last' = v /\ overtaken' = TRUE /\ astray' = FALSE
    /\ view' = IF row = "book" THEN past[v]
               ELSE Merge([l \in Levels |-> 0], Delta(past[v - 1], past[v]))
    /\ row' = "none"
    /\ UNCHANGED <<past, session, group, pos, quote, cache, ver, copy, skipped>>

\* processWs: the row in hand is stored, a snapshot as a book and a delta as
\* changes (level2).  A reader who lacks a change between goes astray.
StoreRow ==
  LET v == pos["ordersbook"] IN
    /\ row # "none"
    /\ last' = v /\ overtaken' = TRUE
    /\ IF row = "book"
         THEN view' = past[v] /\ astray' = FALSE
         ELSE /\ view' = IF view = None THEN None ELSE Merge(view, Delta(past[v - 1], past[v]))
              /\ astray' = (astray \/ "ordersbook" \in skipped)
    /\ row' = "none"
    /\ UNCHANGED <<past, session, group, pos, quote, cache, ver, copy, skipped>>

\* The next version whose quote is another.
NextQuote ==
  LET later == {v \in (pos["ticker"] + 1)..Len(past) : Quote(past[v]) # Quote(past[v - 1])}
  IN IF later = {} THEN Len(past) + 1 ELSE Min(later)

Kept == IF quote = None THEN [ask |-> <<>>, bid |-> <<>>] ELSE quote

\* The quote with the sides a frame speaks of, which is stored when it is new.
MergeQuote(askEntries, bidEntries) ==
  quote' = [ask |-> MergeSide(Kept.ask, askEntries), bid |-> MergeSide(Kept.bid, bidEntries)]

\* A frame of the ticker channel: the first one is a snapshot.
ReadQuote ==
  \E v \in IF quote = None THEN {pos["ticker"] + 1} ELSE {pos["ticker"], NextQuote} :
    /\ Arrives("ticker", v)
    /\ \/ quote # None /\ Skip("ticker")
       \/ /\ \E asks \in InSnapshot(BestAsk(past[v])), bids \in InSnapshot(BestBid(past[v])) :
               MergeQuote(asks, bids)
          /\ skipped' = skipped \ {"ticker"}
          /\ UNCHANGED <<past, session, group, row, cache, ver, copy, tables, overtaken, astray>>
       \/ /\ quote # None /\ v # pos["ticker"]
          /\ \E asks \in InDelta(BestAsk(past[v - 1]), BestAsk(past[v])),
                bids \in InDelta(BestBid(past[v - 1]), BestBid(past[v])) : MergeQuote(asks, bids)
          /\ UNCHANGED <<past, session, group, row, cache, ver, copy, tables, history>>

\* A frame cannot be read, or the loop's head finds the context done.
ReaderEnds ==
  /\ "read" \in procs /\ row = "none"
  /\ Exit("read")
  /\ UNCHANGED <<past, session, conn, fed, reading, copy, tables, history>>

---------------------------------------------------------------------------
(* tickOB *)

\* A tick: the cached book is copied under the lock ...
Copy ==
  /\ "tick" \in procs /\ copy = None
  /\ copy' = [book |-> cache, v |-> ver, gap |-> "ordersbook" \in skipped]
  /\ overtaken' = FALSE
  /\ UNCHANGED <<past, session, group, reading, tables, skipped, astray>>

\* ... and stored after it.  A reader goes astray from a book that a row of
\* readWs overtook, that has no asks, or that lacks a frame.
StoreCopy ==
  /\ copy # None
  /\ view' = copy.book /\ last' = copy.v
  /\ astray' = (overtaken \/ copy.gap \/ copy.book = None \/ AsksOf(copy.book) = {})
  /\ copy' = None
  /\ UNCHANGED <<past, session, group, reading, skipped, overtaken>>

\* Mutant of TickEnds: it ends between the copy and the row.
TickEndsAnytime ==
  /\ "tick" \in procs /\ failed
  /\ Exit("tick")
  /\ UNCHANGED <<past, session, conn, fed, reading, copy, tables, history>>

TickEnds ==
  /\ "tick" \in procs /\ copy = None /\ failed
  /\ Exit("tick")
  /\ UNCHANGED <<past, session, conn, fed, reading, copy, tables, history>>

---------------------------------------------------------------------------

Next ==
  \/ ExchangeChanges \/ Connect \/ GroupFails \/ CloseConn \/ Reconnect
  \/ \E c \in Channels : Subscribe(c)
  \/ ReadSnapshot \/ ReadDelta \/ StoreRow \/ ReadQuote \/ ReaderEnds
  \/ Copy \/ StoreCopy \/ TickEnds

Spec == Init /\ [][Next]_vars

---------------------------------------------------------------------------
(* Properties *)

\* The shape of the state: a channel's data follow its subscription, a reader
\* with a row in hand and a ticker with a copy are running.
ConnectorTypeOK ==
  /\ session \in 1..MaxSessions /\ failed \in BOOLEAN
  /\ procs \subseteq {"tick", "read", "close"} /\ conn \in {"none", "open", "closed"}
  /\ fed \subseteq Channels
  /\ fed # {} => conn # "none"
  /\ "read" \in procs => conn # "none"
Has(book) == book = None \/ book \in Book
BookTypeOK ==
  /\ past \in Seq(Book) /\ Len(past) >= 1
  /\ row \in {"none", "book", "change"} /\ pos \in [Channels -> Nat]
  /\ Has(cache) /\ ver \in Nat
  /\ copy # None => Has(copy.book) /\ copy.v \in Nat /\ copy.gap \in BOOLEAN
  /\ Has(view) /\ last \in Nat
  /\ skipped \subseteq Channels /\ overtaken \in BOOLEAN /\ astray \in BOOLEAN
  /\ row # "none" => "read" \in procs
  /\ copy # None => "tick" \in procs
  /\ row # "none" => cache # None
  /\ cache # None => "ordersbook" \in fed /\ ver \in 1..pos["ordersbook"]
  /\ quote # None => "ticker" \in fed
  /\ \A c \in Channels : pos[c] <= Len(past)
TypeOK == ConnectorTypeOK /\ BookTypeOK

\* The cached book is one the exchange had, and it is the one of the latest
\* frame as long as an ask is left in it: however snapshots and deltas mix,
\* over reconnects, and unless the consider interval drops a frame.  (Once the
\* ask side has emptied, deltas are ignored until the next snapshot.)
CacheFollows ==
  cache # None /\ "ordersbook" \notin skipped =>
    /\ cache = past[ver]
    /\ AsksOf(cache) # {} => ver = pos["ordersbook"]

\* Who replays the tables has the exchange's book after each row.  He goes
\* astray only from a cached book that a row of readWs overtook between its
\* copy and its timestamp, that has no asks, or behind a frame that the
\* consider interval dropped; the next sound book row puts him right.
ReplayFollows == view # None /\ ~astray => view = past[last]

\* Each side of the stored quote is the exchange's best level, with its size,
\* in whichever order a frame names the old level and the new; it may be old
\* only for a side without levels.
QuoteFollows ==
  quote # None /\ "ticker" \notin skipped =>
    LET book == past[pos["ticker"]] IN
      /\ AsksOf(book) # {} => quote.ask = BestAsk(book)
      /\ BidsOf(book) # {} => quote.bid = BestBid(book)
=============================================================================
