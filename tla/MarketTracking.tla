-------------------------- MODULE MarketTracking --------------------------
(***************************************************************************)
(* What a Polymarket connector tracks (polymarket.go): the maps meta,      *)
(* known and subscribed, filled and emptied by three goroutines that share *)
(* one lock but hold it only for single steps - discoveryLoop (Gamma),     *)
(* resolutionLoop (CLOB), and the screener's promotions - and rebuilt from *)
(* nothing when the connector is.  A market stands for its Yes/No tokens   *)
(* and belongs to one subject, a configured one or AUTO; what happens when *)
(* both want it is AutoScreener's matter.                                  *)
(***************************************************************************)
EXTENDS Naturals

CONSTANTS
  Subjects, AUTO,   \* the configured subjects, and the pseudo-subject
  Markets,
  SubjectOf,        \* SubjectOf[m]: whose market m is
  Undated,          \* markets whose end date is missing, or cannot be parsed
  Faults,           \* what may fail: gamma, clob, upsert, send, connector
  MaxSessions       \* bound: connectors built in a behaviour

ASSUME SubjectsAssumption == AUTO \notin Subjects
ASSUME MarketsAssumption  == SubjectOf \in [Markets -> Subjects \cup {AUTO}]
\* AUTO takes no market without an end date.
ASSUME UndatedAssumption ==
  Undated \subseteq Markets /\ \A m \in Undated : SubjectOf[m] # AUTO
ASSUME TrackingFaultsAssumption ==
  Faults \subseteq {"gamma", "clob", "upsert", "send", "connector"}
ASSUME SessionsAssumption == MaxSessions \in Nat \ {0}

Of(s) == {m \in Markets : SubjectOf[m] = s}

VARIABLES
  \* the world
  expired, settled,  \* markets past their expiry, markets Polymarket settled
  \* the connector's maps
  session,     \* connectors built so far
  meta,        \* markets with an entry in meta: what they send is recorded
  known,       \* markets with an entry in known
  resolved,    \* those of them whose row says Resolved
  subscribed,
  \* discover
  dpc,         \* its next step, "idle" between cycles
  initial,     \* the first discovery of the connector has not ended
  todo,        \* subjects not queried yet
  desired,     \* markets the cycle has found
  fresh,       \* those whose rows are to be stored (newBySubject)
  failed,      \* subjects whose query failed
  later,       \* markets resolved in memory after the cycle's "now"
  \* checkResolutions
  rpc,         \* its next step, "idle" between checks
  conds,       \* markets to be asked for
  updated,     \* resolved markets whose rows are to be stored
  resolvedTokens,  \* all markets resolved by this check
  \* the screener
  promoting,   \* AUTO markets stored and not subscribed yet
  recording,   \* AUTO markets it calls RECORDING
  \* polymarket_market
  table        \* table[m]: "none", "open" or "resolved", by the latest row

world    == <<expired, settled>>
tables   == <<meta, known, resolved, subscribed>>
disc     == <<dpc, initial, todo, desired, fresh, failed>>
reso     == <<rpc, conds, updated, resolvedTokens>>
screener == <<promoting, recording>>
vars     == <<expired, settled, session, meta, known, resolved, subscribed, dpc, initial,
              todo, desired, fresh, failed, later, rpc, conds, updated, resolvedTokens,
              promoting, recording, table>>

Init ==
  /\ expired = {} /\ settled = {} /\ session = 1
  /\ meta = {} /\ known = {} /\ resolved = {} /\ subscribed = {}
  /\ dpc = "fetch" /\ initial = TRUE /\ todo = Subjects
  /\ desired = {} /\ fresh = {} /\ failed = {} /\ later = {}
  /\ rpc = "idle" /\ conds = {} /\ updated = {} /\ resolvedTokens = {}
  /\ promoting = {} /\ recording = {}
  /\ table = [m \in Markets |-> "none"]

---------------------------------------------------------------------------
(* The world *)

\* A market without an end date never counts as expired.
Expire(m) ==
  /\ m \notin expired \cup Undated /\ expired' = expired \cup {m}
  /\ UNCHANGED <<settled, session, tables, disc, later, reso, screener, table>>

\* A market may settle before its end date, and without having one.
Settle(m) ==
  /\ m \notin settled /\ settled' = settled \cup {m}
  /\ UNCHANGED <<expired, session, tables, disc, later, reso, screener, table>>

---------------------------------------------------------------------------
(* discoveryLoop: discover *)

DiscoverStarts ==
  /\ dpc = "idle" /\ ~initial
  /\ dpc' = "fetch" /\ todo' = Subjects
  /\ desired' = {} /\ fresh' = {} /\ failed' = {} /\ later' = {}
  /\ UNCHANGED <<world, session, tables, initial, reso, screener, table>>

\* Gamma answers for s.  What settled is no longer listed, and a faulty answer
\* may miss others.  A row is due for markets that are not in known.
FetchEvents(s) ==
  /\ dpc = "fetch" /\ s \in todo
  /\ todo' = todo \ {s}
  /\ \E R \in SUBSET (Of(s) \ settled) :
       /\ "gamma" \in Faults \/ R = Of(s) \ settled
       /\ desired' = desired \cup R
       /\ fresh'   = fresh \cup (R \ known)
  /\ UNCHANGED <<world, session, tables, dpc, initial, failed, later, reso, screener, table>>

\* Gamma does not answer for s, and s is left alone for this cycle.
FetchEventsFails(s) ==
  /\ dpc = "fetch" /\ s \in todo /\ "gamma" \in Faults
  /\ todo' = todo \ {s} /\ failed' = failed \cup {s}
  /\ UNCHANGED <<world, session, tables, dpc, initial, desired, fresh, later, reso,
                 screener, table>>

\* The rows of s are upserted, unresolved and stamped with the cycle's "now",
\* and s's new markets are known.  A later row that is stored wins.
StoreNew(s) ==
  /\ dpc = "fetch" /\ todo = {} /\ fresh \cap Of(s) # {}
  /\ table' = [m \in Markets |-> IF m \in fresh \cap Of(s) /\ ~(m \in later /\ table[m] = "resolved")
                                   THEN "open" ELSE table[m]]
  /\ known' = known \cup (fresh \cap Of(s))
  /\ resolved' = resolved \ (fresh \cap Of(s))
  /\ fresh' = fresh \ Of(s)
  /\ UNCHANGED <<world, session, meta, subscribed, dpc, initial, todo, desired, failed,
                 later, reso, screener>>

\* Mutant of StoreNewFails: the cycle goes on without the rows.
StoreNewSkips ==
  /\ dpc = "fetch" /\ todo = {} /\ fresh # {} /\ "upsert" \in Faults /\ ~initial
  /\ fresh' = {}
  /\ UNCHANGED <<world, session, tables, dpc, initial, todo, desired, failed, later, reso,
                 screener, table>>

\* The upsert fails and the cycle ends.  That of the first discovery ends the
\* connector: see Reconnect.
StoreNewFails ==
  /\ dpc = "fetch" /\ todo = {} /\ fresh # {} /\ "upsert" \in Faults /\ ~initial
  /\ dpc' = "idle" /\ fresh' = {}
  /\ UNCHANGED <<world, session, tables, initial, todo, desired, failed, later, reso,
                 screener, table>>

\* The entries of meta are written.  A later cycle that found nothing at all
\* changes nothing.
Publish ==
  /\ dpc = "fetch" /\ todo = {} /\ fresh = {}
  /\ IF desired = {} /\ ~initial
       THEN dpc' = "idle" /\ UNCHANGED meta
       ELSE dpc' = "reconcile" /\ meta' = meta \cup desired
  /\ UNCHANGED <<world, session, known, resolved, subscribed, initial, todo, desired, fresh,
                 failed, later, reso, screener, table>>

\* Mutant of Gone: the failed queries are not looked at.
GoneFromAll == {m \in subscribed \ desired : ~(m \in meta /\ SubjectOf[m] = AUTO)}

\* Subscribed markets that are to be unsubscribed: not found, and according
\* to their meta entry neither AUTO's nor of a subject whose query failed.
Gone == {m \in subscribed \ desired : ~(m \in meta /\ SubjectOf[m] \in failed \cup {AUTO})}

\* reconcileSubscriptions.  When a frame cannot be sent, the maps stay as
\* they are.
Reconcile ==
  /\ dpc = "reconcile"
  /\ IF initial
       THEN /\ subscribed' = subscribed \cup desired /\ UNCHANGED meta
            /\ dpc' = "attach"
       ELSE /\ subscribed' = (subscribed \ Gone) \cup desired
            /\ meta' = meta \ Gone
            /\ dpc' = "idle"
  /\ UNCHANGED <<world, session, known, resolved, initial, todo, desired, fresh, failed,
                 later, reso, screener, table>>

\* resubscribeRecording, after the first discovery: subscribeAuto for every
\* market that was recording when the connector was built.
Resubscribe ==
  /\ dpc = "attach"
  /\ meta' = meta \cup recording /\ known' = known \cup recording
  /\ resolved' = resolved \ recording /\ subscribed' = subscribed \cup recording
  /\ dpc' = "idle" /\ initial' = FALSE
  /\ UNCHANGED <<world, session, todo, desired, fresh, failed, later, reso, screener, table>>

---------------------------------------------------------------------------
(* The screener: promote *)

\* An AUTO market that had not expired when its window began is upserted with
\* that time ...
PromoteStore(m) ==
  /\ ~initial /\ SubjectOf[m] = AUTO /\ m \notin expired \cup recording \cup promoting
  /\ promoting' = promoting \cup {m}
  /\ table' = [table EXCEPT ![m] = IF @ = "resolved" THEN @ ELSE "open"]
  /\ UNCHANGED <<world, session, tables, disc, later, reso, recording>>

\* ... and then entered into the maps (subscribeAuto) and called RECORDING,
\* unless the subscription could not be sent.
PromoteSubscribe(m) ==
  /\ m \in promoting
  /\ promoting' = promoting \ {m}
  /\ meta' = meta \cup {m} /\ known' = known \cup {m} /\ resolved' = resolved \ {m}
  /\ subscribed' = subscribed \cup {m}
  /\ \/ recording' = recording \cup {m}
     \/ "send" \in Faults /\ UNCHANGED recording
  /\ UNCHANGED <<world, session, disc, later, reso, table>>

---------------------------------------------------------------------------
(* resolutionLoop: checkResolutions *)

\* Mutant of CheckStarts: only what is being recorded is looked at.
CheckStartsRecorded ==
  /\ rpc = "idle" /\ ~initial
  /\ conds' = (known \cap meta \cap expired) \ resolved /\ conds' # {}
  /\ rpc' = "check"
  /\ UNCHANGED <<world, session, tables, disc, later, updated, resolvedTokens, screener, table>>

\* The expired markets that are known and not called resolved: never one
\* without an end date.
CheckStarts ==
  /\ rpc = "idle" /\ ~initial
  /\ conds' = (known \cap expired) \ resolved /\ conds' # {}
  /\ rpc' = "check"
  /\ UNCHANGED <<world, session, tables, disc, later, updated, resolvedTokens, screener, table>>

\* Mutant of FetchMarket: whether the market is closed is not looked at.
FetchMarketUnclosed(m) ==
  /\ rpc = "check" /\ m \in conds
  /\ conds' = conds \ {m}
  /\ LET now == {m} \cap (known \ resolved) IN
       /\ resolved' = resolved \cup now /\ later' = later \cup now
       /\ updated' = updated \cup now /\ resolvedTokens' = resolvedTokens \cup now
  /\ UNCHANGED <<world, session, meta, known, subscribed, disc, rpc, screener, table>>

\* CLOB says that m is closed: its row, if it is still known, is called
\* resolved, and is stamped.
FetchMarket(m) ==
  /\ rpc = "check" /\ m \in conds /\ m \in settled
  /\ conds' = conds \ {m}
  /\ LET now == {m} \cap (known \ resolved) IN
       /\ resolved' = resolved \cup now /\ later' = later \cup now
       /\ updated' = updated \cup now /\ resolvedTokens' = resolvedTokens \cup now
  /\ UNCHANGED <<world, session, meta, known, subscribed, disc, rpc, screener, table>>

\* CLOB says that m is not closed, or does not answer.
FetchMarketNot(m) ==
  /\ rpc = "check" /\ m \in conds
  /\ m \notin settled \/ "clob" \in Faults
  /\ conds' = conds \ {m}
  /\ UNCHANGED <<world, session, tables, disc, later, rpc, updated, resolvedTokens,
                 screener, table>>

\* The resolutions of one subject are upserted.
StoreResolutions(s) ==
  /\ rpc = "check" /\ conds = {} /\ updated \cap Of(s) # {}
  /\ table' = [m \in Markets |-> IF m \in updated \cap Of(s) THEN "resolved" ELSE table[m]]
  /\ updated' = updated \ Of(s)
  /\ UNCHANGED <<world, session, tables, disc, later, rpc, conds, resolvedTokens, screener>>

\* The upsert fails, and the check ends.
StoreResolutionsFails ==
  /\ rpc = "check" /\ conds = {} /\ updated # {} /\ "upsert" \in Faults
  /\ rpc' = "idle" /\ updated' = {} /\ resolvedTokens' = {}
  /\ UNCHANGED <<world, session, tables, disc, later, conds, screener, table>>

\* The connector forgets what is stored.
Forget ==
  /\ rpc = "check" /\ conds = {} /\ updated = {}
  /\ known' = known \ resolvedTokens /\ meta' = meta \ resolvedTokens
  /\ resolved' = resolved \ resolvedTokens
  /\ rpc' = "unsubscribe"
  /\ UNCHANGED <<world, session, subscribed, disc, later, conds, updated, resolvedTokens,
                 screener, table>>

\* AUTO's markets are unsubscribed and released by the screener, unless the
\* frame could not be sent.  The others are left to the next discovery.
Unsubscribe ==
  /\ rpc = "unsubscribe"
  /\ subscribed' = subscribed \ (resolvedTokens \cap Of(AUTO))
  /\ \/ recording' = recording \ resolvedTokens
     \/ "send" \in Faults /\ UNCHANGED recording
  /\ rpc' = "idle" /\ resolvedTokens' = {}
  /\ UNCHANGED <<world, session, meta, known, resolved, disc, later, conds, updated,
                 promoting, table>>

---------------------------------------------------------------------------

\* The connector fails, or does not get past its first discovery, and the
\* next one starts with empty maps.
Reconnect ==
  /\ "connector" \in Faults /\ session < MaxSessions
  /\ session' = session + 1
  /\ meta' = {} /\ known' = {} /\ resolved' = {} /\ subscribed' = {}
  /\ dpc' = "fetch" /\ initial' = TRUE /\ todo' = Subjects
  /\ desired' = {} /\ fresh' = {} /\ failed' = {} /\ later' = {}
  /\ rpc' = "idle" /\ conds' = {} /\ updated' = {} /\ resolvedTokens' = {}
  /\ promoting' = {}
  /\ UNCHANGED <<world, recording, table>>

Next ==
  \/ \E m \in Markets : \/ Expire(m) \/ Settle(m) \/ PromoteStore(m) \/ PromoteSubscribe(m)
                        \/ FetchMarket(m) \/ FetchMarketNot(m)
  \/ \E s \in Subjects : FetchEvents(s) \/ FetchEventsFails(s) \/ StoreNew(s)
  \/ \E s \in Subjects \cup {AUTO} : StoreResolutions(s)
  \/ DiscoverStarts \/ StoreNewFails \/ Publish \/ Reconcile \/ Resubscribe
  \/ CheckStarts \/ StoreResolutionsFails \/ Forget \/ Unsubscribe \/ Reconnect

\* End dates come, the tickers of both loops fire, the steps of a cycle, a
\* check and a promotion end; an upsert that is tried again and again succeeds
\* in the end.
Fairness ==
  /\ \A m \in Markets : WF_vars(Expire(m))
  /\ WF_vars(DiscoverStarts) /\ WF_vars(Publish) /\ WF_vars(Reconcile) /\ WF_vars(Resubscribe)
  /\ \A s \in Subjects : /\ WF_vars(FetchEvents(s) \/ FetchEventsFails(s))
                         /\ SF_vars(StoreNew(s))
  /\ WF_vars(CheckStarts) /\ WF_vars(Forget) /\ WF_vars(Unsubscribe)
  /\ \A m \in Markets : /\ WF_vars(FetchMarket(m) \/ FetchMarketNot(m))
                        /\ WF_vars(PromoteSubscribe(m))
  /\ \A s \in Subjects \cup {AUTO} : SF_vars(StoreResolutions(s))

Spec     == Init /\ [][Next]_vars
FairSpec == Spec /\ Fairness

---------------------------------------------------------------------------
(* Properties *)

\* The shape of the state; a row that is called resolved is in known, and
\* only markets that have settled and are past their end date are called so.
TypeOK ==
  /\ expired \subseteq Markets \ Undated /\ settled \subseteq Markets
  /\ session \in 1..MaxSessions /\ initial \in BOOLEAN
  /\ meta \subseteq Markets /\ known \subseteq Markets
  /\ resolved \subseteq known \cap settled \cap expired
  /\ subscribed \subseteq Markets
  /\ dpc \in {"idle", "fetch", "reconcile", "attach"}
  /\ todo \subseteq Subjects /\ failed \subseteq Subjects
  /\ desired \subseteq Markets /\ fresh \subseteq desired /\ later \subseteq Markets
  /\ rpc \in {"idle", "check", "unsubscribe"}
  /\ conds \subseteq expired /\ updated \subseteq resolvedTokens
  /\ resolvedTokens \subseteq settled \cap expired
  /\ promoting \subseteq Of(AUTO) /\ recording \subseteq Of(AUTO)
  /\ table \in [Markets -> {"none", "open", "resolved"}]

\* A market whose stream is recorded has its row in the table, and is known
\* to the resolution loop until its resolution is in the table too: however
\* discoveries, checks and promotions interleave, and whatever of them fails.
RecordedIsTracked ==
  \A m \in meta : table[m] = "resolved" \/ (m \in known /\ table[m] = "open")

\* Within a connector's life a market stops being subscribed for two reasons
\* only: its subject's own query of this cycle was answered, without it, and
\* the cycle has found others; or its resolution is stored.  AUTO's markets
\* only for the latter.
UnsubscribedWithReason ==
  [][\A m \in subscribed \ subscribed' :
       \/ session' # session
       \/ table[m] = "resolved"
       \/ /\ SubjectOf[m] \in Subjects \ failed /\ todo = {}
          /\ m \notin desired /\ desired # {}]_vars

\* What the documentation says of polymarket_market: once the market settles,
\* the resolution is upserted - be it before its end date, which is waited for.
\* checkResolutions leaves out a market without one, and so does this.
SettledIsStored ==
  \A m \in Markets \ Undated : table[m] = "open" /\ m \in settled ~> table[m] = "resolved"
===========================================================================
