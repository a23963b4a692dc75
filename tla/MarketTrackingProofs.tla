----------------------- MODULE MarketTrackingProofs -----------------------
(***************************************************************************)
(* RecordedIsTracked, for any number of subjects, markets and connectors.  *)
(* The invariant is not inductive: discover writes meta long after it has  *)
(* looked into known, and checkResolutions empties known long after it has *)
(* stored.  Tracked adds what holds in between.                            *)
(***************************************************************************)
EXTENDS MarketTracking, TLAPS

\* What is known, is being promoted or is recorded has a row.
RowsExist == \A m \in known \cup promoting \cup recording : table[m] # "none"

\* What discover is about to store is new, and is no market of AUTO.
FreshIsNew == fresh \cap known = {} /\ \A m \in fresh : SubjectOf[m] # AUTO

\* What checkResolutions has called resolved stays known until it is
\* forgotten, and by then its resolution is stored.
ResolvedIsKept ==
  /\ rpc # "check" => updated = {}
  /\ rpc = "idle" => resolvedTokens = {}
  /\ rpc = "check" => /\ resolvedTokens \subseteq known
                      /\ \A m \in resolvedTokens \ updated : table[m] = "resolved"

\* The markets with an entry in meta, and those that discover will enter.
ToRecord == meta \cup (IF dpc = "fetch" THEN desired \ fresh ELSE {})
Covered  == \A m \in ToRecord : m \in known \/ table[m] = "resolved"

Tracked == TypeOK /\ RowsExist /\ FreshIsNew /\ ResolvedIsKept /\ Covered

\* Covered, with rows for all that is known, is what the property asks for.
LEMMA TrackedSuffices == Tracked => RecordedIsTracked
  BY DEF Tracked, TypeOK, RowsExist, Covered, ToRecord, RecordedIsTracked

\* The first connector has empty maps.
LEMMA InitTracked == Init => Tracked
  BY SubjectsAssumption, SessionsAssumption
     DEF Init, Tracked, TypeOK, RowsExist, FreshIsNew, ResolvedIsKept, Covered, ToRecord, Of,
         SessionsAssumption

\* The screener's markets are AUTO's, a configured subject's are not.
LEMMA AutoMarkets == Tracked => \A m \in recording \cup promoting : SubjectOf[m] = AUTO
  BY DEF Tracked, TypeOK, Of

LEMMA SubjectMarkets == \A s \in Subjects : \A m \in Of(s) : SubjectOf[m] # AUTO
  BY SubjectsAssumption DEF SubjectsAssumption, Of

\* Every step of the three goroutines keeps the invariant.
LEMMA StepTracked == Tracked /\ [Next]_vars => Tracked'
<1> SUFFICES ASSUME Tracked, [Next]_vars PROVE Tracked'
  OBVIOUS
<1> USE SubjectsAssumption, MarketsAssumption DEF SubjectsAssumption, MarketsAssumption
<1> USE DEF Tracked, TypeOK, RowsExist, FreshIsNew, ResolvedIsKept, Covered, ToRecord,
            world, tables, disc, reso, screener
<1>1. ASSUME NEW m \in Markets, Expire(m) \/ Settle(m) PROVE Tracked'
  BY <1>1 DEF Expire, Settle
<1>2. CASE DiscoverStarts
  BY <1>2 DEF DiscoverStarts
<1>3. ASSUME NEW s \in Subjects, FetchEvents(s) PROVE Tracked'
  <2>1. TypeOK'
    BY <1>3 DEF FetchEvents, Of
  <2>2. RowsExist'
    BY <1>3 DEF FetchEvents, Of
  <2>3. FreshIsNew'
    <3>1. PICK R \in SUBSET Of(s) : fresh' = fresh \cup (R \ known)
      BY <1>3 DEF FetchEvents, Of
    <3>2. \A m \in R : SubjectOf[m] # AUTO
      BY SubjectMarkets, Zenon
    <3>3. known' = known
      BY <1>3 DEF FetchEvents
    <3>4. QED
      BY <3>1, <3>2, <3>3
  <2>4. ResolvedIsKept'
    BY <1>3 DEF FetchEvents, Of
  <2>5. Covered'
    BY <1>3 DEF FetchEvents, Of
  <2> QED
    BY <2>1, <2>2, <2>3, <2>4, <2>5
<1>4. ASSUME NEW s \in Subjects, FetchEventsFails(s) PROVE Tracked'
  BY <1>4 DEF FetchEventsFails
<1>5. ASSUME NEW s \in Subjects, StoreNew(s) PROVE Tracked'
  BY <1>5 DEF StoreNew, Of
<1>6. CASE StoreNewFails
  BY <1>6 DEF StoreNewFails
<1>7. CASE Publish
  BY <1>7 DEF Publish
<1>8. CASE Reconcile
  BY <1>8 DEF Reconcile
<1>9. CASE Resubscribe
  <2>1. TypeOK'
    BY <1>9 DEF Resubscribe, Of
  <2>2. RowsExist'
    BY <1>9 DEF Resubscribe, Of
  <2>3. FreshIsNew'
    <3>1. \A m \in recording : SubjectOf[m] = AUTO
      BY AutoMarkets, Zenon
    <3>2. known' = known \cup recording /\ fresh' = fresh
      BY <1>9 DEF Resubscribe
    <3>3. QED
      BY <3>1, <3>2
  <2>4. ResolvedIsKept'
    BY <1>9 DEF Resubscribe, Of
  <2>5. Covered'
    BY <1>9 DEF Resubscribe, Of
  <2> QED
    BY <2>1, <2>2, <2>3, <2>4, <2>5
<1>10. ASSUME NEW m \in Markets, PromoteStore(m) PROVE Tracked'
  <2>1. TypeOK'
    BY <1>10 DEF PromoteStore, Of
  <2>2. RowsExist'
    BY <1>10 DEF PromoteStore, Of
  <2>3. FreshIsNew'
    BY <1>10 DEF PromoteStore, Of
  <2>4. ResolvedIsKept'
    BY <1>10 DEF PromoteStore, Of
  <2>5. Covered'
    BY <1>10 DEF PromoteStore, Of
  <2> QED
    BY <2>1, <2>2, <2>3, <2>4, <2>5
<1>11. ASSUME NEW m \in Markets, PromoteSubscribe(m) PROVE Tracked'
  <2>1. TypeOK'
    BY <1>11 DEF PromoteSubscribe, Of
  <2>2. RowsExist'
    BY <1>11 DEF PromoteSubscribe, Of
  <2>3. FreshIsNew'
    <3>1. SubjectOf[m] = AUTO
      BY <1>11, AutoMarkets, Zenon DEF PromoteSubscribe
    <3>2. known' = known \cup {m} /\ fresh' = fresh
      BY <1>11 DEF PromoteSubscribe
    <3>3. QED
      BY <3>1, <3>2
  <2>4. ResolvedIsKept'
    BY <1>11 DEF PromoteSubscribe, Of
  <2>5. Covered'
    BY <1>11 DEF PromoteSubscribe, Of
  <2> QED
    BY <2>1, <2>2, <2>3, <2>4, <2>5
<1>12. CASE CheckStarts
  <2>1. TypeOK'
    BY <1>12 DEF CheckStarts
  <2>2. RowsExist'
    BY <1>12 DEF CheckStarts
  <2>3. FreshIsNew'
    BY <1>12 DEF CheckStarts
  <2>4. ResolvedIsKept'
    BY <1>12 DEF CheckStarts
  <2>5. Covered'
    BY <1>12 DEF CheckStarts
  <2> QED
    BY <2>1, <2>2, <2>3, <2>4, <2>5
<1>13. ASSUME NEW m \in Markets, FetchMarket(m) PROVE Tracked'
  BY <1>13 DEF FetchMarket
<1>14. ASSUME NEW m \in Markets, FetchMarketNot(m) PROVE Tracked'
  BY <1>14 DEF FetchMarketNot
<1>15. ASSUME NEW s \in Subjects \cup {AUTO}, StoreResolutions(s) PROVE Tracked'
  BY <1>15 DEF StoreResolutions, Of
<1>16. CASE StoreResolutionsFails
  BY <1>16 DEF StoreResolutionsFails
<1>17. CASE Forget
  BY <1>17 DEF Forget
<1>18. CASE Unsubscribe
  <2>1. TypeOK'
    BY <1>18 DEF Unsubscribe, Of
  <2>2. RowsExist'
    BY <1>18 DEF Unsubscribe, Of
  <2>3. FreshIsNew'
    BY <1>18 DEF Unsubscribe, Of
  <2>4. ResolvedIsKept'
    BY <1>18 DEF Unsubscribe, Of
  <2>5. Covered'
    BY <1>18 DEF Unsubscribe, Of
  <2> QED
    BY <2>1, <2>2, <2>3, <2>4, <2>5
<1>19. CASE Reconnect
  BY <1>19, SessionsAssumption DEF Reconnect, SessionsAssumption
<1>20. CASE UNCHANGED vars
  BY <1>20 DEF vars
<1> HIDE DEF Tracked, TypeOK, RowsExist, FreshIsNew, ResolvedIsKept, Covered, ToRecord
<1>21. CASE Next
  <2>1. CASE \E m \in Markets : \/ Expire(m) \/ Settle(m) \/ PromoteStore(m)
                              \/ PromoteSubscribe(m) \/ FetchMarket(m) \/ FetchMarketNot(m)
    BY <2>1, <1>1, <1>10, <1>11, <1>13, <1>14, Zenon
  <2>2. CASE \E s \in Subjects : FetchEvents(s) \/ FetchEventsFails(s) \/ StoreNew(s)
    BY <2>2, <1>3, <1>4, <1>5, Zenon
  <2>3. CASE \E s \in Subjects \cup {AUTO} : StoreResolutions(s)
    BY <2>3, <1>15, Zenon
  <2>4. CASE \/ DiscoverStarts \/ StoreNewFails \/ Publish \/ Reconcile \/ Resubscribe
             \/ CheckStarts \/ StoreResolutionsFails \/ Forget \/ Unsubscribe \/ Reconnect
    BY <2>4, <1>2, <1>6, <1>7, <1>8, <1>9, <1>12, <1>16, <1>17, <1>18, <1>19, Zenon
  <2>5. QED
    BY <1>21, <2>1, <2>2, <2>3, <2>4 DEF Next
<1> QED
  BY <1>20, <1>21

\* What a connector records has its metadata row, and the resolution loop
\* looks for its resolution until that is stored, whatever interleaves or
\* fails.
THEOREM RecordedMarketsAreTracked == Spec => []RecordedIsTracked
<1>1. Spec => []Tracked
  BY InitTracked, StepTracked, PTL DEF Spec
<1>2. QED
  BY <1>1, TrackedSuffices, PTL

\* The state keeps its shape; in particular only markets that have settled and
\* are past their end date are called resolved, and only in entries of known:
\* none without an end date, which checkResolutions never asks for.
THEOREM TrackingTypeCorrect == Spec => []TypeOK
<1>1. Spec => []Tracked
  BY InitTracked, StepTracked, PTL DEF Spec
<1>2. Tracked => TypeOK
  BY DEF Tracked
<1>3. QED
  BY <1>1, <1>2, PTL

---------------------------------------------------------------------------
(* Why subscriptions end *)

\* What has its resolution stored is settled, and discover does not store it
\* anew; what is subscribed, or about to be, and is not recorded any more has
\* its resolution stored.  A cycle that found nothing is not reconciled.
Subscriptions == subscribed \cup (IF dpc = "reconcile" THEN desired ELSE {})
Reasons ==
  /\ \A m \in Markets : table[m] = "resolved" => m \in settled
  /\ \A m \in fresh : table[m] # "resolved"
  /\ rpc = "unsubscribe" => \A m \in resolvedTokens : table[m] = "resolved"
  /\ \A m \in Subscriptions \ meta : table[m] = "resolved"
  /\ dpc = "reconcile" => todo = {} /\ (initial \/ desired # {})

LEMMA InitReasons == Init => Reasons
  BY DEF Init, Reasons, Subscriptions

LEMMA StepReasons == Tracked /\ Reasons /\ [Next]_vars => Reasons'
<1> SUFFICES ASSUME Tracked, Reasons, [Next]_vars PROVE Reasons'
  OBVIOUS
<1> USE DEF Reasons, Subscriptions, Tracked, TypeOK, world, tables, disc, reso, screener
<1>1. ASSUME NEW m \in Markets, Expire(m) \/ Settle(m) PROVE Reasons'
  BY <1>1 DEF Expire, Settle
<1>2. CASE DiscoverStarts
  BY <1>2 DEF DiscoverStarts
<1>3. ASSUME NEW s \in Subjects, FetchEvents(s) PROVE Reasons'
  BY <1>3 DEF FetchEvents, Of
<1>4. ASSUME NEW s \in Subjects, FetchEventsFails(s) PROVE Reasons'
  BY <1>4 DEF FetchEventsFails
<1>5. ASSUME NEW s \in Subjects, StoreNew(s) PROVE Reasons'
  BY <1>5 DEF StoreNew, Of
<1>6. CASE StoreNewFails
  BY <1>6 DEF StoreNewFails
<1>7. CASE Publish
  BY <1>7 DEF Publish
<1>8. CASE Reconcile
  BY <1>8 DEF Reconcile, Gone
<1>9. CASE Resubscribe
  BY <1>9 DEF Resubscribe
<1>10. ASSUME NEW m \in Markets, PromoteStore(m) PROVE Reasons'
  BY <1>10 DEF PromoteStore
<1>11. ASSUME NEW m \in Markets, PromoteSubscribe(m) PROVE Reasons'
  BY <1>11 DEF PromoteSubscribe
<1>12. CASE CheckStarts
  BY <1>12 DEF CheckStarts
<1>13. ASSUME NEW m \in Markets, FetchMarket(m) PROVE Reasons'
  BY <1>13 DEF FetchMarket
<1>14. ASSUME NEW m \in Markets, FetchMarketNot(m) PROVE Reasons'
  BY <1>14 DEF FetchMarketNot
<1>15. ASSUME NEW s \in Subjects \cup {AUTO}, StoreResolutions(s) PROVE Reasons'
  <2>1. updated \cap fresh = {} /\ updated \subseteq settled
    BY <1>15 DEF StoreResolutions, ResolvedIsKept, FreshIsNew
  <2> QED
    BY <1>15, <2>1 DEF StoreResolutions, Of
<1>16. CASE StoreResolutionsFails
  BY <1>16 DEF StoreResolutionsFails
<1>17. CASE Forget
  BY <1>17 DEF Forget, ResolvedIsKept
<1>18. CASE Unsubscribe
  BY <1>18 DEF Unsubscribe
<1>19. CASE Reconnect
  BY <1>19 DEF Reconnect
<1>20. CASE UNCHANGED vars
  BY <1>20 DEF vars
<1> HIDE DEF Reasons, Tracked, TypeOK
<1>21. CASE Next
  <2>1. CASE \E m \in Markets : \/ Expire(m) \/ Settle(m) \/ PromoteStore(m)
                              \/ PromoteSubscribe(m) \/ FetchMarket(m) \/ FetchMarketNot(m)
    BY <2>1, <1>1, <1>10, <1>11, <1>13, <1>14, Zenon
  <2>2. CASE \E s \in Subjects : FetchEvents(s) \/ FetchEventsFails(s) \/ StoreNew(s)
    BY <2>2, <1>3, <1>4, <1>5, Zenon
  <2>3. CASE \E s \in Subjects \cup {AUTO} : StoreResolutions(s)
    BY <2>3, <1>15, Zenon
  <2>4. CASE \/ DiscoverStarts \/ StoreNewFails \/ Publish \/ Reconcile \/ Resubscribe
             \/ CheckStarts \/ StoreResolutionsFails \/ Forget \/ Unsubscribe \/ Reconnect
    BY <2>4, <1>2, <1>6, <1>7, <1>8, <1>9, <1>12, <1>16, <1>17, <1>18, <1>19, Zenon
  <2> QED
    BY <1>21, <2>1, <2>2, <2>3, <2>4 DEF Next
<1> QED
  BY <1>20, <1>21

\* Only discover's reconciliation, the resolution loop and the connector's
\* end take a subscription away, each for its reason.
LEMMA StepHasReason ==
  ASSUME Tracked, Reasons, [Next]_vars, NEW m \in subscribed \ subscribed'
  PROVE  \/ session' # session
         \/ table[m] = "resolved"
         \/ /\ SubjectOf[m] \in Subjects \ failed /\ todo = {}
            /\ m \notin desired /\ desired # {}
<1> USE DEF world, tables, disc, reso, screener
<1>1. CASE Reconcile
  <2>1. m \in Gone
    BY <1>1 DEF Reconcile
  <2>2. CASE m \notin meta
    BY <2>2 DEF Reasons, Subscriptions
  <2>3. CASE m \in meta
    BY <1>1, <2>1, <2>3, MarketsAssumption
       DEF Reconcile, Gone, Reasons, Tracked, TypeOK, MarketsAssumption
  <2> QED
    BY <2>2, <2>3
<1>2. CASE Unsubscribe
  BY <1>2 DEF Unsubscribe, Reasons
<1>3. CASE Reconnect
  BY <1>3 DEF Reconnect, Tracked, TypeOK
<1>4. CASE Resubscribe
  BY <1>4 DEF Resubscribe
<1>5. ASSUME NEW k \in Markets, PromoteSubscribe(k) PROVE FALSE
  BY <1>5 DEF PromoteSubscribe
<1>6. CASE UNCHANGED subscribed
  BY <1>6
<1>7. ASSUME NEW k \in Markets, \/ Expire(k) \/ Settle(k) \/ PromoteStore(k)
                                \/ FetchMarket(k) \/ FetchMarketNot(k)
      PROVE  UNCHANGED subscribed
  BY <1>7 DEF Expire, Settle, PromoteStore, FetchMarket, FetchMarketNot
<1>8. ASSUME NEW s, FetchEvents(s) \/ FetchEventsFails(s) \/ StoreNew(s) \/ StoreResolutions(s)
      PROVE  UNCHANGED subscribed
  BY <1>8 DEF FetchEvents, FetchEventsFails, StoreNew, StoreResolutions
<1>9. CASE \/ DiscoverStarts \/ StoreNewFails \/ Publish \/ CheckStarts
           \/ StoreResolutionsFails \/ Forget \/ UNCHANGED vars
  BY <1>6, <1>9 DEF DiscoverStarts, StoreNewFails, Publish, CheckStarts, StoreResolutionsFails,
                    Forget, vars
<1> QED
  BY <1>1, <1>2, <1>3, <1>4, <1>5, <1>6, <1>7, <1>8, <1>9 DEF Next

\* A subscription ends with its connector, because the resolution is stored,
\* or because its subject's own query was answered without the market while the
\* cycle did find others: neither a failed query nor a cycle that finds nothing
\* ends one.
THEOREM UnsubscribedWithReasonHolds == Spec => UnsubscribedWithReason
<1>1. Tracked /\ Reasons /\ [Next]_vars =>
        [\A m \in subscribed \ subscribed' :
           \/ session' # session
           \/ table[m] = "resolved"
           \/ /\ SubjectOf[m] \in Subjects \ failed /\ todo = {}
              /\ m \notin desired /\ desired # {}]_vars
  BY StepHasReason
<1> QED
  BY <1>1, InitTracked, StepTracked, InitReasons, StepReasons, PTL
     DEF Spec, UnsubscribedWithReason
===========================================================================
