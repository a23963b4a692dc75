------------------------ MODULE AutoScreenerProofs ------------------------
(***************************************************************************)
(* The auto screener for any markets, limits, hysteresis and faults: its   *)
(* types, its pass list as the hysteresis of the verdicts, what a window   *)
(* promotes and stores, and that it implements WatchList.                  *)
(***************************************************************************)
EXTENDS AutoScreener, FiniteSetTheorems, TLAPS

\* Candidates the window has selected and not promoted yet.
Pending == selected \cup ({promoting} \ {NoMarket})

\* What has settled has expired, and time does not run back.
Times ==
  /\ \A m \in closed : phase[m] \in Expired
  /\ \A m \in Markets : now[m] # "open" => phase[m] # "open"

\* What holds of the pass list at the steps of a window: its members have
\* their samples, are polled, and are not in their final phase once scored.
Windows ==
  /\ pc = "tick" => now = NoTime /\ rows = NoRows
  /\ pc \in {"tick", "fetch", "select"} => selected = {}
  /\ pc = "fetch" => \A m \in Markets : inPass[m] => m \in tokens
  /\ pc = "fetch" => \A m \in tokens : rows[m] # "DROPPED"
  /\ \A m \in Markets : inPass[m] => age[m] > Window
  /\ \A m \in Markets : inPass[m] => rows[m] # "DROPPED"
  /\ pc \in {"select", "promote", "subscribe", "mark"} =>
       \A m \in Markets : inPass[m] => now[m] = "open"

\* A selected market stays in the pass list, or has settled for good.
Merit ==
  \A m \in Pending : /\ state[m] = "NONE" => m \in closed
                     /\ state[m] # "NONE" => inPass[m]
                     /\ rows[m] # "DROPPED"

\* The recordings and those to come fit the budget.
Budget == Cardinality(Recording \cup Pending) <= MaxRecording

\* A window's rows do not call a recording a candidate.
RowsShow == \A m \in Markets : rows[m] = "CANDIDATE" => state[m] # "RECORDING"

\* What has left the list has its last row stored, or in this window's rows.
Stored ==
  \A m \in Markets : state[m] = "NONE" /\ m \notin missed
                       => table[m] \in {"NONE", "DROPPED"} \/ rows[m] = "DROPPED"

\* The last n verdicts of v are b, and the one before is not.
Run(v, b, n) ==
  /\ n \in 0..Len(v)
  /\ \A j \in (Len(v) - n + 1)..Len(v) : v[j] = b
  /\ n < Len(v) => v[Len(v) - n] # b

Earns(v) ==
  \E i \in 1..Len(v) :
    /\ i + HystK - 1 <= Len(v) /\ \A j \in i..(i + HystK - 1) : v[j] = TRUE
    /\ \A n \in (i + HystK)..Len(v) :
         n + HystM - 1 <= Len(v) => \E j \in n..(n + HystM - 1) : v[j] = TRUE

\* The streaks count the verdicts, and the pass list is what has earned it.
Listed ==
  \A m \in Markets : /\ Run(verdicts[m], TRUE, pass[m]) /\ Run(verdicts[m], FALSE, fail[m])
                     /\ inPass[m] => Earns(verdicts[m])
                     /\ phase[m] = "open" /\ Earns(verdicts[m]) => inPass[m]

---------------------------------------------------------------------------
(* Types *)

USE LimitsAssumption, HysteresisAssumption, MarketsAssumption

\* The list without the markets of S keeps its type.
LEMMA ForgetType ==
  ASSUME TypeOK, NEW S \in SUBSET Markets, NEW ages \in [Markets -> 0..(Window + 1)],
         Forget(S, ages)
  PROVE  /\ state' \in [Markets -> States]
         /\ pass' \in [Markets -> Nat] /\ fail' \in [Markets -> Nat]
         /\ inPass' \in [Markets -> BOOLEAN]
         /\ age' \in [Markets -> 0..(Window + 1)]
         /\ verdicts' \in [Markets -> Seq(BOOLEAN)]
         /\ \A m \in Markets : state'[m] = "NONE" => pass'[m] = 0 /\ fail'[m] = 0 /\ ~inPass'[m]
<1>1. <<>> \in Seq(BOOLEAN)
  OBVIOUS
<1>2. verdicts' \in [Markets -> Seq(BOOLEAN)]
  BY <1>1 DEF TypeOK, Forget
<1>3. state' \in [Markets -> States]
  BY DEF TypeOK, Forget, States
<1>4. pass' \in [Markets -> Nat] /\ fail' \in [Markets -> Nat]
  BY DEF TypeOK, Forget
<1>5. inPass' \in [Markets -> BOOLEAN]
  BY DEF TypeOK, Forget
<1>6. age' \in [Markets -> 0..(Window + 1)]
  BY DEF Forget
<1>7. ASSUME NEW m \in Markets, state'[m] = "NONE"
      PROVE  pass'[m] = 0 /\ fail'[m] = 0 /\ ~inPass'[m]
  <2>1. m \in S \/ m \notin Watched
    BY <1>7 DEF Forget, Watched
  <2>2. m \notin S => pass[m] = 0 /\ fail[m] = 0 /\ ~inPass[m]
    BY <2>1 DEF TypeOK
  <2> QED
    BY <2>2 DEF Forget
<1> QED
  BY <1>2, <1>3, <1>4, <1>5, <1>6, <1>7

LEMMA OlderType ==
  ASSUME NEW n \in 0..(Window + 1), NEW d \in {1, Window}
  PROVE  Older(n, d) \in 0..(Window + 1) /\ (n > Window => Older(n, d) > Window)
  BY DEF Older

\* What is stored of the rows in S keeps the table's type.
LEMMA InsertType ==
  ASSUME TypeOK, NEW S \in SUBSET Markets, NEW L \in SUBSET Markets, NEW new,
         \A m \in S : new[m] \in {"CANDIDATE", "RECORDING", "DROPPED"},
         Insert(S, L, new)
  PROVE  /\ table' \in [Markets -> {"NONE", "CANDIDATE", "RECORDING", "DROPPED"}]
         /\ missed' \subseteq Markets
  BY DEF TypeOK, Insert

LEMMA LoseType ==
  ASSUME TypeOK, NEW L \in SUBSET Markets, Insert({}, L, NoRows)
  PROVE  /\ table' \in [Markets -> {"NONE", "CANDIDATE", "RECORDING", "DROPPED"}]
         /\ missed' \subseteq Markets
  BY DEF TypeOK, Insert

LEMMA InitType == Init => TypeOK
  BY DEF Init, TypeOK, NoTime, NoRows, Phases, States, Watched

LEMMA StepType == TypeOK /\ [Next]_vars => TypeOK'
<1> SUFFICES ASSUME TypeOK, [Next]_vars PROVE TypeOK'
  OBVIOUS
<1> USE DEF TypeOK, Watched, world, cands, settle, store, poll
<1>1. ASSUME NEW m \in Markets, Ages(m) PROVE TypeOK'
  BY <1>1 DEF Ages, Phases
<1>2. ASSUME NEW m \in Markets, Closes(m) PROVE TypeOK'
  BY <1>2 DEF Closes
<1>3. ASSUME NEW m \in Markets, Claim(m) PROVE TypeOK'
  BY <1>3 DEF Claim
<1>4. ASSUME NEW m \in Markets, Unclaim(m) PROVE TypeOK'
  BY <1>4 DEF Unclaim
<1>5. ASSUME NEW m \in Markets, CheckOwned(m) PROVE TypeOK'
  BY <1>5 DEF CheckOwned
<1>6. ASSUME NEW m \in Markets, Consider(m) PROVE TypeOK'
  BY <1>6 DEF Consider, States
<1>7. ASSUME NEW m \in Markets, Resolve(m) PROVE TypeOK'
  BY <1>7 DEF Resolve
<1>8. ASSUME NEW m \in Markets, Upsert(m) PROVE TypeOK'
  BY <1>8 DEF Upsert
<1>9. ASSUME NEW S \in SUBSET Markets, Score(S) PROVE TypeOK'
  <2>1. age' \in [Markets -> 0..(Window + 1)]
    BY <1>9 DEF Score
  <2>2. pass' \in [Markets -> Nat] /\ fail' \in [Markets -> Nat]
    BY <1>9 DEF Score, NextPass, NextFail
  <2>3. inPass' \in [Markets -> BOOLEAN]
    BY <1>9 DEF Score, NextInPass
  <2>4. verdicts' \in [Markets -> Seq(BOOLEAN)]
    <3>1. \A m \in Markets : Append(verdicts[m], m \in S) \in Seq(BOOLEAN)
      OBVIOUS
    <3> QED
      BY <1>9, <3>1 DEF Score
  <2>5. rows' \in [Markets -> {"NONE", "CANDIDATE", "RECORDING", "DROPPED"}]
    BY <1>9 DEF Score, States
  <2>6. ASSUME NEW m \in Markets, state[m] = "NONE"
        PROVE  pass'[m] = 0 /\ fail'[m] = 0 /\ ~inPass'[m]
    BY <1>9, <2>6 DEF Score, Judged, Polled
  <2> QED
    BY <1>9, <2>1, <2>2, <2>3, <2>4, <2>5, <2>6 DEF Score
<1>10. CASE Release
  <2>1. releasing \in SUBSET Markets /\ releasing \cap Watched \in SUBSET Markets
    OBVIOUS
  <2>2. CASE /\ Forget(releasing, age)
             /\ \/ Insert(releasing \cap Watched, {}, [m \in Markets |-> "DROPPED"])
                \/ Insert({}, releasing \cap Watched, NoRows)
    <3>1. /\ table' \in [Markets -> {"NONE", "CANDIDATE", "RECORDING", "DROPPED"}]
          /\ missed' \subseteq Markets
      BY <2>1, <2>2 DEF Insert
    <3> QED
      BY <1>10, <2>1, <2>2, <3>1, ForgetType DEF Release
  <2>3. CASE UNCHANGED <<cands, store>>
    BY <1>10, <2>3 DEF Release
  <2> QED
    BY <1>10, <2>2, <2>3 DEF Release
<1>11. CASE WindowStarts
  <2>1. PICK d \in {1, Window} : Forget(Stale, [m \in Markets |-> Older(age[m], d)])
    BY <1>11 DEF WindowStarts
  <2>2. [m \in Markets |-> Older(age[m], d)] \in [Markets -> 0..(Window + 1)]
    BY OlderType
  <2>3. Stale \in SUBSET Markets
    BY DEF Stale
  <2>4. rows' \in [Markets -> {"NONE", "CANDIDATE", "RECORDING", "DROPPED"}]
    BY <1>11 DEF WindowStarts
  <2>5. /\ state' \in [Markets -> States]
        /\ pass' \in [Markets -> Nat] /\ fail' \in [Markets -> Nat]
        /\ inPass' \in [Markets -> BOOLEAN]
        /\ age' \in [Markets -> 0..(Window + 1)]
        /\ verdicts' \in [Markets -> Seq(BOOLEAN)]
        /\ \A m \in Markets : state'[m] = "NONE" => pass'[m] = 0 /\ fail'[m] = 0 /\ ~inPass'[m]
    BY <2>1, <2>2, <2>3, ForgetType
  <2>6. window' \in 0..MaxWindows /\ pc' \in {"fetch", "select"} /\ promoting' = NoMarket
    BY <1>11 DEF WindowStarts
  <2>7. tokens' \subseteq Markets /\ now' \in [Markets -> Phases]
    BY <1>11 DEF WindowStarts
  <2> QED
    BY <1>11, <2>4, <2>5, <2>6, <2>7 DEF WindowStarts
<1>12. CASE FetchFails
  <2>1. Retired \in SUBSET Markets /\ Insert({}, Retired, NoRows)
    BY <1>12 DEF FetchFails, Retired
  <2>2. /\ table' \in [Markets -> {"NONE", "CANDIDATE", "RECORDING", "DROPPED"}]
        /\ missed' \subseteq Markets
    BY <2>1, LoseType
  <2> QED
    BY <1>12, <2>2 DEF FetchFails, NoRows, NoTime, Phases
<1>13. CASE Select
  BY <1>13 DEF Select, Eligible
<1>14. CASE Subscribe
  BY <1>14 DEF Subscribe, NoRows, NoTime, Phases, States
<1>15. CASE Mark
  BY <1>15 DEF Mark, NoRows, NoTime, Phases, States
<1>16. CASE Commit
  <2> DEFINE due == {m \in Markets : rows[m] # "NONE" /\ Latest(m)}
  <2>1. PICK S \in SUBSET due : Insert(S, (Retired \cap due) \ S, rows)
    BY <1>16 DEF Commit
  <2>2. \A m \in S : rows[m] \in {"CANDIDATE", "RECORDING", "DROPPED"}
    OBVIOUS
  <2>3. S \in SUBSET Markets /\ (Retired \cap due) \ S \in SUBSET Markets
    OBVIOUS
  <2>4. /\ table' \in [Markets -> {"NONE", "CANDIDATE", "RECORDING", "DROPPED"}]
        /\ missed' \subseteq Markets
    BY <2>1, <2>2, <2>3, InsertType
  <2> QED
    BY <1>16, <2>4 DEF Commit, NoRows, NoTime, Phases
<1>17. CASE Reconnect
  <2>1. Retired \in SUBSET Markets /\ Insert({}, Retired, NoRows)
    BY <1>17 DEF Reconnect, Retired
  <2>2. /\ table' \in [Markets -> {"NONE", "CANDIDATE", "RECORDING", "DROPPED"}]
        /\ missed' \subseteq Markets
    BY <2>1, LoseType
  <2>3. owned' \subseteq Markets /\ tracked' \subseteq Markets
    BY <1>17 DEF Reconnect, Recording
  <2> QED
    BY <1>17, <2>2, <2>3 DEF Reconnect, NoRows, NoTime, Phases
<1>18. CASE UNCHANGED vars
  BY <1>18 DEF vars
<1> QED
  BY <1>1, <1>2, <1>3, <1>4, <1>5, <1>6, <1>7, <1>8, <1>9, <1>10, <1>11, <1>12, <1>13, <1>14, <1>15, <1>16, <1>17, <1>18 DEF Next

---------------------------------------------------------------------------
(* Time and windows *)

LEMMA InitTimes == Init => Times
  BY DEF Init, Times, NoTime

LEMMA StepTimes == TypeOK /\ Times /\ [Next]_vars => Times'
<1> SUFFICES ASSUME TypeOK, Times, [Next]_vars PROVE Times'
  OBVIOUS
<1> USE DEF TypeOK, Times, world, cands, settle, store, poll
<1>1. ASSUME NEW m \in Markets, Ages(m) PROVE Times'
  BY <1>1 DEF Ages, Expired, Phases
<1>2. ASSUME NEW m \in Markets, Closes(m) PROVE Times'
  BY <1>2 DEF Closes
<1>3. CASE WindowStarts
  BY <1>3 DEF WindowStarts
<1>4. CASE FetchFails \/ Commit \/ Reconnect
  BY <1>4 DEF FetchFails, Commit, Reconnect, NoTime
<1>5. CASE UNCHANGED <<phase, closed, now>>
  BY <1>5
<1>6. ASSUME NEW m \in Markets, \/ Claim(m) \/ Unclaim(m) \/ CheckOwned(m) \/ Consider(m)
                                \/ Resolve(m) \/ Upsert(m)
      PROVE  UNCHANGED <<phase, closed, now>>
  BY <1>6 DEF Claim, Unclaim, CheckOwned, Consider, Resolve, Upsert
<1>7. ASSUME NEW S \in SUBSET Markets, Score(S) PROVE UNCHANGED <<phase, closed, now>>
  BY <1>7 DEF Score
<1>8. CASE Release \/ Select \/ Subscribe \/ Mark
  BY <1>8 DEF Release, Select, Subscribe, Mark
<1>9. CASE UNCHANGED vars
  BY <1>9 DEF vars
<1> QED
  BY <1>1, <1>2, <1>3, <1>4, <1>5, <1>6, <1>7, <1>8, <1>9 DEF Next

LEMMA InitWindows == Init => Windows
  BY DEF Init, Windows

LEMMA StepWindows == TypeOK /\ Windows /\ [Next]_vars => Windows'
<1> SUFFICES ASSUME TypeOK, Windows, [Next]_vars PROVE Windows'
  OBVIOUS
<1> USE DEF world, cands, settle, store, poll
<1>1. CASE WindowStarts
  <2>1. PICK d \in {1, Window} : Forget(Stale, [m \in Markets |-> Older(age[m], d)])
    BY <1>1 DEF WindowStarts
  <2>2. ASSUME NEW m \in Markets, inPass'[m]
        PROVE  m \in Watched \ Stale /\ age'[m] > Window /\ rows'[m] = "NONE"
    <3>1. inPass[m] /\ m \notin Stale
      BY <2>1, <2>2 DEF Forget
    <3>2. m \in Watched
      BY <3>1 DEF TypeOK
    <3>3. age[m] > Window /\ age[m] \in 0..(Window + 1)
      BY <3>1 DEF Windows, TypeOK
    <3>4. age'[m] = Older(age[m], d)
      BY <2>1, <3>1 DEF Forget
    <3> QED
      BY <1>1, <3>1, <3>2, <3>3, <3>4, OlderType DEF WindowStarts
  <2>3. pc' \in {"fetch", "select"} /\ selected' = {}
    BY <1>1 DEF WindowStarts, Windows
  <2>4. pc' = "fetch" => tokens' = Watched \ Stale
    BY <1>1 DEF WindowStarts
  <2>5. pc' = "select" => \A m \in Markets : ~inPass'[m]
    BY <1>1, <2>2 DEF WindowStarts
  <2>6. \A m \in Watched \ Stale : rows'[m] # "DROPPED"
    BY <1>1 DEF WindowStarts, Watched
  <2> QED
    BY <2>2, <2>3, <2>4, <2>5, <2>6 DEF Windows
<1>2. ASSUME NEW S \in SUBSET Markets, Score(S) PROVE Windows'
  <2>1. \A m \in Markets : age'[m] = age[m] \/ age[m] = 0
    BY <1>2 DEF Score, TypeOK
  <2>2. ASSUME NEW m \in Markets, inPass'[m]
        PROVE  age'[m] > Window /\ rows'[m] # "DROPPED" /\ now'[m] = "open"
    <3>1. CASE m \in Judged
      <4>1. now[m] = "open"
        BY <1>2, <2>2, <3>1 DEF Score, NextInPass, InFinalPhase
      <4>2. m \in Polled /\ age[m] > Window
        BY <3>1 DEF Judged
      <4>3. rows'[m] = state[m] /\ state[m] # "DROPPED"
        BY <1>2, <4>2 DEF Score, TypeOK, States
      <4>4. age'[m] = age[m]
        BY <1>2, <4>2 DEF Score, TypeOK
      <4> QED
        BY <1>2, <4>1, <4>2, <4>3, <4>4 DEF Score
    <3>2. CASE m \notin Judged
      <4>1. inPass[m]
        BY <1>2, <2>2, <3>2 DEF Score
      <4>2. m \in tokens /\ age[m] > Window /\ m \in Watched
        BY <1>2, <4>1 DEF Score, Windows, TypeOK
      <4> QED
        BY <3>2, <4>2 DEF Judged, Polled
    <3> QED
      BY <3>1, <3>2
  <2> QED
    BY <1>2, <2>2 DEF Score, Windows
<1>3. CASE Mark
  <2>1. \A m \in Markets : rows'[m] = "DROPPED" => rows[m] = "DROPPED"
    BY <1>3 DEF Mark, TypeOK
  <2> QED
    BY <1>3, <2>1 DEF Mark, Windows
<1>4. CASE Release
  <2>1. \A m \in Markets : inPass'[m] => inPass[m] /\ age'[m] = age[m]
    BY <1>4 DEF Release, Forget, TypeOK
  <2> QED
    BY <1>4, <2>1 DEF Release, Windows
<1>5. CASE FetchFails \/ Commit \/ Reconnect
  BY <1>5 DEF FetchFails, Commit, Reconnect, NoRows, Windows
<1>6. CASE Select \/ Subscribe \/ \E m \in Markets : Upsert(m)
  BY <1>6 DEF Select, Subscribe, Upsert, Windows
<1>7. CASE UNCHANGED <<pc, now, rows, selected, tokens, inPass, age>>
  BY <1>7 DEF Windows
<1>8. ASSUME NEW m \in Markets, \/ Ages(m) \/ Closes(m) \/ Claim(m) \/ Unclaim(m)
                                \/ CheckOwned(m) \/ Consider(m) \/ Resolve(m)
      PROVE  UNCHANGED <<pc, now, rows, selected, tokens, inPass, age>>
  BY <1>8 DEF Ages, Closes, Claim, Unclaim, CheckOwned, Consider, Resolve
<1>9. CASE UNCHANGED vars
  BY <1>7, <1>9 DEF vars
<1> QED
  BY <1>1, <1>2, <1>3, <1>4, <1>5, <1>6, <1>7, <1>8, <1>9 DEF Next

---------------------------------------------------------------------------
(* Promotions *)

LEMMA InitMerit == Init => Merit
  BY DEF Init, Merit, Pending

\* A selected market that was released does not come back: it has settled,
\* and the scan takes no market that has expired.
LEMMA StepMerit == TypeOK /\ Times /\ Windows /\ Merit /\ [Next]_vars => Merit'
<1> SUFFICES ASSUME TypeOK, Times, Windows, Merit, [Next]_vars PROVE Merit'
  OBVIOUS
<1> USE DEF world, cands, settle, store, poll
<1>1. ASSUME NEW m \in Markets, Consider(m) PROVE Merit'
  <2>1. Pending' = Pending /\ UNCHANGED <<closed, inPass, rows>>
    BY <1>1 DEF Consider, Pending
  <2>2. \A k \in Pending : state'[k] = "NONE" => state[k] = "NONE"
    BY <1>1 DEF Consider, TypeOK, Pending
  <2>3. ASSUME NEW k \in Pending, state'[k] # "NONE" PROVE state[k] # "NONE"
    <3>1. k \in closed => phase[k] \in Expired
      BY DEF Times
    <3>2. state[k] = "NONE" => k \in closed
      BY DEF Merit
    <3> QED
      BY <1>1, <2>3, <3>1, <3>2 DEF Consider, TypeOK, Pending
  <2> QED
    BY <2>1, <2>2, <2>3 DEF Merit
<1>2. CASE Release
  <2>1. Pending' = Pending /\ UNCHANGED <<closed, rows>>
    BY <1>2 DEF Release, Pending
  <2>2. CASE Forget(releasing, age)
    <3>1. ASSUME NEW k \in Pending
          PROVE  (k \in releasing /\ state'[k] = "NONE") \/ (state'[k] = state[k] /\ inPass'[k] = inPass[k])
      <4>1. k \in Markets
        BY DEF Pending, TypeOK
      <4> QED
        BY <2>2, <4>1 DEF Forget, TypeOK
    <3> QED
      BY <2>1, <3>1 DEF Merit, TypeOK
  <2>3. CASE UNCHANGED cands
    BY <2>1, <2>3 DEF Merit
  <2> QED
    BY <1>2, <2>2, <2>3 DEF Release
<1>3. CASE Select
  <2>1. selected' \subseteq Eligible /\ promoting = NoMarket
    BY <1>3 DEF Select, TypeOK
  <2>2. Pending' \subseteq Eligible
    BY <1>3, <2>1 DEF Select, Pending
  <2>3. \A m \in Eligible : state[m] = "CANDIDATE" /\ inPass[m] /\ rows[m] # "DROPPED"
    BY DEF Eligible, Windows
  <2> QED
    BY <1>3, <2>2, <2>3 DEF Select, Merit
<1>4. CASE Mark
  <2>1. promoting \in Markets
    BY <1>4 DEF Mark, TypeOK
  <2>2. Pending' \subseteq Pending
    BY <1>4 DEF Mark, Pending
  <2>3. ASSUME NEW k \in Pending
        PROVE  /\ state'[k] = "NONE" <=> state[k] = "NONE"
               /\ rows'[k] = "DROPPED" => rows[k] = "DROPPED"
    BY <1>4, <2>1 DEF Mark, TypeOK, Pending
  <2> QED
    BY <1>4, <2>2, <2>3 DEF Mark, Merit
<1>5. CASE Subscribe \/ \E m \in Markets : Upsert(m)
  <2>1. Pending' \subseteq Pending /\ UNCHANGED <<state, inPass, closed, rows>>
    BY <1>5 DEF Subscribe, Upsert, Pending
  <2> QED
    BY <2>1 DEF Merit
<1>6. ASSUME NEW S \in SUBSET Markets, Score(S) PROVE Merit'
  <2>1. Pending = {} /\ Pending' = {}
    BY <1>6 DEF Score, Pending, Windows, TypeOK
  <2> QED
    BY <2>1 DEF Merit
<1>7. CASE WindowStarts \/ FetchFails \/ Commit \/ Reconnect
  <2>1. Pending' = {}
    BY <1>7 DEF WindowStarts, FetchFails, Commit, Reconnect, Pending, Windows, TypeOK
  <2> QED
    BY <2>1 DEF Merit
<1>8. ASSUME NEW m \in Markets, \/ Ages(m) \/ Closes(m) \/ Claim(m) \/ Unclaim(m)
                                \/ CheckOwned(m) \/ Resolve(m)
      PROVE  UNCHANGED <<selected, promoting, state, inPass, rows>> /\ closed \subseteq closed'
  BY <1>8 DEF Ages, Closes, Claim, Unclaim, CheckOwned, Resolve
<1>9. CASE UNCHANGED <<selected, promoting, state, inPass, rows>> /\ closed \subseteq closed'
  BY <1>9 DEF Merit, Pending
<1>10. CASE UNCHANGED vars
  BY <1>9, <1>10 DEF vars
<1> QED
  BY <1>1, <1>2, <1>3, <1>4, <1>5, <1>6, <1>7, <1>8, <1>9, <1>10 DEF Next

LEMMA SubsetsFinite ==
  ASSUME NEW S \in SUBSET Markets
  PROVE  IsFiniteSet(S) /\ Cardinality(S) \in Nat
  BY FS_Subset, FS_CardinalityType

LEMMA InitBudget == Init => Budget
<1> SUFFICES ASSUME Init PROVE Budget
  OBVIOUS
<1>1. Recording = {} /\ Pending = {}
  BY DEF Init, Recording, Pending
<1> QED
  BY <1>1, FS_EmptySet DEF Budget

\* The recordings and the selected grow by a selection only.
LEMMA StepBudget == TypeOK /\ Windows /\ Budget /\ [Next]_vars => Budget'
<1> SUFFICES ASSUME TypeOK, Windows, Budget, [Next]_vars PROVE Budget'
  OBVIOUS
<1> USE DEF world, cands, settle, store, poll
<1>1. Recording \cup Pending \in SUBSET Markets
  BY DEF Recording, Pending, TypeOK
<1>2. CASE Select
  <2>1. PICK S \in SUBSET Eligible :
          /\ selected' = S
          /\ Cardinality(S) = IF Cardinality(Eligible) <= Slots THEN Cardinality(Eligible) ELSE Slots
    BY <1>2 DEF Select
  <2>2. promoting = NoMarket /\ Pending = {}
    BY <1>2 DEF Select, TypeOK, Windows, Pending
  <2>3. Recording' = Recording /\ Pending' = S
    BY <1>2, <2>1, <2>2 DEF Select, Recording, Pending
  <2>4. S \in SUBSET Markets /\ Recording \in SUBSET Markets /\ Eligible \in SUBSET Markets
    BY DEF Recording, Eligible
  <2>5. Cardinality(Recording) <= MaxRecording /\ Cardinality(Recording) \in Nat
    BY <2>2, <2>4, SubsetsFinite DEF Budget
  <2>6. Cardinality(S) <= Slots /\ Cardinality(S) \in Nat
    BY <2>1, <2>4, <2>5, SubsetsFinite DEF Slots
  <2>7. Cardinality(Recording \cup S) <= Cardinality(Recording) + Cardinality(S)
    <3>1. /\ Cardinality(Recording \cup S)
              = Cardinality(Recording) + Cardinality(S) - Cardinality(Recording \cap S)
      BY <2>4, SubsetsFinite, FS_Union
    <3>2. Cardinality(Recording \cap S) \in Nat
      BY <2>4, SubsetsFinite
    <3> QED
      BY <2>5, <2>6, <3>1, <3>2
  <2>8. Cardinality(Recording \cup S) \in Nat
    BY <2>4, SubsetsFinite
  <2>9. Cardinality(Recording) + Cardinality(S) <= MaxRecording
    BY <2>5, <2>6 DEF Slots
  <2> QED
    BY <2>3, <2>5, <2>6, <2>7, <2>8, <2>9 DEF Budget
<1>3. CASE (Recording \cup Pending)' \subseteq Recording \cup Pending
  <2>1. Cardinality((Recording \cup Pending)') <= Cardinality(Recording \cup Pending)
    BY <1>1, <1>3, SubsetsFinite, FS_Subset
  <2>2. (Recording \cup Pending)' \in SUBSET Markets
    BY <1>1, <1>3
  <2> QED
    BY <1>1, <2>1, <2>2, SubsetsFinite DEF Budget
<1>4. ASSUME NEW m \in Markets, Consider(m) PROVE (Recording \cup Pending)' \subseteq Recording \cup Pending
  BY <1>4 DEF Consider, Recording, Pending, TypeOK
<1>5. CASE Release \/ WindowStarts
  <2>1. Recording' \subseteq Recording
    BY <1>5 DEF Release, WindowStarts, Forget, Recording
  <2>2. Pending' = Pending
    BY <1>5 DEF Release, WindowStarts, Pending
  <2> QED
    BY <1>3, <2>1, <2>2
<1>6. CASE Mark
  <2>1. Recording' \subseteq Recording \cup {promoting} /\ promoting \in Pending
    BY <1>6 DEF Mark, Recording, Pending, TypeOK
  <2>2. Pending' \subseteq Pending
    BY <1>6 DEF Mark, Pending
  <2> QED
    BY <1>3, <2>1, <2>2
<1>7. ASSUME \/ Subscribe \/ FetchFails \/ Commit \/ Reconnect
             \/ (\E m \in Markets : Upsert(m)) \/ (\E S \in SUBSET Markets : Score(S))
      PROVE  Recording' = Recording /\ Pending' \subseteq Pending
  BY <1>7 DEF Subscribe, FetchFails, Commit, Reconnect, Upsert, Score, Recording, Pending
<1>8. ASSUME NEW m \in Markets, \/ Ages(m) \/ Closes(m) \/ Claim(m) \/ Unclaim(m)
                                \/ CheckOwned(m) \/ Resolve(m)
      PROVE  Recording' = Recording /\ Pending' = Pending
  BY <1>8 DEF Ages, Closes, Claim, Unclaim, CheckOwned, Resolve, Recording, Pending
<1>9. CASE UNCHANGED vars
  BY <1>3, <1>9 DEF vars, Recording, Pending
<1> QED
  BY <1>2, <1>3, <1>4, <1>5, <1>6, <1>7, <1>8, <1>9 DEF Next

\* The watched markets fit the list.
Listable == Cardinality(Watched) <= MaxCandidates

LEMMA InitListable == Init => Listable
<1> SUFFICES ASSUME Init PROVE Listable
  OBVIOUS
<1>1. Watched = {}
  BY DEF Init, Watched
<1> QED
  BY <1>1, FS_EmptySet DEF Listable

\* The list grows by a market that the scan adds, and by nothing else: a
\* promotion marks a market that is watched, or none.
LEMMA StepListable == TypeOK /\ Listable /\ [Next]_vars => Listable'
<1> SUFFICES ASSUME TypeOK, Listable, [Next]_vars PROVE Listable'
  OBVIOUS
<1> USE DEF world, cands, settle, store, poll
<1>1. Watched \in SUBSET Markets
  BY DEF Watched
<1>2. CASE Watched' \subseteq Watched
  <2>1. Cardinality(Watched') <= Cardinality(Watched) /\ Watched' \in SUBSET Markets
    BY <1>1, <1>2, SubsetsFinite, FS_Subset
  <2> QED
    BY <1>1, <2>1, SubsetsFinite DEF Listable
<1>3. ASSUME NEW m \in Markets, Consider(m) PROVE Listable'
  <2>1. CASE state[m] = "NONE" /\ Cardinality(Watched) < MaxCandidates /\ phase[m] \notin Expired
    <3>1. Watched' = Watched \cup {m} /\ m \notin Watched
      BY <1>3, <2>1 DEF Consider, Watched, TypeOK
    <3>2. Cardinality(Watched') = Cardinality(Watched) + 1
      BY <1>1, <3>1, SubsetsFinite, FS_AddElement
    <3> QED
      BY <1>1, <2>1, <3>2, SubsetsFinite DEF Listable
  <2>2. CASE UNCHANGED state
    BY <1>2, <2>2 DEF Watched
  <2> QED
    BY <1>3, <2>1, <2>2 DEF Consider
<1>4. CASE Mark
  <2>1. Watched' \subseteq Watched
    BY <1>4 DEF Mark, Watched, TypeOK
  <2> QED
    BY <1>2, <2>1
<1>5. CASE Release \/ WindowStarts
  <2>1. Watched' \subseteq Watched
    BY <1>5 DEF Release, WindowStarts, Forget, Watched
  <2> QED
    BY <1>2, <2>1
<1>6. ASSUME \/ Select \/ Subscribe \/ FetchFails \/ Commit \/ Reconnect
             \/ (\E m \in Markets : Upsert(m)) \/ (\E S \in SUBSET Markets : Score(S))
      PROVE  Watched' = Watched
  BY <1>6 DEF Select, Subscribe, FetchFails, Commit, Reconnect, Upsert, Score, Watched
<1>7. ASSUME NEW m \in Markets, \/ Ages(m) \/ Closes(m) \/ Claim(m) \/ Unclaim(m)
                                \/ CheckOwned(m) \/ Resolve(m)
      PROVE  Watched' = Watched
  BY <1>7 DEF Ages, Closes, Claim, Unclaim, CheckOwned, Resolve, Watched
<1>8. CASE UNCHANGED vars
  BY <1>2, <1>8 DEF vars, Watched
<1> QED
  BY <1>2, <1>3, <1>4, <1>5, <1>6, <1>7, <1>8 DEF Next

---------------------------------------------------------------------------
(* Rows *)

LEMMA InitRows == Init => RowsShow /\ Stored
  BY DEF Init, RowsShow, Stored, NoRows

LEMMA StepRowsShow == TypeOK /\ RowsShow /\ [Next]_vars => RowsShow'
<1> SUFFICES ASSUME TypeOK, RowsShow, [Next]_vars PROVE RowsShow'
  OBVIOUS
<1> USE DEF RowsShow, world, cands, settle, store, poll
<1>1. ASSUME NEW m \in Markets, Consider(m) PROVE RowsShow'
  BY <1>1 DEF Consider, TypeOK
<1>2. CASE Release
  BY <1>2 DEF Release, Forget
<1>3. CASE WindowStarts
  BY <1>3 DEF WindowStarts
<1>4. ASSUME NEW S \in SUBSET Markets, Score(S) PROVE RowsShow'
  BY <1>4 DEF Score
<1>5. CASE Mark
  BY <1>5 DEF Mark, TypeOK
<1>6. CASE FetchFails \/ Commit \/ Reconnect
  BY <1>6 DEF FetchFails, Commit, Reconnect, NoRows
<1>7. CASE UNCHANGED <<state, rows>>
  BY <1>7
<1>8. ASSUME \/ Select \/ Subscribe
             \/ \E m \in Markets : \/ Ages(m) \/ Closes(m) \/ Claim(m) \/ Unclaim(m)
                                   \/ CheckOwned(m) \/ Resolve(m) \/ Upsert(m)
      PROVE  UNCHANGED <<state, rows>>
  BY <1>8 DEF Select, Subscribe, Ages, Closes, Claim, Unclaim, CheckOwned, Resolve, Upsert
<1>9. CASE UNCHANGED vars
  BY <1>7, <1>9 DEF vars
<1> QED
  BY <1>1, <1>2, <1>3, <1>4, <1>5, <1>6, <1>7, <1>8, <1>9 DEF Next

\* A market that leaves the list leaves a DROPPED row, which is stored at once
\* (Release) or with the window's rows (WindowStarts, Commit), or it is missed.
LEMMA StepStored == TypeOK /\ Windows /\ Merit /\ Stored /\ [Next]_vars => Stored'
<1> SUFFICES ASSUME TypeOK, Windows, Merit, Stored, [Next]_vars PROVE Stored'
  OBVIOUS
<1> USE DEF world, cands, settle, store, poll
<1>1. ASSUME NEW m \in Markets, Consider(m) PROVE Stored'
  BY <1>1 DEF Consider, Stored, TypeOK
<1>2. CASE Release
  <2>1. UNCHANGED rows
    BY <1>2 DEF Release
  <2>2. ASSUME NEW m \in Markets, m \notin releasing \cap Watched, Forget(releasing, age),
               state'[m] = "NONE"
        PROVE  state[m] = "NONE"
    BY <2>2 DEF Forget, Watched
  <2>3. CASE Forget(releasing, age) /\ Insert(releasing \cap Watched, {}, [m \in Markets |-> "DROPPED"])
    BY <2>1, <2>2, <2>3 DEF Stored, Insert
  <2>4. CASE Forget(releasing, age) /\ Insert({}, releasing \cap Watched, NoRows)
    BY <2>1, <2>2, <2>4 DEF Stored, Insert
  <2>5. CASE UNCHANGED <<cands, store>>
    BY <2>1, <2>5 DEF Stored
  <2> QED
    BY <1>2, <2>3, <2>4, <2>5 DEF Release
<1>3. CASE WindowStarts
  <2>1. UNCHANGED store /\ rows = NoRows
    BY <1>3 DEF WindowStarts, Windows
  <2>2. ASSUME NEW m \in Markets, state'[m] = "NONE" PROVE state[m] = "NONE" \/ rows'[m] = "DROPPED"
    BY <1>3, <2>2 DEF WindowStarts, Forget
  <2> QED
    BY <2>1, <2>2 DEF Stored, NoRows
<1>4. ASSUME NEW S \in SUBSET Markets, Score(S) PROVE Stored'
  <2>1. \A m \in Markets : state[m] = "NONE" => rows'[m] = rows[m]
    BY <1>4 DEF Score, Polled, Watched
  <2> QED
    BY <1>4, <2>1 DEF Score, Stored
<1>5. CASE Mark
  <2>1. \A m \in Markets : rows[m] = "DROPPED" => rows'[m] = "DROPPED"
    BY <1>5 DEF Mark, Merit, Pending, TypeOK
  <2>2. \A m \in Markets : state'[m] = "NONE" => state[m] = "NONE"
    BY <1>5 DEF Mark, TypeOK
  <2> QED
    BY <1>5, <2>1, <2>2 DEF Mark, Stored
<1>6. CASE FetchFails \/ Reconnect
  <2>1. Insert({}, Retired, NoRows) /\ UNCHANGED state
    BY <1>6 DEF FetchFails, Reconnect
  <2> QED
    BY <2>1 DEF Insert, Retired, Stored
<1>7. CASE Commit
  <2> DEFINE due == {m \in Markets : rows[m] # "NONE" /\ Latest(m)}
  <2>1. PICK S \in SUBSET due : Insert(S, (Retired \cap due) \ S, rows)
    BY <1>7 DEF Commit
  <2>2. UNCHANGED state
    BY <1>7 DEF Commit
  <2>3. ASSUME NEW m \in Markets, state[m] = "NONE", m \notin missed'
        PROVE  table'[m] \in {"NONE", "DROPPED"}
    <3>1. CASE m \in S
      BY <2>1, <2>3, <3>1 DEF Insert, Latest, Watched
    <3>2. CASE m \notin S
      <4>1. m \notin missed /\ rows[m] # "DROPPED"
        BY <2>1, <2>3, <3>2 DEF Insert, Retired, Latest
      <4> QED
        BY <2>1, <2>3, <3>2, <4>1 DEF Insert, Stored
    <3> QED
      BY <3>1, <3>2
  <2> QED
    BY <2>2, <2>3 DEF Stored
<1>8. CASE UNCHANGED <<state, rows, table, missed>>
  BY <1>8 DEF Stored
<1>9. ASSUME \/ Select \/ Subscribe
             \/ \E m \in Markets : \/ Ages(m) \/ Closes(m) \/ Claim(m) \/ Unclaim(m)
                                   \/ CheckOwned(m) \/ Resolve(m) \/ Upsert(m)
      PROVE  UNCHANGED <<state, rows, table, missed>>
  BY <1>9 DEF Select, Subscribe, Ages, Closes, Claim, Unclaim, CheckOwned, Resolve, Upsert
<1>10. CASE UNCHANGED vars
  BY <1>8, <1>10 DEF vars
<1> QED
  BY <1>1, <1>2, <1>3, <1>4, <1>5, <1>6, <1>7, <1>8, <1>9, <1>10 DEF Next

---------------------------------------------------------------------------
(* The pass list *)

\* A verdict lengthens the run it continues and ends the other.
LEMMA RunAppend ==
  ASSUME NEW v \in Seq(BOOLEAN), NEW x \in BOOLEAN, NEW b \in BOOLEAN, NEW n \in Nat, Run(v, b, n)
  PROVE  Run(Append(v, x), b, IF x = b THEN n + 1 ELSE 0)
<1> DEFINE w == Append(v, x)
           l == Len(v)
<1>1. l \in Nat /\ Len(w) = l + 1 /\ w[l + 1] = x /\ \A j \in 1..l : w[j] = v[j]
  OBVIOUS
<1>2. n \in 0..l /\ (\A j \in (l - n + 1)..l : v[j] = b) /\ (n < l => v[l - n] # b)
  BY DEF Run
<1> HIDE DEF w, l
<1>3. CASE x = b
  <2>1. n + 1 \in 0..Len(w)
    BY <1>1, <1>2
  <2>2. ASSUME NEW j \in (Len(w) - (n + 1) + 1)..Len(w) PROVE w[j] = b
    <3>1. j \in (l - n + 1)..(l + 1)
      BY <1>1, <1>2
    <3>2. CASE j = l + 1
      BY <1>1, <1>3, <3>2
    <3>3. CASE j # l + 1
      BY <1>1, <1>2, <3>1, <3>3
    <3> QED
      BY <3>2, <3>3
  <2>3. n + 1 < Len(w) => w[Len(w) - (n + 1)] # b
    BY <1>1, <1>2
  <2> QED
    BY <1>3, <2>1, <2>2, <2>3 DEF Run, w
<1>4. CASE x # b
  <2>1. \A j \in (Len(w) - 0 + 1)..Len(w) : w[j] = b
    BY <1>1
  <2>2. w[Len(w) - 0] # b
    BY <1>1, <1>4
  <2> QED
    BY <1>1, <1>4, <2>1, <2>2 DEF Run, w
<1> QED
  BY <1>3, <1>4

\* A verdict earns a place with the run it completes, or keeps the place that
\* was earned unless it completes a run of failures.
LEMMA EarnsAppend ==
  ASSUME NEW v \in Seq(BOOLEAN), NEW x \in BOOLEAN, NEW p \in Nat, NEW f \in Nat,
         Run(Append(v, x), TRUE, p), Run(Append(v, x), FALSE, f)
  PROVE  Earns(Append(v, x)) <=> (p >= HystK \/ (Earns(v) /\ f < HystM))
<1> DEFINE w == Append(v, x)
           l == Len(v)
<1>1. l \in Nat /\ Len(w) = l + 1 /\ w[l + 1] = x /\ \A j \in 1..l : w[j] = v[j]
  OBVIOUS
<1>2. \A j \in 1..(l + 1) : w[j] \in BOOLEAN
  <2>1. w \in Seq(BOOLEAN)
    OBVIOUS
  <2> QED
    BY <1>1, <2>1
<1>3. /\ p \in 0..(l + 1) /\ \A j \in (l + 1 - p + 1)..(l + 1) : w[j] = TRUE
      /\ p < l + 1 => w[l + 1 - p] # TRUE
  <2>1. l \in Nat /\ Len(w) = l + 1
    BY <1>1
  <2>2. Run(w, TRUE, p)
    OBVIOUS
  <2> HIDE DEF w, l
  <2>3. ASSUME NEW b, b = TRUE
        PROVE  /\ p \in 0..(l + 1) /\ \A j \in (l + 1 - p + 1)..(l + 1) : w[j] = b
               /\ p < l + 1 => w[l + 1 - p] # b
    <3>1. Run(w, b, p)
      BY <2>2, <2>3, Zenon
    <3> QED
      BY <2>1, <3>1 DEF Run
  <2>4. p \in 0..(l + 1)
    BY <2>3
  <2>5. \A j \in (l + 1 - p + 1)..(l + 1) : w[j] = TRUE
    BY <2>3
  <2>6. p < l + 1 => w[l + 1 - p] # TRUE
    BY <2>3
  <2> QED
    BY <2>4, <2>5, <2>6
<1>4. /\ f \in 0..(l + 1) /\ \A j \in (l + 1 - f + 1)..(l + 1) : w[j] = FALSE
      /\ f < l + 1 => w[l + 1 - f] # FALSE
  <2>1. l \in Nat /\ Len(w) = l + 1
    BY <1>1
  <2>2. Run(w, FALSE, f)
    OBVIOUS
  <2> HIDE DEF w, l
  <2>3. ASSUME NEW b, b = FALSE
        PROVE  /\ f \in 0..(l + 1) /\ \A j \in (l + 1 - f + 1)..(l + 1) : w[j] = b
               /\ f < l + 1 => w[l + 1 - f] # b
    <3>1. Run(w, b, f)
      BY <2>2, <2>3, Zenon
    <3> QED
      BY <2>1, <3>1 DEF Run
  <2>4. f \in 0..(l + 1)
    BY <2>3
  <2>5. \A j \in (l + 1 - f + 1)..(l + 1) : w[j] = FALSE
    BY <2>3
  <2>6. f < l + 1 => w[l + 1 - f] # FALSE
    BY <2>3
  <2> QED
    BY <2>4, <2>5, <2>6
<1> HIDE DEF w, l
<1>5. ASSUME p >= HystK PROVE Earns(w)
  <2> DEFINE i == l + 1 - HystK + 1
  <2>1. i \in 1..Len(w) /\ i + HystK - 1 <= Len(w)
    BY <1>1, <1>3, <1>5
  <2>2. \A j \in i..(i + HystK - 1) : w[j] = TRUE
    BY <1>1, <1>3, <1>5
  <2>3. \A n \in (i + HystK)..Len(w) :
          n + HystM - 1 <= Len(w) => \E j \in n..(n + HystM - 1) : w[j] = TRUE
    BY <1>1
  <2> HIDE DEF i
  <2> QED
    BY <2>1, <2>2, <2>3 DEF Earns
<1>6. ASSUME Earns(v), f < HystM PROVE Earns(w)
  <2>1. PICK i \in 1..l :
          /\ i + HystK - 1 <= l /\ \A j \in i..(i + HystK - 1) : v[j] = TRUE
          /\ \A n \in (i + HystK)..l :
               n + HystM - 1 <= l => \E j \in n..(n + HystM - 1) : v[j] = TRUE
    BY <1>6 DEF Earns, l
  <2>2. ASSUME NEW n \in (i + HystK)..Len(w), n + HystM - 1 <= Len(w)
        PROVE  \E j \in n..(n + HystM - 1) : w[j] = TRUE
    <3>1. CASE n + HystM - 1 <= l
      <4>1. n \in (i + HystK)..l
        BY <1>1, <2>2, <3>1
      <4>2. PICK j \in n..(n + HystM - 1) : v[j] = TRUE
        BY <2>1, <3>1, <4>1
      <4>3. n >= 1 /\ n \in Nat
        BY <1>1, <2>2
      <4>4. j \in 1..l
        BY <1>1, <3>1, <4>2, <4>3
      <4> QED
        BY <1>1, <4>2, <4>4
    <3>2. CASE n + HystM - 1 = l + 1
      <4>1. l + 1 - f \in n..(n + HystM - 1) /\ l + 1 - f \in 1..(l + 1) /\ f < l + 1
        BY <1>1, <1>4, <1>6, <2>1, <2>2, <3>2
      <4>2. w[l + 1 - f] = TRUE
        BY <1>2, <1>4, <4>1
      <4> QED
        BY <4>1, <4>2
    <3>3. n + HystM - 1 <= l \/ n + HystM - 1 = l + 1
      BY <1>1, <2>1, <2>2
    <3> QED
      BY <3>1, <3>2, <3>3
  <2>3. i \in 1..Len(w) /\ i + HystK - 1 <= Len(w)
    BY <1>1, <2>1
  <2>4. \A j \in i..(i + HystK - 1) : w[j] = TRUE
    BY <1>1, <2>1
  <2> QED
    BY <2>2, <2>3, <2>4 DEF Earns
<1>7. ASSUME Earns(w), p < HystK PROVE Earns(v) /\ f < HystM
  <2>1. PICK i \in 1..(l + 1) :
          /\ i + HystK - 1 <= l + 1 /\ \A j \in i..(i + HystK - 1) : w[j] = TRUE
          /\ \A n \in (i + HystK)..(l + 1) :
               n + HystM - 1 <= l + 1 => \E j \in n..(n + HystM - 1) : w[j] = TRUE
    BY <1>1, <1>7 DEF Earns
  <2>2. i + HystK - 1 <= l
    <3> SUFFICES ASSUME i + HystK - 1 = l + 1 PROVE FALSE
      BY <1>1, <2>1
    <3>1. l + 1 - p \in i..(i + HystK - 1) /\ p < l + 1
      BY <1>1, <1>3, <1>7, <2>1
    <3> QED
      BY <1>3, <2>1, <3>1
  <2>3. f < HystM
    <3> SUFFICES ASSUME f >= HystM PROVE FALSE
      BY <1>4
    <3> DEFINE n == l + 1 - HystM + 1
    <3>1. n \in Int /\ n + HystM - 1 = l + 1 /\ n >= l + 1 - f + 1
      BY <1>1, <1>4
    <3>2. i + HystK - 1 < n
      <4> SUFFICES ASSUME n <= i + HystK - 1 PROVE FALSE
        BY <2>1, <3>1
      <4>1. i + HystK - 1 \in (l + 1 - f + 1)..(l + 1)
        BY <1>1, <1>4, <2>1, <3>1
      <4>2. i + HystK - 1 \in i..(i + HystK - 1)
        BY <2>1
      <4> QED
        BY <1>4, <2>1, <4>1, <4>2
    <3>3. n \in (i + HystK)..(l + 1)
      BY <1>1, <2>1, <3>1, <3>2
    <3>4. PICK j \in n..(n + HystM - 1) : w[j] = TRUE
      BY <2>1, <3>1, <3>3
    <3>5. j \in (l + 1 - f + 1)..(l + 1)
      BY <1>1, <1>4, <3>1, <3>3, <3>4
    <3> QED
      BY <1>4, <3>4, <3>5
  <2>4. \A j \in i..(i + HystK - 1) : v[j] = TRUE
    BY <1>1, <2>1, <2>2
  <2>5. ASSUME NEW n \in (i + HystK)..l, n + HystM - 1 <= l
        PROVE  \E j \in n..(n + HystM - 1) : v[j] = TRUE
    <3>1. n \in Nat /\ n >= 1 /\ n \in (i + HystK)..(l + 1) /\ n + HystM - 1 <= l + 1
      BY <1>1, <2>5
    <3>2. PICK j \in n..(n + HystM - 1) : w[j] = TRUE
      BY <2>1, <3>1
    <3>3. j \in 1..l
      BY <1>1, <2>5, <3>1, <3>2
    <3> QED
      BY <1>1, <3>2, <3>3
  <2>6. i \in 1..l
    BY <1>1, <2>1, <2>2
  <2> QED
    BY <2>2, <2>3, <2>4, <2>5, <2>6 DEF Earns, l
<1> QED
  BY <1>1, <1>3, <1>5, <1>6, <1>7 DEF w

LEMMA NoVerdicts == Run(<<>>, TRUE, 0) /\ Run(<<>>, FALSE, 0) /\ ~Earns(<<>>)
  BY DEF Run, Earns

LEMMA InitListed == Init => Listed
  BY NoVerdicts DEF Init, Listed

LEMMA StepListed == TypeOK /\ Times /\ Listed /\ [Next]_vars => Listed'
<1> SUFFICES ASSUME TypeOK, Times, Listed, [Next]_vars PROVE Listed'
  OBVIOUS
<1> USE DEF world, cands, settle, store, poll
<1> DEFINE Lists(m) == /\ Run(verdicts[m], TRUE, pass[m]) /\ Run(verdicts[m], FALSE, fail[m])
                       /\ inPass[m] => Earns(verdicts[m])
                       /\ phase[m] = "open" /\ Earns(verdicts[m]) => inPass[m]
<1>1. SUFFICES ASSUME NEW m \in Markets PROVE Lists(m)'
  BY DEF Listed
<1>2. Lists(m)
  BY DEF Listed
<1>3. CASE /\ UNCHANGED <<verdicts, pass, fail, inPass>>
           /\ phase'[m] = "open" => phase[m] = "open"
  BY <1>2, <1>3
<1>4. ASSUME NEW S, NEW ages, Forget(S, ages), UNCHANGED phase PROVE Lists(m)'
  <2>1. CASE m \in S
    BY <1>4, <2>1, NoVerdicts DEF Forget
  <2>2. CASE m \notin S
    <3>1. /\ verdicts'[m] = verdicts[m] /\ pass'[m] = pass[m] /\ fail'[m] = fail[m]
          /\ inPass'[m] <=> inPass[m]
      BY <1>4, <2>2 DEF Forget, TypeOK
    <3> QED
      BY <1>2, <1>4, <3>1
  <2> QED
    BY <2>1, <2>2
<1>5. ASSUME NEW S \in SUBSET Markets, Score(S) PROVE Lists(m)'
  <2>1. CASE m \notin Judged
    <3>1. /\ verdicts'[m] = verdicts[m] /\ pass'[m] = pass[m] /\ fail'[m] = fail[m]
          /\ inPass'[m] <=> inPass[m]
      BY <1>5, <2>1 DEF Score
    <3> QED
      BY <1>2, <1>5, <3>1 DEF Score
  <2>2. CASE m \in Judged
    <3> DEFINE x == m \in S
               p == NextPass(m, S)
               f == NextFail(m, S)
    <3>1. /\ verdicts'[m] = Append(verdicts[m], x) /\ pass'[m] = p /\ fail'[m] = f
          /\ inPass'[m] = NextInPass(m, S) /\ phase'[m] = phase[m]
      BY <1>5, <2>2 DEF Score
    <3>2. /\ verdicts[m] \in Seq(BOOLEAN) /\ x \in BOOLEAN
          /\ pass[m] \in Nat /\ fail[m] \in Nat /\ p \in Nat /\ f \in Nat
      <4>1. verdicts[m] \in Seq(BOOLEAN) /\ pass[m] \in Nat /\ fail[m] \in Nat
        BY DEF TypeOK
      <4>2. x \in BOOLEAN
        OBVIOUS
      <4>3. p \in Nat /\ f \in Nat
        BY <4>1 DEF NextPass, NextFail
      <4> QED
        BY <4>1, <4>2, <4>3
    <3>3. Run(Append(verdicts[m], x), TRUE, IF x = TRUE THEN pass[m] + 1 ELSE 0)
      BY <1>2, <3>2, RunAppend
    <3>4. Run(Append(verdicts[m], x), FALSE, IF x = FALSE THEN fail[m] + 1 ELSE 0)
      BY <1>2, <3>2, RunAppend
    <3>5. Run(Append(verdicts[m], x), TRUE, p) /\ Run(Append(verdicts[m], x), FALSE, f)
      <4>1. /\ p = (IF x = TRUE THEN pass[m] + 1 ELSE 0)
            /\ f = (IF x = FALSE THEN fail[m] + 1 ELSE 0)
        BY DEF NextPass, NextFail
      <4> HIDE DEF x, p, f
      <4> QED
        BY <3>3, <3>4, <4>1, Zenon
    <3>6. Earns(Append(verdicts[m], x)) <=> (p >= HystK \/ (Earns(verdicts[m]) /\ f < HystM))
      BY <3>2, <3>5, EarnsAppend
    <3>7. p >= HystK => f < HystM
      BY DEF NextPass, NextFail
    <3>8. phase[m] = "open" => now[m] = "open"
      BY DEF Times
    <3>9. inPass'[m] <=> now[m] = "open" /\ f < HystM /\ (inPass[m] \/ p >= HystK)
      BY <3>1 DEF NextInPass, InFinalPhase
    <3> HIDE DEF x, p, f
    <3> QED
      BY <1>2, <3>1, <3>5, <3>6, <3>7, <3>8, <3>9
  <2> QED
    BY <2>1, <2>2
<1>6. CASE WindowStarts
  BY <1>4, <1>6 DEF WindowStarts
<1>7. CASE Release
  <2>1. UNCHANGED phase /\ (Forget(releasing, age) \/ UNCHANGED cands)
    BY <1>7 DEF Release
  <2> QED
    BY <1>3, <1>4, <2>1
<1>8. ASSUME NEW k \in Markets, Ages(k) PROVE Lists(m)'
  <2>1. UNCHANGED <<verdicts, pass, fail, inPass>>
    BY <1>8 DEF Ages
  <2>2. phase'[m] = "open" => phase[m] = "open"
    BY <1>8 DEF Ages, TypeOK
  <2> QED
    BY <1>3, <2>1, <2>2
<1>9. ASSUME NEW k \in Markets, \/ Closes(k) \/ Claim(k) \/ Unclaim(k) \/ CheckOwned(k)
                                \/ Consider(k) \/ Resolve(k) \/ Upsert(k)
      PROVE  UNCHANGED <<verdicts, pass, fail, inPass, phase>>
  BY <1>9 DEF Closes, Claim, Unclaim, CheckOwned, Consider, Resolve, Upsert
<1>10. CASE FetchFails \/ Select \/ Subscribe \/ Mark \/ Commit \/ Reconnect
  BY <1>3, <1>10 DEF FetchFails, Select, Subscribe, Mark, Commit, Reconnect
<1>11. CASE UNCHANGED vars
  BY <1>3, <1>11 DEF vars
<1> HIDE DEF Lists
<1> QED
  BY <1>3, <1>5, <1>6, <1>7, <1>8, <1>9, <1>10, <1>11 DEF Next

---------------------------------------------------------------------------
(* The watch list's promise *)

LEMMA InitList == Init => List!Init
  BY DEF Init, List!Init

\* WatchList counts its sets as the detailed list does.
LEMMA ListCardinality == \A S : List!Cardinality(S) = Cardinality(S)
  BY Zenon DEF Cardinality, List!Cardinality

\* Every step is one of the list's, or leaves the list alone.
LEMMA StepList == TypeOK /\ Merit /\ Budget /\ [Next]_vars => List!Next
<1> SUFFICES ASSUME TypeOK, Merit, Budget, [Next]_vars PROVE List!Next
  OBVIOUS
<1> USE DEF world, cands, settle, store, poll
<1>1. CASE UNCHANGED state
  BY <1>1 DEF List!Next, List!Environment
<1>2. ASSUME NEW m \in Markets, Consider(m) PROVE List!Next
  <2>1. CASE state[m] = "NONE" /\ Cardinality(Watched) < MaxCandidates /\ phase[m] \notin Expired
    <3>1. List!Watch(m)
      <4>1. List!Watched = Watched
        BY DEF Watched, List!Watched
      <4>2. state' = [state EXCEPT ![m] = "CANDIDATE"]
        BY <1>2, <2>1 DEF Consider
      <4> QED
        BY <2>1, <4>1, <4>2, ListCardinality DEF List!Watch
    <3> QED
      BY <3>1 DEF List!Next
  <2> QED
    BY <1>1, <1>2, <2>1 DEF Consider
<1>3. CASE Mark
  <2> DEFINE m == promoting
  <2>1. m \in Markets /\ pc = "mark" /\ m # NoMarket
    BY <1>3 DEF Mark, TypeOK
  <2>2. CASE state[m] = "CANDIDATE"
    <3>1. m \in Pending /\ m \notin Recording /\ Pending \subseteq Markets
      BY <2>1, <2>2 DEF Pending, Recording, TypeOK
    <3>2. IsFiniteSet(Recording) /\ IsFiniteSet(Recording \cup Pending)
      BY <3>1, SubsetsFinite DEF Recording
    <3>3. Cardinality(Recording \cup {m}) = Cardinality(Recording) + 1
      BY <3>1, <3>2, FS_AddElement
    <3>4. Cardinality(Recording \cup {m}) <= Cardinality(Recording \cup Pending)
      BY <3>1, <3>2, FS_Subset
    <3>5. Cardinality(Recording) < MaxRecording
      BY <3>1, <3>2, <3>3, <3>4, FS_CardinalityType, FS_AddElement DEF Budget
    <3>6. List!Promote(m)
      <4>1. List!Recording = Recording
        BY DEF Recording, List!Recording
      <4>2. state' = [state EXCEPT ![m] = "RECORDING"]
        BY <1>3, <2>2 DEF Mark
      <4> QED
        BY <2>2, <3>5, <4>1, <4>2, ListCardinality DEF List!Promote
    <3> QED
      BY <2>1, <3>6 DEF List!Next
  <2>3. CASE state[m] # "CANDIDATE"
    <3>1. UNCHANGED state
      BY <1>3, <2>1, <2>3 DEF Mark, TypeOK, States
    <3> QED
      BY <1>1, <3>1
  <2> QED
    BY <2>2, <2>3
<1>4. ASSUME NEW S \in SUBSET Markets, NEW ages, Forget(S, ages),
             S \cap Recording \subseteq owned \cup closed \cup {m \in Markets : phase[m] = "stuck"}
      PROVE  List!Next
  <2>1. List!Release(S \cap Watched)
    <3>1. state' = [m \in Markets |-> IF m \in S \cap Watched THEN "NONE" ELSE state[m]]
      BY <1>4 DEF Forget, Watched, TypeOK
    <3> QED
      BY <1>4, <3>1 DEF List!Release, List!Watched, List!Recording, Watched, Recording
  <2>2. S \cap Watched \in SUBSET Markets
    BY DEF Watched
  <2> QED
    BY <2>1, <2>2 DEF List!Next
<1>5. CASE Release
  <2>1. CASE UNCHANGED cands
    BY <1>1, <2>1
  <2>2. CASE Forget(releasing, age)
    <3>1. releasing \in SUBSET Markets /\ releasing \subseteq closed
      BY DEF TypeOK
    <3> QED
      BY <1>4, <2>2, <3>1
  <2> QED
    BY <1>5, <2>1, <2>2 DEF Release
<1>6. CASE WindowStarts
  <2>1. PICK d \in {1, Window} : Forget(Stale, [m \in Markets |-> Older(age[m], d)])
    BY <1>6 DEF WindowStarts
  <2>2. /\ Stale \in SUBSET Markets
        /\ Stale \cap Recording \subseteq owned \cup closed \cup {m \in Markets : phase[m] = "stuck"}
    BY DEF Stale, Watched, Recording
  <2> QED
    BY <1>4, <2>1, <2>2
<1>7. ASSUME NEW m \in Markets, \/ Ages(m) \/ Closes(m) \/ Claim(m) \/ Unclaim(m)
                                \/ CheckOwned(m) \/ Resolve(m) \/ Upsert(m)
      PROVE  UNCHANGED state
  BY <1>7 DEF Ages, Closes, Claim, Unclaim, CheckOwned, Resolve, Upsert
<1>8. ASSUME NEW S \in SUBSET Markets, Score(S) PROVE UNCHANGED state
  BY <1>8 DEF Score
<1>9. CASE FetchFails \/ Select \/ Subscribe \/ Commit \/ Reconnect
  BY <1>1, <1>9 DEF FetchFails, Select, Subscribe, Commit, Reconnect
<1>10. CASE UNCHANGED vars
  BY <1>1, <1>10 DEF vars
<1> QED
  BY <1>1, <1>2, <1>3, <1>5, <1>6, <1>7, <1>8, <1>9, <1>10 DEF Next

---------------------------------------------------------------------------
(* The theorems *)

\* What holds of every state, over any failures.
Inv == /\ TypeOK /\ Times /\ Windows /\ Merit /\ Budget /\ Listable
       /\ RowsShow /\ Stored /\ Listed

LEMMA Invariance == Spec => []Inv
<1>1. Init => Inv
  BY InitType, InitTimes, InitWindows, InitMerit, InitBudget, InitListable, InitRows,
     InitListed DEF Inv
<1>2. Inv /\ [Next]_vars => Inv'
  BY StepType, StepTimes, StepWindows, StepMerit, StepBudget, StepListable, StepRowsShow,
     StepStored, StepListed DEF Inv
<1> QED
  BY <1>1, <1>2, PTL DEF Spec

\* The state keeps its shape whatever fails and however often the connector
\* is built anew, and a market that is not watched has no streaks.
THEOREM TypeCorrect == Spec => []TypeOK
<1>1. Inv => TypeOK
  BY DEF Inv
<1> QED
  BY <1>1, Invariance, PTL

\* No row of a window calls CANDIDATE what the window has promoted.
THEOREM PromotionVisibleHolds == Spec => []PromotionVisible
<1>1. Inv => PromotionVisible
  BY DEF Inv, RowsShow, PromotionVisible
<1> QED
  BY <1>1, Invariance, PTL

\* The budget and the list's size hold at every moment, whatever fails between
\* a selection and its promotions, and whatever the scan adds meanwhile.
THEOREM WithinLimitsHolds == Spec => []WithinLimits
<1>1. ASSUME Inv PROVE Cardinality(Recording) <= MaxRecording
  <2>1. Recording \in SUBSET Markets /\ Recording \cup Pending \in SUBSET Markets
    BY <1>1 DEF Inv, TypeOK, Recording, Pending
  <2>2. Cardinality(Recording) <= Cardinality(Recording \cup Pending)
    BY <2>1, SubsetsFinite, FS_Subset
  <2> QED
    BY <1>1, <2>1, <2>2, SubsetsFinite DEF Inv, Budget
<1>2. Inv => WithinLimits
  BY <1>1 DEF Inv, Listable, WithinLimits
<1> QED
  BY <1>2, Invariance, PTL

\* Between windows the latest row of a market that has left the watch list
\* says so, unless that row was lost.
THEOREM DroppedIsStoredHolds == Spec => []DroppedIsStored
<1>1. Inv => DroppedIsStored
  BY DEF Inv, Stored, Windows, NoRows, Watched, DroppedIsStored, TypeOK
<1> QED
  BY <1>1, Invariance, PTL

\* The pass list is the hysteresis of all verdicts on a market, over skipped
\* windows, releases and reconnects.
THEOREM PassListEarnedHolds == Spec => []PassListEarned
<1>1. ASSUME Inv, NEW m \in Markets PROVE Earned(m) <=> Earns(verdicts[m])
  <2>1. \A j \in 1..Len(verdicts[m]) : verdicts[m][j] \in BOOLEAN
    BY <1>1 DEF Inv, TypeOK
  <2> QED
    BY <2>1 DEF Earned, Earns
<1>2. Inv => PassListEarned
  BY <1>1 DEF Inv, Listed, PassListEarned, Watched
<1> QED
  BY <1>2, Invariance, PTL

\* Only a window that kept a market in the pass list makes it a RECORDING,
\* and never in its final phase.
THEOREM PromotedOnMeritHolds == Spec => PromotedOnMerit
<1>1. ASSUME Inv, [Next]_vars, NEW m \in Markets, state[m] # "RECORDING", state'[m] = "RECORDING"
      PROVE  inPass[m] /\ now[m] = "open"
  <2> USE DEF world, cands, settle, store, poll
  <2>1. CASE Mark
    <3>1. m = promoting /\ m \in Pending /\ state[m] # "NONE"
      BY <1>1, <2>1 DEF Mark, Inv, TypeOK, Pending
    <3>2. inPass[m]
      BY <1>1, <3>1 DEF Inv, Merit
    <3> QED
      BY <1>1, <2>1, <3>2 DEF Mark, Inv, Windows
  <2>2. ASSUME NEW k \in Markets, Consider(k) PROVE FALSE
    BY <1>1, <2>2 DEF Consider, Inv, TypeOK
  <2>3. CASE Release \/ WindowStarts
    BY <1>1, <2>3 DEF Release, WindowStarts, Forget
  <2>4. CASE UNCHANGED state
    BY <1>1, <2>4
  <2>5. ASSUME NEW k \in Markets, \/ Ages(k) \/ Closes(k) \/ Claim(k) \/ Unclaim(k)
                                  \/ CheckOwned(k) \/ Resolve(k) \/ Upsert(k)
        PROVE  UNCHANGED state
    BY <2>5 DEF Ages, Closes, Claim, Unclaim, CheckOwned, Resolve, Upsert
  <2>6. ASSUME NEW S \in SUBSET Markets, Score(S) PROVE UNCHANGED state
    BY <2>6 DEF Score
  <2>7. CASE FetchFails \/ Select \/ Subscribe \/ Commit \/ Reconnect
    BY <2>4, <2>7 DEF FetchFails, Select, Subscribe, Commit, Reconnect
  <2>8. CASE UNCHANGED vars
    BY <2>4, <2>8 DEF vars
  <2> QED
    BY <1>1, <2>1, <2>2, <2>3, <2>4, <2>5, <2>6, <2>7, <2>8 DEF Next
<1>2. Inv /\ [Next]_vars =>
        [\A m \in Markets : state[m] # "RECORDING" /\ state'[m] = "RECORDING"
           => inPass[m] /\ now[m] = "open"]_vars
  BY <1>1
<1> QED
  BY <1>2, Invariance, PTL DEF Spec, PromotedOnMerit

\* The limits hold and no recording ends without a reason, over failed
\* promotions, releases and reconnects: the detailed list implements WatchList.
THEOREM ImplementsWatchListHolds == Spec => ImplementsWatchList
<1>1. Init => List!Init
  BY InitList
<1>2. Inv /\ [Next]_vars =>
        [List!Next]_<<state, owned \cup closed \cup {m \in Markets : phase[m] = "stuck"}>>
  BY StepList DEF Inv
<1> QED
  BY <1>1, <1>2, Invariance, PTL DEF Spec, ImplementsWatchList, List!Spec

===========================================================================
