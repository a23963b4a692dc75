--------------------------- MODULE AutoScreener ---------------------------
(***************************************************************************)
(* The auto-discovery mode (polymarket_auto.go): a scan goroutine that     *)
(* fills the watch list, a poll goroutine that scores one window after     *)
(* another and promotes what earned it, and the resolution loop that       *)
(* releases what has settled; all of it surviving the connector's death.   *)
(*                                                                         *)
(* A market stands for its Yes/No pair.  The connector's own tables are    *)
(* reduced to two sets: tracked, what it records under AUTO, and owned,    *)
(* what tokenOwned reports as a configured subject's.                      *)
(***************************************************************************)
EXTENDS Naturals, Sequences, FiniteSets

CONSTANTS
  Markets, NoMarket,
  MaxRecording, MaxCandidates,
  HystK, HystM,   \* windows in a row to enter, and to leave, the pass list
  Window,         \* polls that cover an observation window
  Faults,         \* what may fail: fetch, upsert, send, commit, connector
  MaxWindows      \* bound: windows polled in a behaviour

ASSUME LimitsAssumption ==
  MaxRecording \in Nat \ {0} /\ MaxCandidates \in Nat \ {0}
ASSUME HysteresisAssumption ==
  HystK \in Nat \ {0} /\ HystM \in Nat \ {0} /\ Window \in Nat \ {0} /\ MaxWindows \in Nat
ASSUME FaultsAssumption ==
  Faults \subseteq {"fetch", "upsert", "send", "commit", "connector"}
ASSUME MarketsAssumption == IsFiniteSet(Markets) /\ NoMarket \notin Markets

VARIABLES
  \* the world
  phase,      \* phase[m]: "open", "final", "expired", "stuck" (past the grace)
  owned,      \* markets a configured subject tracks
  tracked,    \* markets the connector records under AUTO
  closed,     \* markets that Polymarket has settled
  \* the watch list (cands)
  state,      \* state[m]: "NONE" when not watched, "CANDIDATE", "RECORDING"
  pass, fail, \* passStreak, failStreak
  inPass,     \* inPassList
  age,        \* age[m]: 0 without samples, or 1 + polls since the oldest one
  \* checkResolutions
  marked,     \* tracked markets called resolved in memory, their rows not stored
  releasing,  \* resolved markets stored and not released yet
  \* scanLoop
  checked,    \* the market whose ownership considerEvent has just checked
  \* pollLoop
  pc,         \* the next step of pollWindow, "tick" between windows
  window,     \* windows begun
  now,        \* phase at the window's "now"; NoTime between windows
  tokens,     \* the snapshot of watched tokens
  rows,       \* rows[m]: state in m's screener row of this window, or "NONE"
  selected,   \* candidates selected for promotion and not reached yet
  promoting,  \* the candidate being promoted
  \* polymarket_screener, and history
  table,      \* table[m]: the state in the latest row stored for m
  missed,     \* history: markets whose latest row was lost with a failed poll,
              \* a failed insert or the connector
  verdicts    \* verdicts[m]: history, how m's judged windows came out

world  == <<phase, owned, tracked, closed>>
cands  == <<state, pass, fail, inPass, age, verdicts>>
settle == <<marked, releasing>>
store  == <<table, missed>>
poll   == <<pc, window, now, tokens, rows, selected, promoting>>
vars   == <<phase, owned, tracked, closed, state, pass, fail, inPass, age,
            marked, releasing, checked, pc, window, now, tokens, rows, selected, promoting,
            table, missed, verdicts>>

Phases   == {"open", "final", "expired", "stuck"}
Expired  == {"expired", "stuck"}
States   == {"NONE", "CANDIDATE", "RECORDING"}

Watched   == {m \in Markets : state[m] # "NONE"}
Recording == {m \in Markets : state[m] = "RECORDING"}

NoRows == [m \in Markets |-> "NONE"]
NoTime == [m \in Markets |-> "open"]

Init ==
  /\ phase = NoTime
  /\ owned \in SUBSET Markets /\ tracked = {} /\ closed = {}
  /\ state  = [m \in Markets |-> "NONE"]
  /\ pass   = [m \in Markets |-> 0] /\ fail = [m \in Markets |-> 0]
  /\ inPass = [m \in Markets |-> FALSE]
  /\ age    = [m \in Markets |-> 0]
  /\ marked = {} /\ releasing = {} /\ checked = NoMarket
  /\ pc = "tick" /\ window = 0 /\ now = NoTime /\ tokens = {}
  /\ rows = NoRows /\ selected = {} /\ promoting = NoMarket
  /\ table = [m \in Markets |-> "NONE"] /\ missed = {}
  /\ verdicts = [m \in Markets |-> <<>>]

---------------------------------------------------------------------------
(* The world *)

\* Time passes for a market: into its final phase, past its expiry, past the
\* grace that is left for its resolution.  While a window is polled at most
\* one of these comes to pass.
Ages(m) ==
  /\ pc = "tick" \/ phase[m] = now[m]
  /\ \E p \in Phases :
       /\ <<phase[m], p>> \in {<<"open", "final">>, <<"final", "expired">>,
                               <<"expired", "stuck">>}
       /\ phase' = [phase EXCEPT ![m] = p]
  /\ UNCHANGED <<owned, tracked, closed, cands, settle, checked, poll, store>>

\* Polymarket settles m some time after its expiry.
Closes(m) ==
  /\ phase[m] \in Expired /\ m \notin closed
  /\ closed' = closed \cup {m}
  /\ UNCHANGED <<phase, owned, tracked, cands, settle, checked, poll, store>>

\* discover publishes m for a configured subject.
Claim(m) ==
  /\ m \notin owned /\ m \notin closed
  /\ owned' = owned \cup {m}
  /\ UNCHANGED <<phase, tracked, closed, cands, settle, checked, poll, store>>

\* The subject's claim ends: discover reconciles m away, which the entry in
\* known outlives unless that one is AUTO's, or the market was resolved.
Unclaim(m) ==
  /\ m \in owned /\ m \in tracked \cup closed
  /\ owned' = owned \ {m}
  /\ UNCHANGED <<phase, tracked, closed, cands, settle, checked, poll, store>>

---------------------------------------------------------------------------
(* scanLoop: considerEvent *)

\* The coarse filter keeps m (it has not expired, nor been closed), and no
\* configured subject owns it at this point.
CheckOwned(m) ==
  /\ checked = NoMarket
  /\ phase[m] \notin Expired /\ m \notin closed /\ m \notin owned
  /\ checked' = m
  /\ UNCHANGED <<world, cands, settle, poll, store>>

\* Under the list's own lock m is added, unless it is watched already or the
\* list is full.  The scan is quick against a market's life: m has not
\* expired since the filter saw it.
Consider(m) ==
  /\ checked = m
  /\ checked' = NoMarket
  /\ IF state[m] = "NONE" /\ Cardinality(Watched) < MaxCandidates /\ phase[m] \notin Expired
       THEN state' = [state EXCEPT ![m] = "CANDIDATE"]
       ELSE UNCHANGED state
  /\ UNCHANGED <<world, pass, fail, inPass, age, verdicts, settle, poll, store>>

---------------------------------------------------------------------------
(* commitScreener *)

\* The rows of S are stored, those of L lost.
Insert(S, L, new) ==
  /\ table'  = [m \in Markets |-> IF m \in S THEN new[m] ELSE table[m]]
  /\ missed' = (missed \ S) \cup L

---------------------------------------------------------------------------
(* Leaving the watch list *)

\* Mutant of Forget: the streaks are left behind for when m is watched again.
ForgetState(S, ages) ==
  /\ state'    = [m \in Markets |-> IF m \in S THEN "NONE" ELSE state[m]]
  /\ age'      = [m \in Markets |-> IF m \in S THEN 0 ELSE ages[m]]
  /\ UNCHANGED <<pass, fail, inPass, verdicts>>

\* The markets of S are deleted from cands, with all that was known of them;
\* ages are the others' ages.
Forget(S, ages) ==
  /\ state'    = [m \in Markets |-> IF m \in S THEN "NONE" ELSE state[m]]
  /\ pass'     = [m \in Markets |-> IF m \in S THEN 0 ELSE pass[m]]
  /\ fail'     = [m \in Markets |-> IF m \in S THEN 0 ELSE fail[m]]
  /\ inPass'   = [m \in Markets |-> m \notin S /\ inPass[m]]
  /\ age'      = [m \in Markets |-> IF m \in S THEN 0 ELSE ages[m]]
  /\ verdicts' = [m \in Markets |-> IF m \in S THEN <<>> ELSE verdicts[m]]

\* checkResolutions finds m settled, calls it resolved in memory and stores
\* its rows; then the connector forgets m.  When they cannot be stored m stays
\* tracked, and being resolved in memory is never looked at again.
Resolve(m) ==
  /\ m \in tracked \ marked /\ m \in closed
  /\ \/ /\ tracked' = tracked \ {m} /\ owned' = owned \ {m}
        /\ releasing' = releasing \cup {m}
        /\ UNCHANGED marked
     \/ /\ "upsert" \in Faults
        /\ marked' = marked \cup {m}
        /\ UNCHANGED <<tracked, owned, releasing>>
  /\ UNCHANGED <<phase, closed, cands, checked, poll, store>>

\* The resolved are unsubscribed, releaseResolved deletes them from the watch
\* list and commitScreener stores their last rows, or fails to.  An
\* unsubscription that cannot be sent leaves them in the watch list.
Release ==
  /\ releasing # {} /\ releasing' = {}
  /\ \/ /\ Forget(releasing, age)
        /\ \/ Insert(releasing \cap Watched, {}, [m \in Markets |-> "DROPPED"])
           \/ "commit" \in Faults /\ Insert({}, releasing \cap Watched, NoRows)
     \/ "send" \in Faults /\ UNCHANGED <<cands, store>>
  /\ UNCHANGED <<world, marked, checked, poll>>

\* Mutant of Stale: a recording is dropped at its expiry.
StaleAtExpiry == {m \in Watched : m \in owned \/ phase[m] \in Expired}

\* retireStale: claimed by a configured subject, recording long past expiry,
\* or expired while still a candidate.
Stale == {m \in Watched : \/ m \in owned
                          \/ state[m] = "RECORDING" /\ phase[m] = "stuck"
                          \/ state[m] = "CANDIDATE" /\ phase[m] \in Expired}

---------------------------------------------------------------------------
(* pollLoop: pollWindow *)

\* Beyond an observation window the age of the samples makes no difference.
Older(n, d) == IF n = 0 THEN 0 ELSE IF n + d <= Window THEN n + d ELSE Window + 1

\* A tick: the stale markets are retired, their DROPPED rows kept for the end
\* of the window, and the others are the tokens of this window.  d polls have
\* passed since the last window, more than one after an outage.
WindowStarts ==
  /\ pc = "tick" /\ window < MaxWindows
  /\ window' = window + 1 /\ now' = phase
  /\ \E d \in {1, Window} :
       Forget(Stale, [m \in Markets |-> Older(age[m], d)])
  /\ tokens' = Watched \ Stale
  /\ rows'   = [m \in Markets |-> IF m \in Stale THEN "DROPPED" ELSE "NONE"]
  /\ pc' = IF Watched \ Stale = {} THEN "select" ELSE "fetch"
  /\ UNCHANGED <<world, settle, checked, selected, promoting, store>>

Retired == {m \in Markets : rows[m] = "DROPPED"}

\* fetchBooks fails: the window is skipped, and its rows with it.
FetchFails ==
  /\ pc = "fetch" /\ "fetch" \in Faults
  /\ Insert({}, Retired, NoRows)
  /\ pc' = "tick" /\ now' = NoTime /\ tokens' = {} /\ rows' = NoRows
  /\ UNCHANGED <<world, cands, settle, checked, window, selected, promoting>>

\* The markets of the snapshot still watched when the books arrive, and those
\* of them whose samples cover an observation window.
Polled == tokens \cap Watched
Judged == {m \in Polled : age[m] > Window}

InFinalPhase(m) == now[m] # "open"

\* Mutant of NextPass: a failed window does not break the run of passes.
PassesInAll(m, passed) == IF m \in passed THEN pass[m] + 1 ELSE pass[m]

\* passStreak after a judged window.
NextPass(m, passed) == IF m \in passed THEN pass[m] + 1 ELSE 0

\* failStreak after a judged window.
NextFail(m, passed) == IF m \in passed THEN 0 ELSE fail[m] + 1

\* Mutant of NextInPass: the final phase is not looked at.
NextInPassToEnd(m, passed) ==
  /\ NextFail(m, passed) < HystM
  /\ inPass[m] \/ NextPass(m, passed) >= HystK

\* inPassList after a judged window: entered after HystK passes, left after
\* HystM fails, and never held in the final phase.
NextInPass(m, passed) ==
  /\ ~InFinalPhase(m)
  /\ NextFail(m, passed) < HystM
  /\ inPass[m] \/ NextPass(m, passed) >= HystK

\* scoreWindow, under the list's lock: every polled market gets a sample and
\* a row, and the judged ones a verdict.
Score(passed) ==
  /\ pc = "fetch" /\ passed \subseteq Judged
  /\ age'    = [m \in Markets |-> IF m \in Polled /\ age[m] = 0 THEN 1 ELSE age[m]]
  /\ pass'   = [m \in Markets |-> IF m \in Judged THEN NextPass(m, passed) ELSE pass[m]]
  /\ fail'   = [m \in Markets |-> IF m \in Judged THEN NextFail(m, passed) ELSE fail[m]]
  /\ inPass' = [m \in Markets |-> IF m \in Judged THEN NextInPass(m, passed) ELSE inPass[m]]
  /\ verdicts' = [m \in Markets |-> IF m \in Judged THEN Append(verdicts[m], m \in passed)
                                                    ELSE verdicts[m]]
  /\ rows' = [m \in Markets |-> IF m \in Polled THEN state[m] ELSE rows[m]]
  /\ tokens' = {} /\ pc' = "select"
  /\ UNCHANGED <<world, state, settle, checked, window, now, selected, promoting, store>>

Eligible == {m \in Markets : state[m] = "CANDIDATE" /\ inPass[m]}

\* Mutant of Slots: markets already recording do not count.
AllSlots == MaxRecording

Slots == IF Cardinality(Recording) < MaxRecording
           THEN MaxRecording - Cardinality(Recording) ELSE 0

\* selectForPromotion: the best scores (any order here) as far as the budget
\* goes.
Select ==
  /\ pc = "select"
  /\ \E S \in SUBSET Eligible :
       /\ selected' = S
       /\ Cardinality(S) = IF Cardinality(Eligible) <= Slots THEN Cardinality(Eligible) ELSE Slots
  /\ pc' = "promote"
  /\ UNCHANGED <<world, cands, settle, checked, window, now, tokens, rows, promoting, store>>

\* promote: the rows of both tokens are upserted ...
Upsert(m) ==
  /\ pc = "promote" /\ m \in selected
  /\ selected' = selected \ {m}
  /\ \/ pc' = "subscribe" /\ promoting' = m
     \/ "upsert" \in Faults /\ UNCHANGED <<pc, promoting>>
  /\ UNCHANGED <<world, cands, settle, checked, window, now, tokens, rows, store>>

\* ... the connector's tables name them AUTO's, whoever owned them, and the
\* subscription is sent ...
Subscribe ==
  /\ pc = "subscribe"
  /\ tracked' = tracked \cup {promoting} /\ owned' = owned \ {promoting}
  /\ marked' = marked \ {promoting}
  /\ \/ pc' = "mark" /\ UNCHANGED promoting
     \/ "send" \in Faults /\ pc' = "promote" /\ promoting' = NoMarket
  /\ UNCHANGED <<phase, closed, cands, releasing, checked, window, now, tokens, rows, selected,
                 store>>

\* Mutant of Mark: the row of the window is left as it was built.
MarkOnly ==
  /\ pc = "mark"
  /\ state' = IF state[promoting] = "NONE" THEN state
                                           ELSE [state EXCEPT ![promoting] = "RECORDING"]
  /\ pc' = "promote" /\ promoting' = NoMarket
  /\ UNCHANGED <<world, pass, fail, inPass, age, verdicts, settle, checked, window, now, tokens,
                 rows, selected, store>>

\* ... and the candidate is a RECORDING, also in this window's row.  One that
\* was released in the meantime is no longer in the list.
Mark ==
  /\ pc = "mark"
  /\ state' = IF state[promoting] = "NONE" THEN state
                                           ELSE [state EXCEPT ![promoting] = "RECORDING"]
  /\ rows' = IF rows[promoting] = "NONE" THEN rows
                                         ELSE [rows EXCEPT ![promoting] = "RECORDING"]
  /\ pc' = "promote" /\ promoting' = NoMarket
  /\ UNCHANGED <<world, pass, fail, inPass, age, verdicts, settle, checked, window, now, tokens,
                 selected, store>>

\* Mutant of Latest: the rows of markets no longer watched are left out.
LatestWatched(m) == m \in Watched

\* The row of a polled market that is no longer watched is older than the row
\* its release has stored, being stamped with the window's start.
Latest(m) == rows[m] = "DROPPED" \/ m \in Watched

\* commitScreener, with all rows stored or, on an error, some of them.
Commit ==
  /\ pc = "promote" /\ selected = {}
  /\ LET due == {m \in Markets : rows[m] # "NONE" /\ Latest(m)} IN
       \E S \in SUBSET due :
         /\ "commit" \in Faults \/ S = due
         /\ Insert(S, (Retired \cap due) \ S, rows)
  /\ pc' = "tick" /\ now' = NoTime /\ rows' = NoRows
  /\ UNCHANGED <<world, cands, settle, checked, window, tokens, selected, promoting>>

---------------------------------------------------------------------------

\* The connector fails and the next one is built: what its goroutines were
\* doing is abandoned, the initial discovery names the configured subjects'
\* tokens, and then the recordings are subscribed again, under AUTO.
Reconnect ==
  /\ "connector" \in Faults
  /\ marked' = {} /\ releasing' = {} /\ checked' = NoMarket
  /\ pc' = "tick" /\ now' = NoTime /\ tokens' = {} /\ rows' = NoRows
  /\ selected' = {} /\ promoting' = NoMarket
  /\ tracked' = Recording
  /\ \E S \in SUBSET (Markets \ closed) : owned' = S \ Recording
  /\ Insert({}, Retired, NoRows)
  /\ UNCHANGED <<phase, closed, cands, window>>

Next ==
  \/ \E m \in Markets : \/ Ages(m) \/ Closes(m) \/ Claim(m) \/ Unclaim(m)
                        \/ CheckOwned(m) \/ Consider(m) \/ Resolve(m) \/ Upsert(m)
  \/ \E S \in SUBSET Markets : Score(S)
  \/ Release \/ WindowStarts \/ FetchFails \/ Select \/ Subscribe \/ Mark \/ Commit \/ Reconnect

Spec == Init /\ [][Next]_vars

---------------------------------------------------------------------------
(* Properties *)

\* The shape of the state; a market that is not watched has no streaks.
TypeOK ==
  /\ phase \in [Markets -> Phases] /\ now \in [Markets -> Phases]
  /\ owned \subseteq Markets /\ tracked \subseteq Markets /\ closed \subseteq Markets
  /\ state \in [Markets -> States]
  /\ pass \in [Markets -> Nat] /\ fail \in [Markets -> Nat]
  /\ inPass \in [Markets -> BOOLEAN]
  /\ age \in [Markets -> 0..(Window + 1)]
  /\ verdicts \in [Markets -> Seq(BOOLEAN)]
  /\ \A m \in Markets \ Watched : pass[m] = 0 /\ fail[m] = 0 /\ ~inPass[m]
  /\ marked \subseteq tracked /\ releasing \subseteq closed
  /\ checked \in Markets \cup {NoMarket}
  /\ pc \in {"tick", "fetch", "select", "promote", "subscribe", "mark"}
  /\ window \in 0..MaxWindows /\ tokens \subseteq Markets
  /\ rows \in [Markets -> {"NONE", "CANDIDATE", "RECORDING", "DROPPED"}]
  /\ selected \subseteq Markets
  /\ promoting \in (IF pc \in {"subscribe", "mark"} THEN Markets ELSE {NoMarket})
  /\ table \in [Markets -> {"NONE", "CANDIDATE", "RECORDING", "DROPPED"}]
  /\ missed \subseteq Markets

\* m passed HystK judged windows in a row and has not failed HystM in a row
\* since.
Earned(m) ==
  LET v == verdicts[m] IN
    \E i \in 1..Len(v) :
      /\ i + HystK - 1 <= Len(v) /\ \A j \in i..(i + HystK - 1) : v[j]
      /\ \A n \in (i + HystK)..Len(v) :
           n + HystM - 1 <= Len(v) => \E j \in n..(n + HystM - 1) : v[j]

\* The pass list is the hysteresis of the verdicts, over skipped windows,
\* reconnects and outages: nothing is in it that has not earned its place,
\* and outside of its final phase nothing that has earned it is missing.
PassListEarned ==
  \A m \in Watched : /\ inPass[m] => Earned(m)
                     /\ phase[m] = "open" /\ Earned(m) => inPass[m]

\* A market becomes a RECORDING only in a window that kept it in the pass
\* list, and never in its final phase.
PromotedOnMerit ==
  [][\A m \in Markets : state[m] # "RECORDING" /\ state'[m] = "RECORDING"
       => inPass[m] /\ now[m] = "open"]_vars

\* The rows a window stores show its promotions: no row calls CANDIDATE what
\* the window has promoted, whatever else of the window failed.
PromotionVisible ==
  pc = "promote" => \A m \in Markets : rows[m] = "CANDIDATE" => state[m] # "RECORDING"

\* The recordings and the watched markets never pass their limits: what was
\* selected while the budget had room is still within it when its promotion
\* comes, after failed promotions, releases by the resolution loop and markets
\* added by the scan in between, and after reconnects.
WithinLimits ==
  /\ Cardinality(Recording) <= MaxRecording
  /\ Cardinality(Watched) <= MaxCandidates

\* Between windows the latest row of a market that has left the watch list
\* says so, unless that row was lost: what a failed poll, a failed insert or
\* the connector's end takes with it is not stored later.
DroppedIsStored ==
  pc = "tick" => \A m \in Markets \ (Watched \cup missed) : table[m] \in {"NONE", "DROPPED"}

\* The watch list behaves as WatchList promises: its limits hold over failed
\* promotions, releases and reconnects, and a recording is never evicted but
\* for a configured subject, after the grace, or because it has settled.
List == INSTANCE WatchList WITH life <- state,
          final <- owned \cup closed \cup {m \in Markets : phase[m] = "stuck"}
ImplementsWatchList == List!Spec
===========================================================================
