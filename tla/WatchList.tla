---------------------------- MODULE WatchList ----------------------------
(***************************************************************************)
(* What the auto-discovery mode promises about its watch list: a market is *)
(* watched as a CANDIDATE before it is a RECORDING, the list and the       *)
(* recordings stay within their limits, and a RECORDING is never demoted:  *)
(* it leaves the list, and only for one of the reasons in Final.           *)
(***************************************************************************)
EXTENDS Naturals, FiniteSets

CONSTANTS Markets, MaxRecording, MaxCandidates

VARIABLES
  life,   \* life[m]: NONE while m is not watched, CANDIDATE or RECORDING
  final   \* the markets whose recording may end

Lives == {"NONE", "CANDIDATE", "RECORDING"}

Watched   == {m \in Markets : life[m] # "NONE"}
Recording == {m \in Markets : life[m] = "RECORDING"}

Init == life = [m \in Markets |-> "NONE"] /\ final \in SUBSET Markets

Watch(m) ==
  /\ life[m] = "NONE" /\ Cardinality(Watched) < MaxCandidates
  /\ life' = [life EXCEPT ![m] = "CANDIDATE"]

Promote(m) ==
  /\ life[m] = "CANDIDATE" /\ Cardinality(Recording) < MaxRecording
  /\ life' = [life EXCEPT ![m] = "RECORDING"]

\* Markets leave the list; those that were recording are final.
Release(S) ==
  /\ S \subseteq Watched /\ S \cap Recording \subseteq final
  /\ life' = [m \in Markets |-> IF m \in S THEN "NONE" ELSE life[m]]

\* Why a recording may end comes and goes without the list.
Environment == UNCHANGED life

Next ==
  \/ \E m \in Markets : Watch(m) \/ Promote(m)
  \/ \E S \in SUBSET Markets : Release(S)
  \/ Environment

Spec == Init /\ [][Next]_<<life, final>>
===========================================================================
