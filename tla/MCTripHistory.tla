--------------------------- MODULE MCTripHistory ---------------------------
(***************************************************************************)
(* What becomes of the trips once packets have made them: the rebuild, the *)
(* jobs and a rebuild that overlap, and what the API tells of a trip.  All *)
(* three share the rules and nothing else, so that a behaviour exercises   *)
(* one of them, which focus names.                                         *)
(***************************************************************************)
EXTENDS MCTripRebuild, TripJobs, TripSummary

VARIABLE focus

At(t, v, x, i) == [ts |-> t, speed |-> v, pos |-> x, ign |-> i]

\* A start, a late end, idleness, and a restart after a gap from two packets.
MCArrivals ==
  {At(0, 5, 0, "none"), At(1, 0, 0, "off"), At(3, 0, 0, "none"),
   At(7, 5, 0, "none"), At(7, 0, 0, "on")}

\* A vehicle that drives, stands, and creeps within a stop or out of it, until
\* its ignition is switched off.
MCObserved ==
  {At(t, 5, 0, "on") : t \in SmallTimes}
    \cup {At(t, 0, x, "on") : t \in SmallTimes, x \in {0, 1, 2}}
    \cup {At(3, 0, 0, "off"), At(6, 0, 0, "off")}

MCInit ==
  /\ Init /\ JobsInit /\ SummaryInit
  /\ focus \in {"rebuild", "jobs", "summary"}
  /\ focus # "summary" => trip = NewTrip(At(0, 5, 0, "on"))

MCNext ==
  \/ focus = "rebuild" /\ Next /\ UNCHANGED <<jobVars, summaryVars, focus>>
  \/ focus = "jobs" /\ JobsNext /\ UNCHANGED <<vars, summaryVars, focus>>
  \/ focus = "summary" /\ SummaryNext /\ UNCHANGED <<vars, jobVars, focus>>

MCSpec == MCInit /\ [][MCNext]_<<vars, jobVars, summaryVars, focus>>

\* What the API tells of a trip, where it changes.
SummariesAgree ==
  focus = "summary" => SummaryTypeOK /\ StopsAreTrue /\ CountersAgree /\ ReplayKeepsTheEnds
=============================================================================
