---------------------------- MODULE TripSummary ----------------------------
(***************************************************************************)
(* What the API tells of a trip: calculate_trip_summary of                 *)
(* app/services/trip_analytics.py, with the score of trip_scoring.py, and  *)
(* the points of trip_replay.py.  Both select the locations between the    *)
(* start and the end of the trip again, while trip_engine.py has counted   *)
(* them one by one as they came.                                           *)
(*                                                                         *)
(* Times, speeds and positions are those of TripRules.  The averages are   *)
(* left out: quotients of the other figures.                               *)
(***************************************************************************)
EXTENDS TripRules, FiniteSets, SequencesExt

CONSTANTS
  Observed,         \* the coordinates packets of the trip carry
  StopSpeed,        \* settings.TRIP_STOP_SPEED
  StopTime,         \* settings.TRIP_STOP_DURATION
  StableDist,       \* 0.02: a stop ends when the vehicle has moved so far
  LongIdle,         \* 300: a longer idle period costs points
  ScoreStart,       \* settings.DRIVING_SCORE_START
  ScoreMin,         \* settings.DRIVING_SCORE_MIN
  OverspeedPenalty, \* settings.DRIVING_SCORE_OVERSPEED_PENALTY
  IdlePenalty,      \* settings.DRIVING_SCORE_IDLE_PENALTY
  Multipliers,      \* 1 .. 8: the playback speeds a replay is asked for
  MaxPoints,        \* target_max_points of the replay
  MaxTrack          \* bound on the number of locations

ASSUME SummaryConstants ==
  /\ Observed \subseteq [ts: Nat, speed: Nat, pos: Int, ign: Ignition]
  /\ {StopSpeed, LongIdle, ScoreStart, ScoreMin, MaxTrack} \subseteq Nat
  /\ {StopTime, OverspeedPenalty, IdlePenalty, MaxPoints} \subseteq Nat \ {0}
  /\ StableDist \in Nat \ {0}
  /\ Multipliers \subseteq Nat \ {0}

\* A window that is too short scores 100: settings.DRIVING_SCORE_START and _MIN.
ASSUME ScoreScale == ScoreMin <= 100 /\ 100 <= ScoreStart

VARIABLES
  trip,           \* the trip that the engine keeps, from its first coordinate
  track           \* table locations of the vehicle, ORDER BY timestamp

summaryVars == <<trip, track>>

-----------------------------------------------------------------------------
\* The locations that belong to trip t, neighbours in a table ordered by time.
Window(locs, t) ==
  LET inside == {n \in DOMAIN locs : t.start_time <= locs[n].ts /\ locs[n].ts <= t.end_time}
  IN  [n \in 1 .. Cardinality(inside) |-> locs[Min(inside) + n - 1]]

FaultAddStop(stops, points) ==
  IF Len(points) >= 2
  THEN Append(stops, [start_time |-> points[1].ts, end_time |-> Last(points).ts])
  ELSE stops

\* _evaluate_and_add_stop
AddStop(stops, points) ==
  IF Len(points) >= 2 /\ Last(points).ts - points[1].ts >= StopTime
  THEN Append(stops, [start_time |-> points[1].ts, end_time |-> Last(points).ts])
  ELSE stops

\* One location of the loop: it continues the potential stop, or ends it.
ScanStop(acc, l) ==
  IF l.speed < StopSpeed
     /\ (acc.points # <<>> => Distance(acc.points[1].pos, l.pos) < StableDist)
  THEN [acc EXCEPT !.points = Append(@, l)]
  ELSE [stops  |-> AddStop(acc.stops, acc.points),
        points |-> IF l.speed < StopSpeed THEN <<l>> ELSE <<>>]

Stops(locs) ==
  LET scanned == FoldLeft(ScanStop, [stops |-> <<>>, points |-> <<>>], locs)
  IN  AddStop(scanned.stops, scanned.points)

OverspeedsOf(locs) == {n \in DOMAIN locs : locs[n].speed > SpeedLimit}

\* Consecutive overspeeds count once.
OverspeedGroups(locs) ==
  {n \in OverspeedsOf(locs) : n - 1 \notin OverspeedsOf(locs)}

\* An idle period lasts to the next location that is not idle, or to the last.
IdlePeriods(locs) ==
  LET idle == {n \in DOMAIN locs : locs[n].speed <= IdleSpeed}
  IN  {period \in idle \X DOMAIN locs :
         LET n == period[1]
             m == period[2]
         IN  /\ n <= m
             /\ n - 1 \notin idle
             /\ n .. m - 1 \subseteq idle
             /\ m \notin idle \/ m = Len(locs)}

LongIdles(locs) ==
  {period \in IdlePeriods(locs) :
     locs[period[2]].ts - locs[period[1]].ts >= LongIdle}

\* calculate_driving_score: the braking penalties are never passed.
Score(overspeeds, idles) ==
  LET score == ScoreStart - overspeeds * OverspeedPenalty - idles * IdlePenalty
  IN  Max({ScoreMin, Min({ScoreStart, score})})

Lengths(stops) == [n \in DOMAIN stops |-> stops[n].end_time - stops[n].start_time]

\* A window of less than two locations is answered from the trip alone.
Summary(locs, t) ==
  LET window  == Window(locs, t)
      stops   == Stops(window)
      span    == t.end_time - t.start_time
      stopped == FoldLeft(+, 0, Lengths(stops))
  IN  IF Len(window) < 2
      THEN [duration |-> t.duration, moving_time |-> t.duration,
            packet_count |-> Len(window), stops |-> <<>>, longest_stop |-> 0,
            overspeed_count |-> t.overspeed_count, driving_score |-> 100]
      ELSE [duration |-> span, moving_time |-> Max({0, span - stopped}),
            packet_count |-> Len(window), stops |-> stops,
            longest_stop |-> Max({0} \cup {Lengths(stops)[n] : n \in DOMAIN stops}),
            overspeed_count |-> Cardinality(OverspeedsOf(window)),
            driving_score |-> Score(Cardinality(OverspeedGroups(window)),
                                    Cardinality(LongIdles(window)))]

\* simple_skipping_downsampler, by the positions of the points it keeps.
Sampled(total, target, multiplier) ==
  LET step  == Max({1, (total \div target) * multiplier})
      taken == [n \in 1 .. (total - 1) \div step + 1 |-> 1 + (n - 1) * step]
  IN  IF total <= target THEN [n \in 1 .. total |-> n]
      ELSE IF Last(taken) = total THEN taken ELSE Append(taken, total)

\* get_trip_replay_points
Replay(locs, t, multiplier) ==
  LET window == Window(locs, t)
      kept   == Sampled(Len(window), MaxPoints, multiplier)
  IN  [points       |-> [n \in DOMAIN kept |-> window[kept[n]]],
       total_points |-> Len(window),
       downsampled  |-> Len(kept) < Len(window)]

-----------------------------------------------------------------------------
(***************************************************************************)
(* One trip from its start on, with locations in and out of order (see     *)
(* TripRules for the evaluation).  Once it is closed only locations are    *)
(* stored: what later trips do does not change it.                         *)
(***************************************************************************)
SummaryInit ==
  \E p \in Observed, done \in BOOLEAN :
    /\ Starts(p)
    /\ trip = RouteClose(NewTrip(p), p, done)
    /\ track = <<p>>

TrackPlaces(p) ==
  {n \in 0 .. Len(track) :
     /\ \A m \in 1 .. n : track[m].ts <= p.ts
     /\ \A m \in n + 1 .. Len(track) : p.ts <= track[m].ts}

(***************************************************************************)
(* A packet that may report the end of a route.  The end is the end of the *)
(* trip that is active then, which after a gap may be a new one.           *)
(***************************************************************************)
Observe(p, n, flushed, done) ==
  LET after     == InsertAt(track, n + 1, p)
      evaluated == Evaluated(<<trip>>, {1}, p,
                             Moving(IF flushed THEN after ELSE track))
  IN  /\ Len(track) < MaxTrack
      /\ track' = after
      /\ trip' = IF ~trip.is_active THEN trip
                 ELSE RouteClose(evaluated[1], p, done /\ Len(evaluated) = 1)

SummaryNext ==
  \E p \in Observed : \E n \in TrackPlaces(p), flushed, done \in BOOLEAN :
    Observe(p, n, flushed, done)

-----------------------------------------------------------------------------
SummaryTypeOK == trip \in Trip /\ track \in Seq(Observed)

(***************************************************************************)
(* The stops of a summary follow each other inside the trip, so that what  *)
(* they leave is the moving time and the clamp at zero never hides a       *)
(* contradiction; and no standstill of StopTime at one place is missed,    *)
(* whatever comes between its locations and the first point of a stop.     *)
(***************************************************************************)
StopsAreTrue ==
  LET window == Window(track, trip)
      stops  == Stops(window)
  IN  Len(window) >= 2 =>
        /\ \A n \in DOMAIN stops :
             /\ stops[n].end_time - stops[n].start_time >= StopTime
             /\ trip.start_time <= stops[n].start_time
             /\ stops[n].end_time <= trip.end_time
             /\ n > 1 => stops[n - 1].end_time <= stops[n].start_time
        /\ LET s == Summary(track, trip)
           IN  s.moving_time + FoldLeft(+, 0, Lengths(stops)) = s.duration
        /\ \A n, m \in DOMAIN window :
             /\ n < m
             /\ \A k \in n .. m : /\ window[k].speed < StopSpeed
                                  /\ window[k].pos = window[n].pos
             /\ window[m].ts - window[n].ts >= StopTime
             => \E k \in DOMAIN stops : /\ stops[k].start_time <= window[n].ts
                                        /\ window[m].ts <= stops[k].end_time

(***************************************************************************)
(* The counters that the engine kept and the locations selected again tell *)
(* the same, unless a late location or the end of a route moved one of     *)
(* them: the summary then sees more locations, never fewer.                *)
(***************************************************************************)
CountersAgree ==
  LET s == Summary(track, trip)
  IN  trip.duration = trip.end_time - trip.start_time =>
        /\ s.packet_count >= trip.packet_count
        /\ s.overspeed_count >= trip.overspeed_count
        /\ s.packet_count = trip.packet_count
             => s.overspeed_count = trip.overspeed_count
        /\ s.duration = trip.duration
        /\ s.driving_score \in ScoreMin .. ScoreStart

(***************************************************************************)
(* A replay starts and ends where the trip does and never goes back in     *)
(* time.  Nothing caps it at target_max_points, but it never has more than *)
(* twice as many points.                                                   *)
(***************************************************************************)
ReplayKeepsTheEnds ==
  LET window == Window(track, trip)
  IN  \A k \in Multipliers :
        LET r == Replay(track, trip, k)
        IN  /\ window # <<>> => /\ r.points[1] = window[1]
                               /\ Last(r.points) = Last(window)
            /\ \A n \in 2 .. Len(r.points) : r.points[n - 1].ts <= r.points[n].ts
            /\ Len(r.points) <= 2 * MaxPoints
            /\ ~r.downsampled => r.points = window
=============================================================================
