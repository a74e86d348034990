----------------------------- MODULE TripRules -----------------------------
(***************************************************************************)
(* The rules by which app/services/trip_engine.py turns one coordinate of  *)
(* one vehicle into a change of that vehicle's trips.  The rules are pure: *)
(* TripEngine applies them one committed packet at a time, TripRebuild     *)
(* inside the single session of a rebuild.                                 *)
(*                                                                         *)
(* Time is in seconds, speed in km/h and a position is a point of a line,  *)
(* so that the haversine distance is the distance of two integers.  The    *)
(* constants are the settings of app/config.py and the literals of the     *)
(* code, scaled down by the configurations that check the model.           *)
(***************************************************************************)
EXTENDS Integers, Sequences

CONSTANTS
  Times,          \* timestamps a packet can carry
  Speeds,         \* reported speeds
  Positions,      \* reported positions
  IdleSpeed,      \* 0.5: at or below it the elapsed gap counts as idle time
  StartSpeed,     \* settings.TRIP_START_SPEED_THRESHOLD
  SpeedLimit,     \* DeviceConfig.speed_limit, or settings.DEFAULT_SPEED_LIMIT
  EndTimeout,     \* settings.TRIP_END_TIMEOUT
  GapTimeout,     \* settings.TRIP_GAP_TIMEOUT
  MinTripTime,    \* 60: a shorter trip may be cancelled when it ends
  MinTripDist,    \* 0.1: a shorter trip may be cancelled when it ends
  DriftDist       \* 0.01: a shorter move is GPS drift when the ignition is off

ASSUME TripConstants ==
  /\ Times \subseteq Nat
  /\ Speeds \subseteq Nat
  /\ Positions \subseteq Int
  /\ {IdleSpeed, StartSpeed, SpeedLimit} \subseteq Nat
  /\ {EndTimeout, GapTimeout, MinTripTime, MinTripDist, DriftDist} \subseteq Nat

\* The literals of the code order the two time limits: 60 < TRIP_END_TIMEOUT.
ASSUME CancelWindowBelowIdleTimeout == MinTripTime <= EndTimeout

Ignition == {"on", "off", "none"}       \* io.ign = 1, 0, or absent

Coordinate == [ts: Times, speed: Speeds, pos: Positions, ign: Ignition]

TripStatus == {"ACTIVE", "COMPLETED", "CANCELLED"}

Trip == [start_time: Nat, end_time: Nat, duration: Int, distance: Nat,
         idle_time: Nat, end_pos: Int, packet_count: Nat,
         overspeed_count: Nat, status: TripStatus, is_active: BOOLEAN]

-----------------------------------------------------------------------------
(***************************************************************************)
(* Definitions named Fault... are seeded faults: each is a mistake that    *)
(* could be made in the definition after it, and a property must notice    *)
(* when it is substituted for that definition.                             *)
(***************************************************************************)
FaultSignedDistance(a, b) == b - a

\* haversine_distance_km, on a line.
Distance(a, b) == IF a <= b THEN b - a ELSE a - b

FaultStartsAbove(p) == p.speed > StartSpeed \/ p.ign = "on"

\* The condition under which a coordinate opens a trip.
Starts(p) == p.speed >= StartSpeed \/ p.ign = "on"

Overspeed(p) == IF p.speed > SpeedLimit THEN 1 ELSE 0

FaultNewTrip(p) ==
  [start_time |-> p.ts, end_time |-> p.ts, duration |-> 0, distance |-> 0,
   idle_time |-> 0, end_pos |-> p.pos, packet_count |-> 1,
   overspeed_count |-> Overspeed(p), status |-> "STARTED", is_active |-> TRUE]

NewTrip(p) ==
  [start_time |-> p.ts, end_time |-> p.ts, duration |-> 0, distance |-> 0,
   idle_time |-> 0, end_pos |-> p.pos, packet_count |-> 1,
   overspeed_count |-> Overspeed(p), status |-> "ACTIVE", is_active |-> TRUE]

Close(t, st) == [t EXCEPT !.status = st, !.is_active = FALSE]

\* Section 1 and 2 of the evaluation: how the coordinate lies to the trip.
Late(t, p)      == p.ts <= t.end_time
AfterGap(t, p)  == p.ts - t.end_time > GapTimeout
InTime(t, p)    == ~Late(t, p) /\ ~AfterGap(t, p)

\* Section 3: the distance a coordinate adds, drift of a parked vehicle left out.
Travelled(t, p) ==
  LET d == Distance(t.end_pos, p.pos)
  IN  IF p.ign = "off" /\ p.speed < StartSpeed /\ d < DriftDist THEN 0 ELSE d

FaultIdleFromStart(t, p) ==
  [t EXCEPT !.distance        = @ + Travelled(t, p),
            !.packet_count    = @ + 1,
            !.overspeed_count = @ + Overspeed(p),
            !.end_time        = p.ts,
            !.duration        = p.ts - t.start_time,
            !.idle_time       = @ + (IF p.speed <= IdleSpeed
                                     THEN p.ts - t.start_time ELSE 0),
            !.end_pos         = p.pos]

Extend(t, p) ==
  [t EXCEPT !.distance        = @ + Travelled(t, p),
            !.packet_count    = @ + 1,
            !.overspeed_count = @ + Overspeed(p),
            !.end_time        = p.ts,
            !.duration        = p.ts - t.start_time,
            !.idle_time       = @ + (IF p.speed <= IdleSpeed
                                     THEN p.ts - t.end_time ELSE 0),
            !.end_pos         = p.pos]

TooShort(t) == t.distance < MinTripDist /\ t.duration < MinTripTime

EndStatus(t) == IF TooShort(t) THEN "CANCELLED" ELSE "COMPLETED"

FaultIdleSinceAnyMove(t, p, moving) ==
  \A m \in moving : p.ts - m > EndTimeout

(***************************************************************************)
(* Section 4, condition B: more than EndTimeout has passed since the last  *)
(* moving location that the query sees at or after the start of the trip,  *)
(* and since the start itself when it sees none.  moving is the set of the *)
(* timestamps of the visible locations with speed >= StartSpeed.           *)
(***************************************************************************)
IdleTooLong(t, p, moving) ==
  /\ p.ts - t.start_time > EndTimeout
  /\ \A m \in moving : m >= t.start_time => p.ts - m > EndTimeout

\* Sections 3 and 4: the active trip after a coordinate that is in time.
Update(t, p, moving) ==
  LET e == Extend(t, p)
  IN  IF p.ign = "off" \/ (p.ign = "none" /\ IdleTooLong(e, p, moving))
      THEN Close(e, EndStatus(e))
      ELSE e

(***************************************************************************)
(* packet_processor.py closes the trip of a vehicle whose planned route    *)
(* the packet reports as complete.                                         *)
(***************************************************************************)
RouteClose(t, p, done) ==
  IF done THEN [Close(t, "COMPLETED") EXCEPT !.end_time = p.ts] ELSE t

FaultAnyTrip(trips) == DOMAIN trips

\* select(Trip) where is_active; ids of one vehicle.
ActiveIn(trips) == {i \in DOMAIN trips : trips[i].is_active}

FaultGapNeverRestarts(ts, selected, p, moving) ==
  IF selected = {}
  THEN IF Starts(p) THEN Append(ts, NewTrip(p)) ELSE ts
  ELSE LET i == CHOOSE j \in selected : TRUE
       IN  CASE Late(ts[i], p)     -> ts
             [] AfterGap(ts[i], p) -> [ts EXCEPT ![i] = Close(@, "COMPLETED")]
             [] InTime(ts[i], p)   -> [ts EXCEPT ![i] = Update(@, p, moving)]

(***************************************************************************)
(* evaluate_coordinate_for_trip on the objects ts of a session, when its   *)
(* select of the active trip returns a row of selected.                    *)
(***************************************************************************)
Evaluated(ts, selected, p, moving) ==
  IF selected = {}
  THEN IF Starts(p) THEN Append(ts, NewTrip(p)) ELSE ts
  ELSE LET i      == CHOOSE j \in selected : TRUE
           closed == [ts EXCEPT ![i] = Close(@, "COMPLETED")]
       IN  CASE Late(ts[i], p)     -> ts
             [] AfterGap(ts[i], p) ->
                  IF Starts(p) THEN Append(closed, NewTrip(p)) ELSE closed
             [] InTime(ts[i], p)   -> [ts EXCEPT ![i] = Update(@, p, moving)]

\* Timestamps of the locations at which the vehicle moves.
Moving(locs) == {locs[n].ts : n \in {m \in DOMAIN locs : locs[m].speed >= StartSpeed}}
=============================================================================
