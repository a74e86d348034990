----------------------------- MODULE TripEngine -----------------------------
(***************************************************************************)
(* The trips of one vehicle as the coordinates of its telemetry are        *)
(* committed one after the other: evaluate_coordinate_for_trip of          *)
(* app/services/trip_engine.py inside the transaction of                   *)
(* app/services/packet_processor.py (or of crud/location.create_location,  *)
(* which never completes a route).  One action is one committed            *)
(* transaction: the jobs of the vehicle do not overlap here.               *)
(***************************************************************************)
EXTENDS TripRules

CONSTANTS
  RouteReports,   \* {FALSE}: no planned route; {TRUE, FALSE}: a packet may end one
  MaxLocations    \* bound on the number of locations stored

ASSUME EngineConstants ==
  /\ RouteReports \subseteq BOOLEAN
  /\ MaxLocations \in Nat

VARIABLES
  trips,          \* table trips of the vehicle, in the order of the ids
  moving,         \* timestamps of the stored locations with speed >= StartSpeed
  newest,         \* greatest stored timestamp, -1 before the first
  inOrder,        \* no location was stored after a newer one
  stored          \* number of stored locations

vars == <<trips, moving, newest, inOrder, stored>>

Init ==
  /\ trips = <<>>
  /\ moving = {}
  /\ newest = -1
  /\ inOrder = TRUE
  /\ stored = 0

Moves(p) == IF p.speed >= StartSpeed THEN {p.ts} ELSE {}

\* db.add(db_location) of the transaction that evaluates the coordinate.
Store(p) ==
  /\ stored' = stored + 1
  /\ moving' = moving \cup Moves(p)
  /\ newest' = IF p.ts > newest THEN p.ts ELSE newest
  /\ inOrder' = (inOrder /\ p.ts >= newest)

(***************************************************************************)
(* The locations that the query of condition B sees.  The session does not *)
(* autoflush: the location of the packet itself is visible only when an    *)
(* event of the same packet has already flushed the session.               *)
(***************************************************************************)
Visible(p, flushed) == IF flushed THEN moving \cup Moves(p) ELSE moving

-----------------------------------------------------------------------------
\* No active trip, and the coordinate does not start one.
StayParked(p) ==
  /\ ActiveIn(trips) = {}
  /\ ~Starts(p)
  /\ Store(p)
  /\ UNCHANGED trips

StartTrip(p, done) ==
  /\ ActiveIn(trips) = {}
  /\ Starts(p)
  /\ Store(p)
  /\ trips' = Append(trips, RouteClose(NewTrip(p), p, done))

\* Same timestamp or out of order: only the end of the route has an effect.
IgnoreLate(i, p, done) ==
  /\ Late(trips[i], p)
  /\ Store(p)
  /\ trips' = [trips EXCEPT ![i] = RouteClose(@, p, done)]

\* The close is not flushed when the route handler looks for the active trip.
CloseOnGap(i, p, done) ==
  /\ AfterGap(trips[i], p)
  /\ ~Starts(p)
  /\ Store(p)
  /\ trips' = [trips EXCEPT ![i] = RouteClose(Close(@, "COMPLETED"), p, done)]

FaultRestartKeepsOld(i, p, done) ==
  /\ AfterGap(trips[i], p)
  /\ Starts(p)
  /\ Store(p)
  /\ trips' = Append(trips, RouteClose(NewTrip(p), p, done))

\* Starting the new trip flushes: the route handler finds the new trip.
RestartOnGap(i, p, done) ==
  /\ AfterGap(trips[i], p)
  /\ Starts(p)
  /\ Store(p)
  /\ trips' = Append([trips EXCEPT ![i] = Close(@, "COMPLETED")],
                     RouteClose(NewTrip(p), p, done))

UpdateTrip(i, p, flushed, done) ==
  /\ InTime(trips[i], p)
  /\ Store(p)
  /\ trips' = [trips EXCEPT ![i] =
                 RouteClose(Update(@, p, Visible(p, flushed)), p, done)]

\* The evaluation of a coordinate against the active trip the select returned.
Evaluate(i, p) ==
  \E done \in RouteReports :
    \/ IgnoreLate(i, p, done)
    \/ CloseOnGap(i, p, done)
    \/ RestartOnGap(i, p, done)
    \/ \E flushed \in BOOLEAN : UpdateTrip(i, p, flushed, done)

Next ==
  /\ stored < MaxLocations
  /\ \E p \in Coordinate :
       \/ StayParked(p)
       \/ \E done \in RouteReports : StartTrip(p, done)
       \/ \E i \in ActiveIn(trips) : Evaluate(i, p)

Spec == Init /\ [][Next]_vars

-----------------------------------------------------------------------------
TypeOK ==
  /\ trips \in Seq(Trip)
  /\ moving \subseteq Times
  /\ newest \in Nat \cup {-1}
  /\ inOrder \in BOOLEAN
  /\ stored \in Nat

(***************************************************************************)
(* The only guard against two open trips is the select of                  *)
(* evaluate_coordinate_for_trip: the table has no constraint.  The status  *)
(* column and the flag, written separately, tell the same.                 *)
(***************************************************************************)
SingleActiveTrip ==
  /\ \A i, j \in ActiveIn(trips) : i = j
  /\ \A i \in DOMAIN trips : trips[i].is_active <=> trips[i].status = "ACTIVE"

(***************************************************************************)
(* The counters that evaluate_coordinate_for_trip maintains incrementally  *)
(* stay consistent with each other through every branch.                   *)
(***************************************************************************)
TripClock ==
  \A i \in DOMAIN trips :
    LET t == trips[i]
    IN  /\ t.idle_time <= t.duration
        /\ t.overspeed_count <= t.packet_count
        /\ t.is_active => t.duration = t.end_time - t.start_time

(***************************************************************************)
(* As long as locations are stored in the order of their timestamps, the   *)
(* trips of a vehicle follow each other without overlap.                   *)
(***************************************************************************)
TripsDisjoint ==
  inOrder => \A i, j \in DOMAIN trips :
               i < j => trips[i].end_time <= trips[j].start_time

(***************************************************************************)
(* As long as locations are stored in the order of their timestamps, every *)
(* location at which the vehicle moves lies inside a trip.                 *)
(***************************************************************************)
MovementIsInATrip ==
  inOrder => \A m \in moving : \E i \in DOMAIN trips :
               trips[i].start_time <= m /\ m <= trips[i].end_time

(***************************************************************************)
(* A closed trip is history: no later coordinate, late or not, and no end  *)
(* of a route rewrites it.                                                 *)
(***************************************************************************)
ClosedTripsFrozen ==
  [][\A i \in DOMAIN trips :
       ~trips[i].is_active => i \in DOMAIN trips' /\ trips'[i] = trips[i]]_vars

(***************************************************************************)
(* Only an ignition that is switched off cancels a trip: the cancellation  *)
(* in the idle branch of evaluate_coordinate_for_trip never takes effect,  *)
(* because a trip that timed out is longer than the cancellation window.   *)
(***************************************************************************)
OnlyIgnitionOffCancels ==
  [][\A i \in ActiveIn(trips) :
       trips'[i].status = "CANCELLED" =>
         \A p \in Coordinate : p.ign # "off" => ~Evaluate(i, p)]_vars

(***************************************************************************)
(* "Condition B: Speed below threshold for too long": a coordinate at      *)
(* driving speed that is in time never ends the trip for idleness.         *)
(***************************************************************************)
MovingVehicleKeepsItsTrip ==
  [][\A i \in ActiveIn(trips), p \in Coordinate :
       /\ Evaluate(i, p)
       /\ InTime(trips[i], p)
       /\ p.speed >= StartSpeed
       /\ p.ign = "none"
       => trips'[i].is_active]_vars
=============================================================================
