---------------------------- MODULE TripRebuild ----------------------------
(***************************************************************************)
(* POST /vehicles/{id}/trips/rebuild: rebuild_vehicle_trips of             *)
(* app/services/trip_engine.py deletes the trips of a vehicle and runs     *)
(* evaluate_coordinate_for_trip over its stored locations, in the order of *)
(* their timestamps, inside one session.  The session does not autoflush:  *)
(* the select of the active trip sees the is_active column as it was       *)
(* flushed last, which only _start_new_trip and the end of the rebuild do, *)
(* while the object it returns has the values assigned since.              *)
(***************************************************************************)
EXTENDS TripRules

CONSTANT MaxLocations \* bound on the number of locations stored

ASSUME RebuildConstants == MaxLocations \in Nat

VARIABLES
  locations,      \* table locations of the vehicle, by timestamp
  inOrder,        \* no location was stored after a newer one
  live,           \* while inOrder: the trips that live evaluation made of them
  trips,          \* the Trip objects of the session of the rebuild
  open,           \* ids of the rows whose flushed is_active column is true
  next,           \* index of the next location of the loop
  pc              \* "ingest" before the rebuild, then "loop", then "done"

vars == <<locations, inOrder, live, trips, open, next, pc>>

Init ==
  /\ locations = <<>>
  /\ inOrder = TRUE
  /\ live = <<>>
  /\ trips = <<>>
  /\ open = {}
  /\ next = 1
  /\ pc = "ingest"

-----------------------------------------------------------------------------
\* The position that ORDER BY timestamp gives a new location; ties are free.
Places(p) ==
  {n \in 0 .. Len(locations) :
     /\ \A m \in 1 .. n : locations[m].ts <= p.ts
     /\ \A m \in n + 1 .. Len(locations) : p.ts <= locations[m].ts}

(***************************************************************************)
(* A packet is committed: its location is stored and, in a session of its  *)
(* own, evaluated against the trips that are in the database (see          *)
(* TripEngine, also for flushed).                                          *)
(***************************************************************************)
Ingest(p, n) ==
  LET after == SubSeq(locations, 1, n) \o <<p>>
                 \o SubSeq(locations, n + 1, Len(locations))
      kept  == inOrder /\ n = Len(locations)
  IN  /\ pc = "ingest"
      /\ Len(locations) < MaxLocations
      /\ locations' = after
      /\ inOrder' = kept
      /\ \E flushed \in BOOLEAN :
           live' = IF kept
                   THEN Evaluated(live, ActiveIn(live), p,
                                  Moving(IF flushed THEN after ELSE locations))
                   ELSE <<>>
      /\ UNCHANGED <<trips, open, next, pc>>

\* The old trips are deleted, and the locations are selected once.
StartRebuild ==
  /\ pc = "ingest"
  /\ pc' = "loop"
  /\ UNCHANGED <<locations, inOrder, live, trips, open, next>>

\* Definitions named Fault... are seeded faults of the definition after them.
FaultEvaluateNext ==
  /\ pc = "loop"
  /\ next <= Len(locations)
  /\ trips' = Evaluated(trips, open, locations[Len(locations) + 1 - next],
                        Moving(locations))
  /\ open' = IF Len(trips') > Len(trips) THEN ActiveIn(trips') ELSE open
  /\ next' = next + 1
  /\ UNCHANGED <<locations, inOrder, live, pc>>

\* One iteration of the loop; a new trip flushes the session.
EvaluateNext ==
  /\ pc = "loop"
  /\ next <= Len(locations)
  /\ trips' = Evaluated(trips, open, locations[next], Moving(locations))
  /\ open' = IF Len(trips') > Len(trips) THEN ActiveIn(trips') ELSE open
  /\ next' = next + 1
  /\ UNCHANGED <<locations, inOrder, live, pc>>

FaultCloseLingering ==
  /\ pc = "loop"
  /\ next > Len(locations)
  /\ trips' = trips
  /\ open' = ActiveIn(trips')
  /\ pc' = "done"
  /\ UNCHANGED <<locations, inOrder, live, next>>

\* The trip that is still selected is closed; flush, and commit.
CloseLingering ==
  /\ pc = "loop"
  /\ next > Len(locations)
  /\ trips' = [i \in DOMAIN trips |->
                 IF i \in open THEN Close(trips[i], "COMPLETED") ELSE trips[i]]
  /\ open' = ActiveIn(trips')
  /\ pc' = "done"
  /\ UNCHANGED <<locations, inOrder, live, next>>

Next ==
  \/ \E p \in Coordinate : \E n \in Places(p) : Ingest(p, n)
  \/ StartRebuild
  \/ EvaluateNext
  \/ CloseLingering

Spec == Init /\ [][Next]_vars

-----------------------------------------------------------------------------
TypeOK ==
  /\ locations \in Seq(Coordinate)
  /\ inOrder \in BOOLEAN
  /\ live \in Seq(Trip)
  /\ trips \in Seq(Trip)
  /\ open \subseteq DOMAIN trips
  /\ next \in 1 .. Len(locations) + 1
  /\ pc \in {"ingest", "loop", "done"}

(***************************************************************************)
(* Although what the select sees lags behind the objects, the loop never   *)
(* loses a trip that is still active, never selects among two, and leaves  *)
(* none open when it is done.                                              *)
(***************************************************************************)
NothingLeftOpen ==
  /\ TypeOK
  /\ ActiveIn(trips) \subseteq open
  /\ open \subseteq {Len(trips)}
  /\ pc = "done" => open = {} /\ \A i \in DOMAIN trips : trips[i].status # "ACTIVE"

(***************************************************************************)
(* Whatever the order in which the locations were stored, the rebuilt      *)
(* trips follow each other without overlap, and every location at which    *)
(* the vehicle moves lies inside one of them.                              *)
(***************************************************************************)
RebuiltHistory ==
  /\ \A i, j \in DOMAIN trips : i < j => trips[i].end_time < trips[j].start_time
  /\ \A n \in 1 .. next - 1 :
       locations[n].speed >= StartSpeed =>
         \E i \in DOMAIN trips : /\ trips[i].start_time <= locations[n].ts
                                 /\ locations[n].ts <= trips[i].end_time

(***************************************************************************)
(* Against the trips that live evaluation made of locations that arrived   *)
(* in order, a rebuild only merges: it starts no trip that did not start   *)
(* live, and every live trip lies inside a rebuilt one.                    *)
(***************************************************************************)
RebuildMergesLive ==
  pc = "done" /\ inOrder =>
    /\ \A i \in DOMAIN trips : \E j \in DOMAIN live :
         live[j].start_time = trips[i].start_time
    /\ \A j \in DOMAIN live : \E i \in DOMAIN trips :
         /\ trips[i].start_time <= live[j].start_time
         /\ live[j].end_time <= trips[i].end_time

(***************************************************************************)
(* "If a vehicle's speed exceeds `TRIP_START_SPEED_THRESHOLD` and no       *)
(* active trip exists, a new `Trip` record is created": true of the        *)
(* locations that a rebuild evaluates, each later than those before it.    *)
(***************************************************************************)
SpeedStartsTrip ==
  [][/\ next' > next
     /\ ActiveIn(trips) = {}
     /\ locations[next].speed > StartSpeed
     /\ \A n \in 1 .. next - 1 : locations[n].ts < locations[next].ts
     => Len(trips') > Len(trips)]_vars
=============================================================================
