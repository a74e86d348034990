----------------------------- MODULE DailyStats -----------------------------
(***************************************************************************)
(* The analytics pipeline of services/analytics.  A run takes the          *)
(* locations after its checkpoint up to the last one of the same day, lets *)
(* the processors rewrite the daily summaries stage by stage, and commits  *)
(* the summaries together with the checkpoint, or rolls all of it back.    *)
(* Telemetry jobs go on: an id is drawn when a location is flushed, the    *)
(* row is seen when its job commits.  Every SELECT of a run sees what is   *)
(* committed then.  Times are minutes, distances metres, litres and speeds *)
(* tenths, scores hundredths, rounded down.                                *)
(***************************************************************************)
EXTENDS Integers, FiniteSetsExt, Functions

CONSTANTS
  Vehicles,       \* ids of the registered vehicles
  Drivers,
  Packets,        \* locations to come, without their id
  Assignments,    \* rows of driver_assignments
  OnTrip,         \* vehicles with an open trip
  Registered,     \* the processors in the order they were registered
  Clock,          \* instants at which a run looks at the clock
  MaxJobs,        \* bound: jobs between their flush and their commit
  MaxFailures     \* bound: failed runs

None == -1      \* a reading that the device did not send

\* A location refers to the vehicle that sent it.
ASSUME DailyConstants ==
  /\ MaxFailures \in Nat
  /\ IsFiniteSet(Packets) /\ IsFiniteSet(Vehicles) /\ Vehicles \subseteq Nat
  /\ IsFiniteSet(Drivers) /\ IsFiniteSet(Assignments)
  /\ \A a \in Assignments : a.id \in Nat /\ a.from \in Nat /\ a.to \in Nat \cup {None}
  /\ \A p \in Packets :
       /\ p.vehicle \in Vehicles /\ p.time \in Nat /\ p.pos \in Int
       /\ p.speed \in Nat /\ p.rpm \in Nat /\ p.ign \in {0, 1, None}
       /\ p.fuel \in Nat \cup {None} /\ p.odo \in Nat \cup {None}
       /\ {p.engine, p.driving, p.idle} \subseteq Nat \cup {None}
       /\ IsFiniteSet(p.alerts)

VARIABLES
  pending,        \* locations flushed by jobs that did not commit
  locations,      \* committed locations
  cursor,         \* last_processed_id of the checkpoint
  tables,         \* committed summaries
  run,            \* the run in progress, with its uncommitted summaries
  late,           \* history: ids that became visible behind a run
  failures

dailyVars == <<pending, locations, cursor, tables, run, late, failures>>

Day == 1440
DayOf(l) == l.time \div Day
Days == {DayOf(p) : p \in Packets}
NoRow == [none |-> TRUE]
Larger(a, b) == IF a > b THEN a ELSE b
Smaller(a, b) == IF a < b THEN a ELSE b
Total(f(_), S) == SumFunction([x \in S |-> f(x)])
Scores == 0 .. 10000

-----------------------------------------------------------------------------
(***************************************************************************)
(* Figures of one vehicle over a set of its locations, in order of time.   *)
(***************************************************************************)
Earlier(a, b) == a.time < b.time \/ (a.time = b.time /\ a.id < b.id)
First(S) == CHOOSE a \in S : \A b \in S \ {a} : Earlier(a, b)
Last(S) == CHOOSE a \in S : \A b \in S \ {a} : Earlier(b, a)

\* Pairs of consecutive locations.
Steps(S) ==
  { s \in S \X S : /\ Earlier(s[1], s[2])
                   /\ ~\E c \in S : Earlier(s[1], c) /\ Earlier(c, s[2]) }

\* A counter of the device, if the first and the last location carry it and it
\* was not reset between them.
Counted(S, f) ==
  /\ First(S)[f] # None /\ Last(S)[f] # None
  /\ Last(S)[f] >= First(S)[f]

\* Hours whose last reading is missing count for nothing; without the first one
\* the subtraction raises.
Gained(S, f) == IF Last(S)[f] = None THEN 0 ELSE Last(S)[f] - First(S)[f]

Undefined(S) ==
  /\ S # {} /\ Counted(S, "engine")
  /\ \E f \in {"driving", "idle"} : First(S)[f] = None /\ Last(S)[f] # None

\* _haversine along the locations: positions are on a line.
Path(S) == Total(LAMBDA s : Larger(s[1].pos - s[2].pos, s[2].pos - s[1].pos), Steps(S))

Distance(S, odo) == IF Counted(S, odo) THEN Gained(S, odo) ELSE Path(S)

\* The time the engine ran: steps of at most `longest` minutes that end with
\* ignition; without io.ign the speed decides.
Ran(S, longest, slow) ==
  { s \in Steps(S) : /\ s[2].time - s[1].time <= longest
                     /\ \/ s[2].ign = 1
                        \/ s[2].ign = None /\ s[2].speed > slow }

Minutes(T) == Total(LAMBDA s : s[2].time - s[1].time, T)

Runtime(S, longest, slow) ==
  IF Counted(S, "engine")
  THEN [engine |-> Gained(S, "engine"), driving |-> Gained(S, "driving"),
        idle |-> Gained(S, "idle")]
  ELSE LET ran == Ran(S, longest, slow)
           drove == {s \in ran : s[2].speed > slow}
       IN  [engine |-> Minutes(ran), driving |-> Minutes(drove),
            idle |-> Minutes(ran \ drove)]

TopSpeed(S) == Max({l.speed : l \in S} \cup {0})

\* Decreases of the fuel level of less than 5 litres.
Burnt(S) ==
  Total(LAMBDA s : LET d == s[1].fuel - s[2].fuel
                   IN  IF d > 0 /\ d < 50 THEN d ELSE 0,
        Steps({l \in S : l.fuel # None}))

Alerts(S, kinds) == Total(LAMBDA l : Cardinality(l.alerts \cap kinds), S)

-----------------------------------------------------------------------------
(***************************************************************************)
(* The processors: what each makes of the summaries t for the day and the  *)
(* window of a run.                                                        *)
(***************************************************************************)
Window(r) == {l \in locations : l.id >= r.start /\ l.id <= r.end}

EmptyDay == [dist |-> 0, fuel |-> 0, engine |-> 0, driving |-> 0, idle |-> 0,
             max |-> 0, seen |-> {}]

\* Stage 1: every location of the window goes to the row of its vehicle and of
\* the day of the run.  seen is a history: the ids that were counted.
VehicleStats(t, r) ==
  [t EXCEPT !.vehicle = [v \in Vehicles |->
     LET S == {l \in Window(r) : l.vehicle = v}
         old == IF t.vehicle[v][r.date] = NoRow THEN EmptyDay ELSE t.vehicle[v][r.date]
         ran == Runtime(S, 30, 0)
     IN  IF S = {} THEN t.vehicle[v]
         ELSE [t.vehicle[v] EXCEPT ![r.date] =
                 [dist |-> old.dist + Distance(S, "meter"),
                  fuel |-> old.fuel + Burnt(S),
                  engine |-> old.engine + ran.engine,
                  driving |-> old.driving + ran.driving,
                  idle |-> old.idle + ran.idle,
                  max |-> Larger(old.max, TopSpeed(S)),
                  seen |-> old.seen \cup {<<l.id, Cardinality(old.seen)>> : l \in S}]]]]

\* The locations of an assignment on a day, both ends included.  (FaultDuty
\* takes all the day of the vehicle.)
FaultDuty(a, d) == {l \in locations : l.vehicle = a.vehicle /\ DayOf(l) = d}

Duty(a, d) ==
  {l \in locations : /\ l.vehicle = a.vehicle /\ DayOf(l) = d
                     /\ l.time >= a.from
                     /\ a.to = None \/ l.time <= a.to}

\* Without fuel levels the consumption is estimated from the hours so far.
DriverFuel(D, d) ==
  Total(LAMBDA a :
          LET S == Duty(a, d)
              past == {b \in D : b.id <= a.id}
              hours(f) == Total(LAMBDA b : Runtime(Duty(b, d), 29, 1)[f], past)
          IN  IF First(S).fuel # None /\ Last(S).fuel # None
              THEN Larger(0, First(S).fuel - Last(S).fuel)
              ELSE (hours("idle") * 15 + hours("driving") * 80) \div 60, D)

SafetyPoints ==
  { <<{"Overspeed", "Overspeed Alert", "Speed Limit Exceeded"}, 5>>,
    <<{"Harsh Braking", "Harsh Brake"}, 10>>,
    <<{"Harsh Acceleration", "Over Acceleration"}, 8>>,
    <<{"Sharp Turn", "Harsh Turn"}, 5>>,
    <<{"Engine Over Temperature"}, 15>>, <<{"Power Failure"}, 12>> }

\* The row of a driver who drove the assignments D on day d.
DriverDay(D, d) ==
  LET all(f(_)) == Total(LAMBDA a : f(Duty(a, d)), D)
      ran(f) == Total(LAMBDA a : Runtime(Duty(a, d), 29, 1)[f], D)
      dist == Total(LAMBDA a : Distance(Duty(a, d), "odo"), D)
      fuel == DriverFuel(D, d)
      economy == IF fuel > 0 THEN dist \div fuel ELSE 0
      count(kinds) == all(LAMBDA S : Alerts(S, kinds))
      eco == (ran("idle") * 20) \div 3
             + 500 * count({"Harsh Acceleration", "Over Acceleration"})
             + 250 * all(LAMBDA S : Cardinality({l \in S : l.rpm > 3500}))
             + (IF economy > 0 /\ economy < 1000 THEN (1000 - economy) \div 2 ELSE 0)
  IN  [dist |-> dist, fuel |-> fuel, engine |-> ran("engine"),
       driving |-> ran("driving"), idle |-> ran("idle"),
       max |-> Max({TopSpeed(Duty(a, d)) : a \in D}),
       overspeed |-> count({"Overspeed", "Overspeed Alert", "Speed Limit Exceeded"}),
       safety |-> Larger(0, 10000 - 100 * Total(LAMBDA p : p[2] * count(p[1]), SafetyPoints)),
       eco |-> Larger(0, 10000 - eco)]

\* Stage 2: the rows of the drivers that have locations on the day of the run
\* are written anew from all of the day.
DriverStats(t, r) ==
  [t EXCEPT !.driver = [d \in Drivers |->
     LET D == {a \in Assignments : a.driver = d /\ Duty(a, r.date) # {}}
     IN  IF D = {} THEN t.driver[d]
         ELSE [t.driver[d] EXCEPT ![r.date] = DriverDay(D, r.date)]]]

\* The odometer in metres, read or made up: from the remaining distance of the
\* last day that has a row, or from the id of the vehicle.
Odometer(t, v, d) ==
  LET past == {l \in locations : l.vehicle = v /\ DayOf(l) <= d}
      rows == {k \in Days : k < d /\ t.maintenance[v][k] # NoRow}
  IN  IF past # {} /\ Last(past).odo # None THEN Last(past).odo
      ELSE IF rows # {} THEN 10000000 - t.maintenance[v][Max(rows)].remaining
      ELSE v * 15300000 + 120000

\* At least one day to go.  (FaultServiceDays lets it reach zero.)
FaultServiceDays(remaining) == ((remaining \div 100) * 365) \div 100000

ServiceDays(remaining) == Larger(1, ((remaining \div 100) * 365) \div 100000)

MaintenanceDay(t, v, d) ==
  LET odo == Odometer(t, v, d)
      today == {l \in locations : l.vehicle = v /\ DayOf(l) = d}
      count(kinds) == Alerts(today, kinds)
      harsh == count({"Harsh Braking", "Harsh Acceleration", "Sharp Turn"})
      heat == count({"Engine Over Temperature"})
      remaining == 10000000 - (odo % 10000000)
      oil == remaining \div 1000
      brake == Smaller(10000, ((odo % 20000000) \div 2000) + 50 * harsh)
      tyre == Larger(0, 10000 - ((odo % 40000000) \div 4000) - 30 * harsh)
      battery == Larger(0, 10000 - 500 * count({"Low Battery"})
                                 - 500 * count({"Power Failure"}))
      hours == IF t.vehicle[v][d] = NoRow THEN 0 ELSE t.vehicle[v][d].engine
      engine == Larger(0, 10000 - 1500 * heat - 200 * harsh - (hours \div 6))
  IN  [remaining |-> remaining,
       days |-> ServiceDays(remaining),
       oil |-> oil, brake |-> brake, tyre |-> tyre, battery |-> battery,
       cooling |-> IF heat > 0 THEN "Critical"
                   ELSE IF harsh > 5 THEN "Fair" ELSE "Good",
       engine |-> engine,
       overall |-> (15 * oil + 15 * (10000 - brake) + 15 * tyre
                    + 20 * battery + 35 * engine) \div 100]

Maintenance(t, r) ==
  [t EXCEPT !.maintenance = [v \in Vehicles |->
     [t.maintenance[v] EXCEPT ![r.date] = MaintenanceDay(t, v, r.date)]]]

\* Stage 3: the row of the fleet is written anew from the rows of the day.
\* (FaultFleetStats adds up the vehicles of the window only.)
FleetDay(t, d, V) ==
  LET sum(f) == Total(LAMBDA v : t.vehicle[v][d][f], V)
  IN  [dist |-> sum("dist"), fuel |-> sum("fuel"), engine |-> sum("engine"),
       driving |-> sum("driving"), idle |-> sum("idle"), active |-> Cardinality(V),
       max |-> Max({t.vehicle[v][d].max : v \in V} \cup {0})]

FaultFleetStats(t, r) ==
  [t EXCEPT !.fleet[r.date] =
     FleetDay(t, r.date, {v \in Vehicles : /\ t.vehicle[v][r.date] # NoRow
                                           /\ \E l \in Window(r) : l.vehicle = v})]

FleetStats(t, r) ==
  [t EXCEPT !.fleet[r.date] =
     FleetDay(t, r.date, {v \in Vehicles : t.vehicle[v][r.date] # NoRow})]

\* What a dispatcher sees of a vehicle.
StatusOf(l, now) ==
  IF l.time >= now - 5
  THEN IF l.ign = 1 THEN IF l.speed > 1 THEN "Driving" ELSE "Idling" ELSE "Parked"
  ELSE IF l.time >= now - 30 THEN "Idling" ELSE "Offline"

Operations(t, v, now) ==
  LET S == {l \in locations : l.vehicle = v}
      rows == {d \in Days : t.maintenance[v][d] # NoRow}
      health == IF rows = {} THEN 10000 ELSE t.maintenance[v][Max(rows)].overall
      due == rows # {} /\ t.maintenance[v][Max(rows)].remaining < 1000000
      on == {a \in Assignments : /\ a.vehicle = v /\ a.from <= now
                                 /\ a.to = None \/ a.to >= now}
  IN  [status |-> IF S = {} THEN "Offline" ELSE StatusOf(Last(S), now),
       flags |-> (IF S = {} THEN {} ELSE Last(S).flags)
                 \cup (IF due THEN {"maintenance due"} ELSE {}),
       health |-> health, trip |-> v \in OnTrip,
       driver |-> IF on = {} THEN "none"
                  ELSE (CHOOSE a \in on : \A b \in on : b.from <= a.from).driver]

Critical == {"Harsh Braking", "Harsh Acceleration", "Power Failure",
             "Engine Over Temperature"}

LiveFigures(ops, now) ==
  LET count(P(_)) == Cardinality({v \in Vehicles : P(ops[v])})
      in(s) == count(LAMBDA o : o.status = s)
      recent == {l \in locations : l.time >= now - Day}
  IN  [driving |-> in("Driving"), idling |-> in("Idling"), parked |-> in("Parked"),
       offline |-> in("Offline"), trips |-> count(LAMBDA o : o.trip),
       availability |-> (100 * (Cardinality(Vehicles) - in("Offline")))
                        \div Cardinality(Vehicles),
       attention |-> count(LAMBDA o : o.flags # {} \/ o.health < 7000),
       critical |-> Alerts(recent, Critical)]

FleetOperations(t, now) ==
  LET ops == [v \in Vehicles |-> Operations(t, v, now)]
  IN  [t EXCEPT !.ops = ops, !.live = LiveFigures(ops, now)]

-----------------------------------------------------------------------------
(***************************************************************************)
(* The pipeline.                                                           *)
(***************************************************************************)
Stage == [vehicle |-> 1, driver |-> 2, maintenance |-> 2, fleet |-> 3, operations |-> 3]

NoRun == [on |-> FALSE]
NoTables ==
  LET empty(S) == [x \in S |-> [d \in Days |-> NoRow]]
  IN  [vehicle |-> empty(Vehicles), driver |-> empty(Drivers),
       maintenance |-> empty(Vehicles), fleet |-> [d \in Days |-> NoRow],
       ops |-> NoRow, live |-> NoRow]

DailyInit ==
  /\ pending = {} /\ locations = {}
  /\ cursor = 0
  /\ tables = NoTables
  /\ run = NoRun
  /\ late = {}
  /\ failures = 0

NextId == 1 + Cardinality(pending \cup locations)

\* A telemetry job flushes its location, and commits it in its own time.
Flush(p) ==
  /\ Cardinality(pending) < MaxJobs
  /\ \A l \in pending \cup locations : l.packet # p
  /\ pending' = pending \cup
       {[id |-> NextId, packet |-> p, vehicle |-> p.vehicle, time |-> p.time,
         pos |-> p.pos, speed |-> p.speed, ign |-> p.ign, fuel |-> p.fuel,
         odo |-> p.odo, meter |-> None, rpm |-> p.rpm, engine |-> p.engine,
         driving |-> p.driving, idle |-> p.idle, alerts |-> p.alerts,
         flags |-> p.flags]}
  /\ UNCHANGED <<locations, cursor, tables, run, late, failures>>

Store(l) ==
  /\ pending' = pending \ {l}
  /\ locations' = locations \cup {l}
  /\ late' = IF l.id <= cursor \/ (run.on /\ l.id <= run.end)
             THEN late \cup {l.id} ELSE late
  /\ UNCHANGED <<cursor, tables, run, failures>>

\* run_pipeline: the day of the first location after the checkpoint, and the
\* last location of that day.
Begin ==
  LET new == {l \in locations : l.id > cursor}
      first == CHOOSE l \in new : \A k \in new : l.id <= k.id
      same == {l.id : l \in {k \in new : DayOf(k) = DayOf(first)}}
  IN  /\ ~run.on
      /\ new # {}
      /\ run' = [on |-> TRUE, date |-> DayOf(first), start |-> cursor + 1,
                 end |-> Max(same), todo |-> DOMAIN Stage, draft |-> tables]
      /\ UNCHANGED <<pending, locations, cursor, tables, late, failures>>

\* The processors run in order of their stages, those of a stage as registered.
\* (FaultDue leaves out the sort.)
Place(p) == CHOOSE i \in DOMAIN Registered : Registered[i] = p

FaultDue(p) == p \in run.todo /\ \A q \in run.todo : Place(p) <= Place(q)

Due(p) ==
  /\ p \in run.todo
  /\ \A q \in run.todo :
       Stage[p] < Stage[q] \/ (Stage[p] = Stage[q] /\ Place(p) <= Place(q))

\* A processor that raises leaves the run to RollBack.
Raises(p) ==
  \/ p = "vehicle" /\ \E v \in Vehicles : Undefined({l \in Window(run) : l.vehicle = v})
  \/ p = "driver" /\ \E a \in Assignments : Undefined(Duty(a, run.date))

Process(p) ==
  /\ run.on /\ Due(p) /\ ~Raises(p)
  /\ \E t \in CASE p = "vehicle"     -> {VehicleStats(run.draft, run)}
                [] p = "driver"      -> {DriverStats(run.draft, run)}
                [] p = "maintenance" -> {Maintenance(run.draft, run)}
                [] p = "fleet"       -> {FleetStats(run.draft, run)}
                [] OTHER -> {FleetOperations(run.draft, now) : now \in Clock} :
       run' = [run EXCEPT !.todo = @ \ {p}, !.draft = t]
  /\ UNCHANGED <<pending, locations, cursor, tables, late, failures>>

CommitRun ==
  /\ run.on /\ run.todo = {}
  /\ tables' = run.draft
  /\ cursor' = run.end
  /\ run' = NoRun
  /\ UNCHANGED <<pending, locations, late, failures>>

\* A processor fails or the process ends: the transaction is rolled back and
\* the next run starts from the same checkpoint.  (FaultRollBack keeps what the
\* processors had written.)
FaultRollBack ==
  /\ run.on /\ failures < MaxFailures
  /\ failures' = failures + 1
  /\ tables' = run.draft
  /\ run' = NoRun
  /\ UNCHANGED <<pending, locations, cursor, late>>

RollBack ==
  /\ run.on /\ failures < MaxFailures
  /\ failures' = failures + 1
  /\ run' = NoRun
  /\ UNCHANGED <<pending, locations, cursor, tables, late>>

DailyNext ==
  \/ \E p \in Packets : Flush(p)
  \/ \E l \in pending : Store(l)
  \/ Begin \/ CommitRun \/ RollBack
  \/ \E p \in DOMAIN Stage : Process(p)

DailySpec == DailyInit /\ [][DailyNext]_dailyVars

-----------------------------------------------------------------------------
DailyTypeOK ==
  /\ cursor \in Nat
  /\ \A l, k \in pending \cup locations : l.id = k.id => l = k
  /\ failures \in 0 .. MaxFailures
  /\ \A d \in Drivers, k \in Days :
       tables.driver[d][k] # NoRow
         => tables.driver[d][k].safety \in Scores
            /\ tables.driver[d][k].eco \in Nat
  /\ \A v \in Vehicles, k \in Days :
       tables.maintenance[v][k] # NoRow
         => /\ tables.maintenance[v][k].days \in 1 .. 365
            /\ tables.maintenance[v][k].overall \in Scores
  /\ run.on => run.start <= run.end

\* How often the committed rows of the vehicles counted a location.
TimesCounted(id) ==
  Cardinality({s \in Vehicles \X Days \X (0 .. Cardinality(Packets)) :
                 /\ tables.vehicle[s[1]][s[2]] # NoRow
                 /\ <<id, s[3]>> \in tables.vehicle[s[1]][s[2]].seen})

\* The checkpoint and the summaries move together, however runs fail and
\* whatever is stored meanwhile: a location before the checkpoint is counted
\* once, one after it not at all.  Only a row that became visible behind a run,
\* because its job committed after one with a higher id, may be left out.
CountedOnce ==
  /\ \A l \in locations :
       TimesCounted(l.id) \in
         IF l.id > cursor THEN {0} ELSE IF l.id \in late THEN {0, 1} ELSE {1}
  /\ \A l \in pending : TimesCounted(l.id) = 0
=============================================================================
