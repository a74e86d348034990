---------------------------- MODULE RouteDriving ----------------------------
(***************************************************************************)
(* A simulated vehicle and the planned routes it is sent on:               *)
(* app/crud/planned_route.py and app/routers/planned_route.py, the loop    *)
(* and the route of app/services/simulator/vehicle_twin.py with the motion *)
(* and the power supply of its physics, and what                           *)
(* app/services/packet_processor.py stores of the progress it reports.     *)
(*                                                                         *)
(* Distances, speeds and ticks are small numbers; a random draw is a       *)
(* choice.  Fuel, engine, gears and event codes do not act on the motion   *)
(* and are left out.                                                       *)
(***************************************************************************)
EXTENDS Integers, Sequences, FiniteSets

CONSTANTS
  Routes,         \* the planned routes
  Marks,          \* per path: the cumulative distances of its points
  OwnPath,        \* the path a twin is created with
  CustomPath,     \* the path of set_custom_route
  LoopRoute,      \* what settings.SIMULATOR_LOOP_ROUTE can be when a twin is created
  Cruising, Accel, Brake,        \* the vehicle profile
  ParkTicks, SupplyTicks, CutTicks,
  Progresses,     \* the payloads of PATCH route-progress
  Clerks,         \* requests that are served at the same time
  Nothing,
  MaxAssigned,    \* bound on the calls of assign_route_to_vehicle
  MaxIncidents    \* bound on PATCH requests, commands, stops, restarts, custom
                  \* routes, and failures that the code only logs

Paths == Routes \cup {OwnPath, CustomPath}

\* A path of one point raises an IndexError in every tick, and one of length 0
\* ends at once with 0 percent: both are left out.
ASSUME PathsLeadSomewhere ==
  \A p \in Paths : /\ Marks[p] \in Seq(Nat)
                   /\ Len(Marks[p]) >= 2
                   /\ Marks[p][1] = 0
                   /\ \A i, j \in 1..Len(Marks[p]) : i < j => Marks[p][i] < Marks[p][j]

\* A negative index counts from the end of the path, and a percentage can be any
\* number: PATCH checks neither, and both are left out.
ASSUME DriveConstants ==
  /\ LoopRoute \subseteq BOOLEAN
  /\ Nothing \notin Paths
  /\ Cruising \subseteq Nat /\ \E m \in Cruising : \A c \in Cruising : c <= m
  /\ Accel \in Nat /\ Brake \in Nat
  /\ ParkTicks \subseteq Nat /\ SupplyTicks \subseteq Nat /\ CutTicks \subseteq Nat
  /\ Progresses \subseteq [idx : Nat, pct : 0..100, last : Int]

VARIABLES
  plans,          \* planned_routes.status, or Nothing
  rows,           \* vehicle_route_assignments of the vehicle
  twin,           \* SimulatorService.twins[uid], or Nothing
  packet,         \* what the loop of the twin is storing: Nothing, or the packet
  clerk,          \* per request: how far it is, and what its session holds
  assigned, incidents,    \* what the bounds count
  losses,         \* how many packets and routes were lost
  crossed,        \* history: two requests overlapped
  strayed         \* history: the twin reported something else than the route
                  \* it has to drive, for a reason that RoutesStayApart names

driveVars == <<plans, rows, twin, packet, clerk, assigned, incidents, losses,
               crossed, strayed>>
counters  == <<assigned, incidents, losses>>

Free == [at |-> "free"]
ActiveRows == {i \in DOMAIN rows : rows[i].active}

LengthOf(p) == Marks[p][Len(Marks[p])]
EndOf(p)  == Len(Marks[p]) - 1

\* UPDATE of what a session changed: the columns it left alone keep what
\* others have written since.
Write(stored, seen, new) ==
  [c \in DOMAIN stored |-> IF new[c] = seen[c] THEN stored[c] ELSE new[c]]

DriveInit ==
  /\ plans = [r \in Routes |-> Nothing]
  /\ rows = <<>>
  /\ twin = Nothing
  /\ packet = Nothing
  /\ clerk = [k \in Clerks |-> Free]
  /\ assigned = 0 /\ incidents = 0 /\ losses = 0
  /\ crossed = FALSE /\ strayed = FALSE

-----------------------------------------------------------------------------
Enter(k, state) ==
  /\ clerk[k] = Free
  /\ clerk' = [clerk EXCEPT ![k] = state]
  /\ crossed' = (crossed \/ \E j \in Clerks \ {k} : clerk[j] # Free)

Incident == incidents < MaxIncidents /\ incidents' = incidents + 1

Served(k) == clerk' = [clerk EXCEPT ![k] = Free]

CreateRoute(r) ==
  /\ plans[r] = Nothing
  /\ plans' = [plans EXCEPT ![r] = "Pending"]
  /\ UNCHANGED <<rows, twin, packet, clerk, counters, crossed, strayed>>

(***************************************************************************)
(* POST assign-route: the route, the UPDATE of the assignments there are,  *)
(* the new one with the status of the route, and then the twin.  Two       *)
(* UPDATEs of the same row wait for each other, which changes nothing that *)
(* they store.                                                             *)
(***************************************************************************)
AssignSelect(k, r) ==
  /\ assigned < MaxAssigned
  /\ plans[r] # Nothing
  /\ Enter(k, [at |-> "mark", route |-> r, seen |-> plans[r]])
  /\ assigned' = assigned + 1
  /\ strayed' = (strayed \/ packet # Nothing)
  /\ UNCHANGED <<plans, rows, twin, packet, incidents, losses>>

\* Definitions named Fault... are seeded faults of the definition after them.
FaultAssignMark(k) ==
  /\ clerk[k].at = "mark"
  /\ clerk' = [clerk EXCEPT ![k] =
       [at |-> "insert", route |-> @.route, seen |-> @.seen, marked |-> {}]]
  /\ UNCHANGED <<plans, rows, twin, packet, counters, crossed, strayed>>

AssignMark(k) ==
  /\ clerk[k].at = "mark"
  /\ clerk' = [clerk EXCEPT ![k] =
       [at |-> "insert", route |-> @.route, seen |-> @.seen, marked |-> DOMAIN rows]]
  /\ UNCHANGED <<plans, rows, twin, packet, counters, crossed, strayed>>

AssignCommit(k) ==
  /\ clerk[k].at = "insert"
  /\ LET s == clerk[k]
     IN  /\ rows' = Append(
              [i \in DOMAIN rows |->
                 IF i \in s.marked THEN [rows[i] EXCEPT !.active = FALSE] ELSE rows[i]],
              [route |-> s.route, active |-> TRUE, status |-> "ACTIVE",
               idx |-> 0, pct |-> 0, last |-> 0, by |-> Nothing])
         /\ plans' = IF s.seen = "Assigned" THEN plans
                     ELSE [plans EXCEPT ![s.route] = "Assigned"]
  /\ IF twin = Nothing THEN Served(k)
     ELSE clerk' = [clerk EXCEPT ![k] = [at |-> "load"]]
  /\ UNCHANGED <<twin, packet, counters, crossed, strayed>>

(***************************************************************************)
(* VehicleTwin.load_assigned_route: the assignment, the points, and then   *)
(* the state of the twin at once.  Its exceptions are only logged.         *)
(***************************************************************************)
LoadSelect(k) ==
  /\ clerk[k].at = "load"
  /\ IF ActiveRows = {} THEN Served(k)
     ELSE \E i \in ActiveRows :
            clerk' = [clerk EXCEPT ![k] = [at |-> "drive", row |-> i, idx |-> rows[i].idx]]
  /\ UNCHANGED <<plans, rows, twin, packet, counters, crossed, strayed>>

FaultLoadApply(k) ==
  /\ clerk[k].at = "drive"
  /\ LET p     == rows[clerk[k].row].route
         start == IF clerk[k].idx > EndOf(p) THEN 0 ELSE clerk[k].idx
     IN  twin' = [twin EXCEPT !.path = p, !.row = clerk[k].row, !.idx = start,
                    !.offset = Marks[p][start + 1], !.completed = FALSE]
  /\ Served(k)
  /\ UNCHANGED <<plans, rows, packet, counters, crossed, strayed>>

LoadApply(k) ==
  /\ clerk[k].at = "drive"
  /\ LET p     == rows[clerk[k].row].route
         start == IF clerk[k].idx > EndOf(p) THEN 0 ELSE clerk[k].idx
     IN  twin' = [twin EXCEPT !.path = p, !.row = clerk[k].row, !.idx = start,
                    !.offset = Marks[p][start + 1], !.forward = TRUE, !.completed = FALSE]
  /\ Served(k)
  /\ UNCHANGED <<plans, rows, packet, counters, crossed, strayed>>

LoadFails(k) ==
  /\ clerk[k].at \in {"load", "drive"}
  /\ Incident
  /\ losses' = losses + 1
  /\ strayed' = TRUE
  /\ Served(k)
  /\ UNCHANGED <<plans, rows, twin, packet, assigned, crossed>>

(***************************************************************************)
(* PATCH of a route's status and of the progress of the active assignment. *)
(***************************************************************************)
ValidTransitions ==
  [Pending |-> {"Assigned"}, Assigned |-> {"Running", "Pending"},
   Running |-> {"Completed", "Assigned"}, Completed |-> {}]

PatchStatus(k, r) ==
  /\ Incident
  /\ plans[r] # Nothing
  /\ \E status \in ValidTransitions[plans[r]] :
       Enter(k, [at |-> "status", route |-> r, new |-> status])
  /\ UNCHANGED <<plans, rows, twin, packet, assigned, losses, strayed>>

PatchProgress(k) ==
  /\ Incident
  /\ \E i \in ActiveRows, new \in Progresses :
       Enter(k, [at |-> "progress", row |-> i, seen |-> rows[i],
                 new |-> [rows[i] EXCEPT !.idx = new.idx, !.pct = new.pct, !.last = new.last]])
  /\ UNCHANGED <<plans, rows, twin, packet, assigned, losses, strayed>>

PatchCommit(k) ==
  /\ \/ /\ clerk[k].at = "status"
        /\ plans' = [plans EXCEPT ![clerk[k].route] = clerk[k].new]
        /\ UNCHANGED rows
     \/ /\ clerk[k].at = "progress"
        /\ rows' = [rows EXCEPT ![clerk[k].row] = Write(@, clerk[k].seen, clerk[k].new)]
        /\ UNCHANGED plans
  /\ Served(k)
  /\ UNCHANGED <<twin, packet, counters, crossed, strayed>>

-----------------------------------------------------------------------------
(***************************************************************************)
(* VehicleTwin.step.  VehicleMotion.update_state:                          *)
(***************************************************************************)
Moods(t) ==
  CASE ~t.power                  -> {[t EXCEPT !.motion = "Power Failure"]}
    [] t.power /\ t.motion = "Power Failure" -> {[t EXCEPT !.motion = "Recovering"]}
    [] t.power /\ t.motion = "Recovering"    -> {[t EXCEPT !.motion = "Parked"]}
    [] OTHER ->
         IF t.loop
         THEN {[t EXCEPT !.motion = "Driving",
                         !.target = IF t.motion = "Driving" THEN @ ELSE c] : c \in Cruising}
         ELSE CASE t.motion = "Parked" ->
                     IF t.parked > 1 THEN {[t EXCEPT !.parked = @ - 1]}
                     ELSE {[t EXCEPT !.motion = "Idle", !.parked = n] : n \in ParkTicks}
                [] t.motion = "Idle" ->
                     {t} \cup {[t EXCEPT !.motion = "Driving", !.target = c] : c \in Cruising}
                         \cup {[t EXCEPT !.motion = "Parked", !.parked = n] : n \in ParkTicks}
                [] t.motion = "Driving" ->
                     {t, [t EXCEPT !.motion = "Stopped in Traffic"], [t EXCEPT !.motion = "Idle"]}
                [] OTHER -> {t, [t EXCEPT !.motion = "Driving"]}

\* PowerSystem.update
Supplies(t) ==
  IF t.motion # "Power Failure"
  THEN LET left == IF t.supply = 0 THEN 0 ELSE t.supply - 1
       IN  {[t EXCEPT !.supply = left]}
           \cup {[t EXCEPT !.supply = left, !.power = FALSE, !.cut = n] :
                   n \in IF left = 0 THEN CutTicks ELSE {}}
  ELSE IF t.cut > 1 THEN {[t EXCEPT !.cut = @ - 1]}
  ELSE {[t EXCEPT !.cut = 0, !.power = TRUE, !.supply = n] : n \in SupplyTicks}

\* VehicleMotion.update_speed
Aims(t) ==
  CASE t.motion \in {"Idle", "Stopped in Traffic"}  -> {0}
    [] t.motion = "Driving" /\ t.target = 0         -> Cruising
    [] OTHER                                        -> {t.target}

Slower(speed, floor, by) == IF speed - by > floor THEN speed - by ELSE floor

Speeds(t) ==
  IF t.held \/ t.motion \in {"Parked", "Power Failure", "Recovering"}
  THEN {[t EXCEPT !.speed = Slower(@, 0, 2 * Brake)]}
  ELSE {[t EXCEPT !.target = c,
                  !.speed = IF @ < c
                            THEN (IF @ + Accel < c THEN @ + Accel ELSE c)
                            ELSE Slower(@, c, Brake)] : c \in Aims(t)}

\* GPSSystem.update: the end of the path, in either direction
Advance(t) ==
  LET there == t.offset + (IF t.forward THEN t.speed ELSE -t.speed)
      ended == t.speed > 0 /\ IF t.forward THEN there >= LengthOf(t.path) ELSE there <= 0
      goal  == IF t.forward THEN LengthOf(t.path) ELSE 0
  IN  IF ~ended THEN [t EXCEPT !.offset = there]
      ELSE IF t.loop THEN [t EXCEPT !.offset = LengthOf(t.path) - goal]
      ELSE [t EXCEPT !.offset = goal, !.completed = TRUE, !.speed = 0]

\* The segment, which is never the last point of the path
Locate(t) ==
  LET behind == {i \in 1..EndOf(t.path) - 1 : Marks[t.path][i + 1] < t.offset}
  IN  [t EXCEPT !.idx = Cardinality(behind)]

TwinSteps(t) ==
  {Locate(Advance(c)) : c \in UNION {Speeds(b) : b \in UNION {Supplies(a) : a \in Moods(t)}}}

Report(t) ==
  [at |-> "ingest", path |-> t.path, idx |-> t.idx, last |-> EndOf(t.path),
   pct |-> (100 * t.offset) \div LengthOf(t.path)]

\* A completed twin goes on ticking and sends nothing.
Tick ==
  /\ twin # Nothing
  /\ twin.running /\ ~twin.completed
  /\ packet = Nothing
  /\ \E t \in TwinSteps(twin) :
       /\ twin' = t
       /\ packet' = Report(t)
  /\ strayed' = (strayed \/ \E k \in Clerks : clerk[k].at \in {"mark", "insert", "load", "drive"})
  /\ UNCHANGED <<plans, rows, clerk, counters, crossed>>

-----------------------------------------------------------------------------
(***************************************************************************)
(* The loop stores the packet and runs the job of process_telemetry_packet *)
(* before it ticks again.  The job reads the active assignment, changes it *)
(* in its session and commits.                                             *)
(***************************************************************************)
JobSelect ==
  /\ packet # Nothing
  /\ packet.at = "ingest"
  /\ IF ActiveRows = {} THEN packet' = Nothing
     ELSE \E i \in ActiveRows :
            packet' = [at |-> "commit", row |-> i, seen |-> rows[i],
                       path |-> packet.path, idx |-> packet.idx,
                       pct |-> packet.pct, last |-> packet.last]
  /\ UNCHANGED <<plans, rows, twin, clerk, counters, crossed, strayed>>

Progressed(row, p) ==
  LET new == [row EXCEPT !.idx = p.idx, !.pct = p.pct, !.last = p.last]
  IN  IF p.pct >= 100 \/ p.idx >= p.last
      THEN [new EXCEPT !.active = FALSE, !.status = "COMPLETED", !.pct = 100,
                       !.idx = p.last, !.by = p.path]
      ELSE new

JobCommit ==
  /\ packet # Nothing
  /\ packet.at = "commit"
  /\ rows' = [rows EXCEPT ![packet.row] =
                Write(@, packet.seen, Progressed(packet.seen, packet))]
  /\ packet' = Nothing
  /\ UNCHANGED <<plans, twin, clerk, counters, crossed, strayed>>

\* A failure of the pipeline or of the job: the twin goes on without it.
PacketLost ==
  /\ packet # Nothing
  /\ Incident
  /\ losses' = losses + 1
  /\ packet' = Nothing
  /\ UNCHANGED <<plans, rows, twin, clerk, assigned, crossed, strayed>>

(***************************************************************************)
(* The twin is created with its own path, somewhere on it: the session     *)
(* factory that its constructor imports does not exist, so neither the     *)
(* assigned route nor the last position is ever found.                     *)
(***************************************************************************)
Offsets(p) == 0..LengthOf(p)

Boot ==
  /\ twin = Nothing
  /\ \E o \in Offsets(OwnPath), f \in BOOLEAN, n \in ParkTicks, m \in SupplyTicks, l \in LoopRoute :
       twin' = [path |-> OwnPath, row |-> 0, offset |-> o, forward |-> f,
                completed |-> FALSE, idx |-> 0, motion |-> "Parked", parked |-> n,
                speed |-> 0, target |-> 0, power |-> TRUE, supply |-> m, cut |-> 0,
                held |-> FALSE, running |-> TRUE, loop |-> l]
  /\ strayed' = (strayed \/ ActiveRows # {})
  /\ UNCHANGED <<plans, rows, packet, clerk, counters, crossed>>

Switch ==
  /\ Incident
  /\ UNCHANGED <<plans, rows, assigned, crossed>>

\* The commands that reach the motion
Immobilize ==
  /\ twin # Nothing
  /\ Switch
  /\ twin' = [twin EXCEPT !.held = TRUE, !.speed = 0]
  /\ UNCHANGED <<packet, clerk, losses, strayed>>

Restore ==
  /\ twin # Nothing /\ twin.held
  /\ Switch
  /\ twin' = [twin EXCEPT !.held = FALSE]
  /\ UNCHANGED <<packet, clerk, losses, strayed>>

\* VehicleTwin.stop cancels the loop wherever it is, with the packet it stores.
StopLoop ==
  /\ twin # Nothing /\ twin.running
  /\ Switch
  /\ twin' = [twin EXCEPT !.running = FALSE]
  /\ packet' = Nothing
  /\ losses' = IF packet = Nothing THEN losses ELSE losses + 1
  /\ UNCHANGED <<clerk, strayed>>

StartLoop ==
  /\ twin # Nothing /\ ~twin.running
  /\ twin' = [twin EXCEPT !.running = TRUE]
  /\ UNCHANGED <<plans, rows, packet, clerk, counters, crossed, strayed>>

Divert ==
  /\ twin # Nothing
  /\ Switch
  /\ twin' = [twin EXCEPT !.path = CustomPath, !.row = 0, !.offset = 0,
                          !.forward = TRUE, !.completed = FALSE]
  /\ strayed' = (strayed \/ ActiveRows # {})
  /\ UNCHANGED <<packet, clerk, losses>>

\* The process ends: what is committed stays.
EndProcess ==
  /\ Switch
  /\ twin' = Nothing
  /\ packet' = Nothing
  /\ clerk' = [k \in Clerks |-> Free]
  /\ UNCHANGED <<losses, strayed>>

-----------------------------------------------------------------------------
Attend(k) ==
  \/ AssignMark(k) \/ AssignCommit(k) \/ LoadSelect(k) \/ LoadApply(k) \/ PatchCommit(k)

DriveNext ==
  \/ \E r \in Routes : CreateRoute(r)
  \/ \E k \in Clerks :
       \/ \E r \in Routes : AssignSelect(k, r) \/ PatchStatus(k, r)
       \/ PatchProgress(k) \/ Attend(k) \/ LoadFails(k)
  \/ Tick \/ JobSelect \/ JobCommit \/ PacketLost
  \/ Boot \/ Immobilize \/ Restore \/ StopLoop \/ StartLoop \/ Divert \/ EndProcess

\* A tick that moves the vehicle: the draws of the motion are independent, and
\* each outcome has a positive probability in every profile.
Moves == Tick /\ (twin'.speed > 0 \/ twin'.completed)

DriveFairness ==
  /\ WF_driveVars(Tick)
  /\ SF_driveVars(Moves)
  /\ WF_driveVars(JobSelect)
  /\ WF_driveVars(JobCommit)
  /\ \A k \in Clerks : WF_driveVars(Attend(k))

DriveSpec == DriveInit /\ [][DriveNext]_driveVars /\ DriveFairness

-----------------------------------------------------------------------------
Row == [route : Routes, active : BOOLEAN, status : {"ACTIVE", "COMPLETED"},
        idx : Int, pct : 0..100, last : Int, by : Paths \cup {Nothing}]

Fastest == CHOOSE m \in Cruising : \A c \in Cruising : c <= m

\* The twin stays on its path, on a segment that exists; a completed assignment
\* is not active and knows the end of some path.
DriveTypeOK ==
  /\ plans \in [Routes -> {Nothing} \cup DOMAIN ValidTransitions]
  /\ \A i \in DOMAIN rows : rows[i] \in Row
  /\ twin # Nothing =>
       /\ twin.path \in Paths
       /\ twin.offset \in Offsets(twin.path)
       /\ twin.speed \in 0..Fastest
       /\ twin.completed => ~twin.loop
  /\ packet # Nothing => packet.path \in Paths /\ packet.idx < packet.last
  /\ crossed \in BOOLEAN /\ strayed \in BOOLEAN

\* A vehicle has one route at a time unless two requests overlap (the table has
\* no constraint), a completed assignment never comes back, and it was completed
\* at the end of its own route by a twin that does not loop - unless requests
\* overlapped, or the twin reported another path: it was created or diverted
\* while there was an assignment, failed to load it, or had a packet on the way
\* when the assignment was made.
RoutesStayApart ==
  /\ crossed \/ Cardinality(ActiveRows) <= 1
  /\ \A i \in DOMAIN rows : rows[i].status = "COMPLETED" =>
       /\ ~rows[i].active
       /\ crossed \/ strayed \/ rows[i].by = rows[i].route

Settled(i) ==
  \/ ~rows[i].active
  \/ twin = Nothing
  \/ twin # Nothing /\ (twin.row # i \/ twin.held \/ ~twin.running)
  \/ twin # Nothing /\ twin.completed /\ losses > 0
  \/ crossed

\* A twin that does not loop and has loaded an assignment gets to its end and
\* completes it, through parking, traffic and power failures, unless it is
\* immobilized, stopped or sent elsewhere, or the packet of its end is lost:
\* that packet is the only one, and nothing repeats it.
RoutesGetDriven ==
  \A i \in 1..MaxAssigned :
    (/\ twin # Nothing /\ i \in DOMAIN rows
     /\ twin.row = i /\ ~twin.loop /\ rows[i].active) ~> (i \in DOMAIN rows /\ Settled(i))

\* "Resolve path: first check for active DB assigned route"
\* (app/services/simulator/vehicle_twin.py): a vehicle with one assignment that
\* nobody is about to change has a twin on that route, unless it was diverted
\* or could not load it.
TwinsResumeTheirRoute ==
  (/\ twin # Nothing /\ ~crossed /\ losses = 0
   /\ twin.path # CustomPath
   /\ \A k \in Clerks : clerk[k] = Free)
    => \A i \in ActiveRows : twin.path = rows[i].route
=============================================================================
