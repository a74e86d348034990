# Welogical Vehicle Tracking System: TLA+ specifications and proofs

The Welogical VTS is a FastAPI service (`src/app`) over PostgreSQL. Devices, and vehicles it
simulates itself, send telemetry; the service stores every packet, answers with the next command
for the vehicle, and afterwards derives locations, trips, events and notifications from the
packet and pushes them to a dashboard over WebSockets. This directory models the parts of the
service in which order, failure and concurrency decide whether it is correct.

All modules rest on three facts of the code:

- one process with one event loop: a coroutine runs undisturbed until it awaits, and almost every
  await is a statement sent to the database;
- `src/app/database.py:31`: sessions are created with `autoflush=False` and
  `expire_on_commit=False`, so a query does not see what its own session has assigned and not yet
  flushed, and an object keeps the values it was loaded with;
- PostgreSQL at its default isolation level, READ COMMITTED: a statement sees what other sessions
  committed before it started, and an UPDATE by primary key overwrites what they wrote.

## 1. Inventory

| Component | Source | State | Operations and interaction | What makes it correct |
|---|---|---|---|---|
| Telemetry ingestion | `routers/location.py`, `services/telemetry_pipeline.py`, `services/background_jobs.py` | `raw_packets`, `vehicles`, status of `device_commands`, jobs in memory | check for a duplicate, find or register the vehicle, fetch a command, commit, answer, then run the job | answers tell the truth, repeated packets are stored once, a device is registered once, commands leave in order |
| Packet processing | `services/packet_processor.py`, `crud/location.py` | `locations`, `vehicles.last_seen/status`, `planned_routes` | called by the job; one transaction around location, trip, events and route; broadcasts before it commits | the trip rules see the right data; what clients are told is stored |
| Trip engine | `services/trip_engine.py` (`evaluate_coordinate_for_trip`) | `trips` | called per coordinate with the session of the caller | one open trip, disjoint trips, no movement outside a trip, history is not rewritten |
| Trip rebuild | `services/trip_engine.py` (`rebuild_vehicle_trips`), `routers/trip.py` | `trips`, the objects of one session | deletes and re-evaluates everything in one session | same history as live evaluation, nothing left open |
| Device commands | `routers/device_command.py`, `services/simulator/vehicle_twin.py` | `device_commands`, `command_logs`, one task per command | create, cancel, acknowledge, complete, fail, delete; fetched by the pipeline, executed by the twin | executed once per loop of the twin, with one verdict each; deleted means deleted |
| Command endpoints without a route | `crud/device_command.py` | none | called by no router | - |
| Vehicles | `crud/vehicle.py`, `routers/vehicle.py` | `vehicles`, status snapshots | create, update, archive; written by processor, twin and router | an archived vehicle stays archived |
| Drivers and assignments | `crud/driver.py`, `routers/driver.py` | `drivers`, `driver_assignments` | create, update, delete a driver; assign closes the old rows and inserts; release closes one | one active assignment per driver and vehicle |
| Planned routes | `crud/planned_route.py`, `routers/planned_route.py` | `planned_routes`, `vehicle_route_assignments` | create, assign (and load into the twin), status and progress by endpoint, progress and completion by telemetry | one active route per vehicle, completed at its own end, driven to the end |
| Route cache | `services/route_cache.py`, `services/google_routes.py`, `routers/route.py` | `route_cache`, links, usage events, a registry of locks in memory | look, take the lock of the key, look again, call, save | one external call per key, no lock left behind |
| WebSocket hub | `services/websocket_manager.py`, `routers/websocket.py` | connected clients, their topics, one lock | connect, subscribe, disconnect, broadcast, heartbeat | broadcasts return, clients that are gone leave |
| Simulator service | `services/simulator/simulator_service.py`, `vehicle_twin.py` | twins, their tasks, health monitor | start, stop, restart, health check | a running twin has a loop, what was stopped ends |
| Simulator physics | `services/simulator/physics/*` | motion, position, power, fuel, engine | one tick of a twin | a twin gets to the end of its route |
| Event detection | `services/event_engine.py`, `event_decoder.py` | `events` | called per packet, compares it with the latest location | what happened is stored, and once |
| Notifications | `services/notifications/*` | `notification_histories` | called per event of the engine; acknowledge, resolve | no storm of equal notifications, none missing |
| Analytics pipeline | `services/analytics/*` | checkpoint cursor, daily summaries | run over the new locations of a day, five processors | every location is counted once |
| Reports | `services/reports/*` | none | totals over the summaries | reports agree with each other |
| Trip analytics, scoring, replay | `services/trip_analytics.py`, `trip_scoring.py`, `trip_replay.py` | none | functions of a trip and its locations | agree with what the engine counted |
| Device configuration | `crud/device_config.py` | one row per vehicle | create, update, delete | the decoder compares with what is configured |
| Health, shell, dashboard, scripts | see `PROJECT.json` | none of their own | read-only or wiring | - |

Hard behaviour, in the order of its importance for the fleet:

1. **Order of coordinates.** Jobs commit in any order and devices buffer; a coordinate can be
   newer than a gap or older than everything stored (`trip_engine.py:69-74`).
2. **A session that does not see its own changes** (`trip_engine.py:126`, `:218`, `:238`,
   `packet_processor.py:203`).
3. **Check, then insert, without a constraint** (`telemetry_pipeline.py:48`, `:91`,
   `trip_engine.py:62`, `crud/driver.py:126`, `crud/planned_route.py:70`, `event_decoder.py:62`,
   `event_engine.py:372`).
4. **Lost answers and lost jobs**: what is committed before the process stops is not done again
   (`telemetry_pipeline.py:117`, `background_jobs.py:41`, `packet_processor.py:238`).
5. **Blind updates of one row by several sessions** (`routers/device_command.py:187-216`,
   `vehicle_twin.py:553`).
6. **Long waits under a lock, tasks cancelled in the middle** (`websocket_manager.py:76`,
   `route_cache.py:252`, `simulator_service.py:50`, `:155`).
7. **Figures computed twice from the same locations** (`trip_analytics.py:30`,
   `analytics/manager.py:73`, `:104`).

The complete list, with the properties that cover each, is under `hazards` in `PROJECT.json`.

## 2. Modules

| Module | Models | Extends / composes |
|---|---|---|
| `TripRules` | the pure rules by which a coordinate changes a trip | - |
| `TripEngine` | live evaluation, one committed packet at a time, with route completion | `TripRules` |
| `TripEngineProofs` | theorems about `TripEngine` | `TripEngine` |
| `TripRebuild` | live evaluation followed by a rebuild in one session | `TripRules` |
| `TripJobs` | jobs and a rebuild of one vehicle as overlapping sessions | `TripRules`; implements `TripEngine` while nothing overlaps |
| `TripHistoryProofs` | theorems about rebuilds and overlapping jobs, including the refinement of `TripEngine`, and about summaries and replays | `MCTripHistory` |
| `TripSummary` | summary, score and replay of a trip | `TripRules` |
| `TelemetryLedger` | what ingestion promises (abstract) | - |
| `TelemetryIngest` | every awaited statement of the pipeline, and the job | refines `TelemetryLedger` |
| `TelemetryIngestProofs` | theorems, including the refinement | `TelemetryIngest` |
| `DeviceCommands` | endpoints, delivery and execution of commands | - |
| `DeviceCommandsProofs` | theorems about `DeviceCommands` | `DeviceCommands` |
| `SimulatorService` | start, stop, restart, health monitor, loops of the twins | - |
| `RouteDriving` | planned routes, the tick of a twin that drives one, the progress telemetry stores | - |
| `SimulatorProofs` | theorems about the loops of the twins | `SimulatorService` |
| `DriverDuty` | drivers and their assignments, requests overlapping | - |
| `AssignmentsProofs` | theorems about assignments of drivers, about driving a route, and about both beside the pipeline | `DailyProofs`, `MCAssignments` |
| `Alerts` | events and notifications of overlapping telemetry jobs, device configuration | - |
| `AlertsProofs` | theorems about events and notifications, about the locks and calls of the cache, and about both side by side | `MCAlerts` |
| `RouteCache` | routes computed once per key under a lock | - |
| `WebSocketHub` | connections, broadcasts and the heartbeat under one lock | - |
| `DailyStats` | the analytics pipeline and its five processors | - |
| `DailyReports` | the reports on the daily summaries | `DailyStats` |
| `DailyProofs` | theorems about sums, the account of the summaries, the reports, the scores and handovers | `DailyReports` |
| `MCTripEngine`, `MCTripRebuild`, `MCTelemetryIngest`, `MCDeviceCommands`, `MCRouteDriving`, `MCSimulatorService` | small instances for TLC | one module each |
| `MCTripHistory` | instance | `TripRebuild`, `TripJobs`, `TripSummary` |
| `MCGateway` | instance | `TelemetryIngest`, `WebSocketHub`, `RouteDriving` |
| `MCAlerts` | instance | `Alerts`, `RouteCache` |
| `MCAssignments` | instance | `DailyReports`, `DriverDuty`, `RouteDriving` |

An instance that joins several components has a variable `focus`, chosen at the start, that says
which of them moves; the others stay in an initial state. They share no table, so their product has
no behaviour that its parts do not have, and the sum of their states is all there is to look at.
In the initial state of a component none of its fair actions is enabled, so that the fairness of one
out of focus asks for nothing.
Where components do share state they are in one module: the route cache with the trips that a
rebuild deletes, a twin with the assignments it drives and the telemetry that completes them, the
reports with the pipeline that writes what they read, ingestion with the job it starts.

`map` in `PROJECT.json` gives the lines behind every definition. Definitions named `Fault...` are
seeded faults of the definition after them (a dropped guard, a wrong status, a missing reset);
each property of a passing run fails when one of them replaces the definition it imitates, which
`mutants` in `PROJECT.json` records. No specification uses them.

### Trips: `TripRules`, `TripEngine`, `TripRebuild`, `TripJobs`, `TripSummary`

A trip is a record with the columns that decide something: start, end, duration, distance, idle
time, last position, counters, `status` and `is_active`, which the code writes separately. Average
and maximum speed are left out: nothing reads them back. A position is a point of a line, so the
haversine distance becomes the distance of two integers. The thresholds of `app/config.py` and the
literals of `trip_engine.py` are constants.

`TripEngine` has one action for each way through `evaluate_coordinate_for_trip`: no trip and no
start, a start, a late coordinate, a gap that closes, a gap that closes and restarts, and an update
that may end the trip by ignition or idleness. `done` is the report that a planned route is
complete, which makes `packet_processor.py` close the trip that its select returns. `flushed` says
whether an event of the same packet flushed the session before the trip engine ran: only then does
the query for the last moving location see the packet's own location (`Visible`). Both are free
choices of the step. Jobs of one vehicle do not overlap in this module; in `TripJobs` they do.

`TripRebuild` first commits locations in any order (`Ingest` inserts at the place that ORDER BY
timestamp will give it; ties are free) and keeps in `live` the trips that live evaluation made of
them as long as they came in order. Then it deletes the trips and evaluates the locations in one
session. `open` is the flushed `is_active` column, which is all that the select of the active trip
sees; `trips` are the objects, which carry what was assigned since. Only the insert of a new trip
and the end of the rebuild flush.

`TripJobs` gives every job and the rebuild a session: what it loaded (`loaded`), its objects
(`now`), what it wrote (`mine`) and deleted (`gone`), which stays locked until it ends. `BeginJob` is
the select of the active trip, `EvaluateJob` the rules, flushing when they start a trip,
`CompleteRoute` the second select, `CommitJob` the UPDATE of the columns that differ from the
loaded ones (`Write`); `FailJob` is an exception, among them the UPDATE of a row that a rebuild
deleted and a deadlock. The rebuild is `BeginRebuild` (the delete), `SelectLocations`, one
`RebuildNext` per location and `CommitRebuild`. `serial` is a history: as long as nothing has
overlapped, `Engine == INSTANCE TripEngine` maps the committed rows to its trips and every commit to
one of its steps. Two flushes that update the vehicle's row wait for each other in the code; the
module leaves their order open, which allows more.

`TripSummary` keeps one trip as the engine does and the locations of its vehicle, in any order, and
computes what the API answers: `Window` selects the locations again, `Stops` folds over them as the
loop does, `Score` subtracts and clamps, `Replay` skips points.

### Ingestion: `TelemetryLedger`, `TelemetryIngest`

A request carries one packet of one device and stops at each statement it awaits: `Receive`
(validation), `CheckDuplicate`, `ResolveVehicle`, `FlushVehicle` (auto-registration; the unique index
makes it wait for an uncommitted row and fail on a committed one), `FetchCommand`, `Commit` (one
transaction), `Respond`, and then the job as one transaction (`StoreLocation` or `FailJob`). `Fail` is
any statement that raises, `CommitUnacknowledged` a commit whose acknowledgement is lost (the rows are
stored and the answer is an error), `Crash` the end of the process with everything in memory,
`RegisterByOperator` the `POST /vehicles` that races. A request comes from the loop of a twin (`Twins`),
which gets the command with the result of the pipeline, or over HTTP, where the answer is a
`VTSResponse` and has no field for a command: `Carried` says what an answer brings. All statements
select by device or vehicle, so one device stands for any number of them. `body` is arbitrary: requests
carry the same packet, a packet with the same message number and other contents, one without a number, a
rejected one.

`TelemetryLedger` is the promise without the order of the statements: rows are recorded, answers
are true when they are given and not taken back, and a location exists only for a packet that was
answered with success.

### Commands: `DeviceCommands`

Every endpoint is a select and a commit with an await in between (`Load`, then `Save` or
`DeleteCommand`). `Write` is the UPDATE that the session emits: it names the columns that differ from
the loaded values, so the columns of one row may come from different sessions. Packets come from the
loop of the twin, from a second loop that a restart can leave, and from `POST /vts/telemetry` with the
same uid. Each sender waits for its answer, but nothing keeps packets of different senders apart:
`Fetch` is the select, `Deliver` the commit, `Abort` an exception in between, and several packets can
hold one PENDING command. A POST drops it with the answer; a loop first awaits the job of the packet and
then starts (`StartTask`, unless it is stopped first) a task that records Acknowledged and Executing,
dispatches, and records the verdict, each with a load and a commit (`UpdateLoads`, `UpdateCommits`) or
with an exception that `update_status` swallows (`UpdateFails`). Commands are `Queued` when the API
creates them; `PENDING` rows are what the schema before revision 008 left. `Crash` loses sessions and
tasks and keeps the tables.

### Simulated vehicles: `SimulatorService`

Every API call and every health monitor is a coroutine with a sequence of instructions `todo`, one
per place where the code can be interrupted or decides something; `current` is the coroutine that
keeps the event loop because nothing it has met so far had to wait. The telemetry loop of a twin is
a task `l` with `owner[l]`; `task[u]` is what the twin remembers, which the code overwrites and
forgets, so a loop can live that no twin knows of. `Cancelled` is `Task.cancel`: a monitor that
awaits a loop hands the cancellation on to it, and `VehicleTwin.stop` swallows what comes back.
Initially the service is off, or the lifespan of the application has started it. The bootstrap and
`update_db_status` are awaits that may take any time, and the first may raise.

### Routes and the vehicle that drives them: `RouteDriving`

`rows` are the assignments of one vehicle, `plans` the routes, `twin` the simulated vehicle, and
`clerk` the requests with what their sessions hold. `POST assign-route` is `AssignSelect`,
`AssignMark` (the UPDATE that deactivates the rows there are), `AssignCommit`, and the load into the
twin, `LoadSelect` and `LoadApply`, whose exceptions are logged (`LoadFails`). `Tick` is
`VehicleTwin.step`: the operators `Moods`, `Supplies`, `Aims`, `Speeds`, `Advance` and `Locate` are
the motion, the power supply and the position of `physics/`, with every random draw a choice and
integers for metres and ticks. The packet of the tick is stored by `JobSelect` and `JobCommit`, or
lost. `Boot` creates the twin on its own path: `SessionLocal`, which its constructor imports to find
the assignment, does not exist. Commands, stops of the loop, custom routes and the end of the
process are the incidents. Paths of one point (an IndexError in every tick) and of length zero
(ends at once with 0 percent and never completes) are excluded by `PathsLeadSomewhere`.

### Drivers: `DriverDuty`

A request (`desk`) reads with one statement after the other and keeps what it changes until it
commits: `CheckVehicle`, `CheckDriver`, `CloseForVehicle`, `CloseForDriver`, `CommitDuty`, and
`FindDuty`, `ReleaseDuty`. A commit whose rows are gone (the driver was deleted) rolls back.
`SetStatus` is disabling or archiving a vehicle, and the packet that makes it Moving again.

### Events and notifications: `Alerts`

A job is `Fetch` (the previous location), `Decode` (`trigger_system_event`), `Detect` (the rules,
each a line of `Driven`, `Supplied`, `Monitored`, `Serviced`), `Notify` and `Commit`; `Abort` is any
exception. Jobs of one vehicle overlap, device clocks run apart from the server's (`now`), and a
device reuses its counter. Without a direction the rule for turns raises; the exception is logged and
the other rules decide. The two duplicate checks are `Repeats`, the latest row of a type or
title, and `Decoded`, the pair of reason code and counter, which has no window at all.

### Route cache: `RouteCache`

`ArriveTrip` and `ArriveSnap` are the two ways in; `GetLock`, `HitInLock`, `Miss`, `Attempt`
(with `MayRetry`), `Save`, `SaveFails`, `Audit`, `CallFails` are what follows under the lock.
`queue[r]` is the lock that request `r` made: its holder and its waiters; `registry` is the dictionary
of locks. `DeleteTrip` is a rebuild, which takes the links with the trip. `remove_lock` does nothing
while the lock is held, and everything here calls it while holding the lock: the registry never
shrinks, and that is what `LocksPassedOn` needs.

### WebSocket hub: `WebSocketHub`

`hub` is the `asyncio.Lock`: its holder and then those that wait. A publisher gathers its targets
under the lock and keeps it until every send has returned (`Gather`, `Deliver`); so does the
heartbeat (`Beat`, `Ping`, `Sweep`). A client's socket is open, stalled or closed; a send to a
stalled one waits.

### Daily figures: `DailyStats`, `DailyReports`

A run takes the locations after its cursor up to the last one of the first day it sees (`Begin`),
lets the processors rewrite the summaries stage by stage (`Process`; processors of a stage in the
order they were registered) and commits summaries and checkpoint (`CommitRun`) or rolls both back
(`RollBack`). Telemetry jobs draw an id (`Flush`) and commit later (`Store`), so ids become visible
out of order. Each processor is an operator from the summaries, the window and the other tables to
new summaries. When engine hours are counted, driving or idle hours that only the first location lacks make
the run raise (`Raises`), so that it rolls back; hours that the last one lacks count 0 (`Gained`).
Times are minutes, distances metres, fuel tenths of a litre, scores hundredths.
`DailyReports` are the builders of `services/reports` as queries on the committed summaries.

## 3. What the runs check

| Run | Instance | What it shows |
|---|---|---|
| `trips` | 5 instants, 3 speeds, 2 positions, 4 locations, routes that may end | `SingleActiveTrip`, `TripClock`, `TripsDisjoint`, `MovementIsInATrip`; `ClosedTripsFrozen`, `OnlyIgnitionOffCancels` |
| `idle_while_driving` (violation) | the same without routes | a driving vehicle's trip is ended as idle |
| `rebuild` | 4 instants, 2 speeds, 1 position, 4 locations; 2 jobs and a rebuild over 3 packets of 5 kinds; tracks of 4 locations | `NothingLeftOpen`, `RebuiltHistory`, `RebuildMergesLive`; `JobsRespectTheEngine`; `SummariesAgree` |
| `rebuild_swallows_trips` (violation) | 4 instants, 3 speeds, 3 locations | driving after a closed trip does not start one |
| `ingestion` | 2 requests, 4 packets, 2 commands; 2 clients, 1 publisher and the heartbeat; 1 route of 3 points, 1 assignment, 1 incident | `AnswersAreTrue`, `NoLateDuplicate`, `RegisteredOnce`, `CommandsLeaveInOrder`, `ImplementsLedger`, `RequestsSettle`; `HubKeepsMoving`; `RoutesGetDriven` |
| `logged_delivery` (violation) | the requests, packets and commands of it | a command is logged as delivered and is not |
| `commands` | 1 command, 2 packets, 2 loops and 1 POST that send them, 2 concurrent calls, 3 calls; 2 of packets, tasks and calls at a time | `RowsWellFormed`, `ExecutedOncePerLoop`, `OneVerdictPerLoop`; `NoLateDelivery`, `DeletedStaysDeleted`; `TasksEnd` |
| `queued_forever` (violation) | 2 commands, 2 packets, 1 call | a command created through the API is never delivered |
| `simulator` | 1 twin, 2 overlapping calls, 2 monitors, 4 loops | `RunningTwinHasALoop`, `StoppedLoopsEnd`, `MonitorsEnd`, `StopReturns` |
| `alerts` | 3 jobs (2 at a time), 6 packets, 2 configurations; 3 requests for 2 trips of one key and a path, 2 attempts, 1 restart | `EverythingReported`, `EngineEventsAreNotified`, `SpacedWhenOrderly`; `NoStampede` |
| `assignments` | locations of 2 vehicles over 2 days (a way out, with the way back, or with the next day and the other vehicle), 3 assignments, 1 failed run; 2 vehicles, 2 drivers, 2 desks; 2 requests for a route | `FiguresAddUp`; `DutiesDisjoint`; `RoutesStayApart` |
| `assigned_route_ignored` (violation) | 1 route, 1 assignment, 1 incident | a twin drives its own path and not the assigned route |

What the properties of the composed runs say, beyond their comments in the modules:

- `JobsRespectTheEngine`: jobs that do not overlap do to the tables what `TripEngine` says, failed
  ones nothing; however they overlap, no closed trip is opened again and every trip starts and ends
  at a stored location. Overlapping jobs do lose updates and leave several trips active.
- `SummariesAgree`: stops follow each other inside the trip and none is missed; the summary counts at
  least the packets and overspeeds the engine counted, and the same number when nothing came late; a
  replay keeps both ends and the order and has at most twice `target_max_points` points.
- `EverythingReported`: whatever overlaps, each transition a rule saw between two stored locations
  has a row of its type within five seconds, and each report of the device a row of its code.
  `SpacedWhenOrderly` is the converse, which only orderly jobs keep.
- `NoStampede`: one call per key at a time and none after a success; no lock is left behind.
- `FiguresAddUp`: a location before the checkpoint is counted once and one after it not at all,
  through failures (only rows that became visible behind a run may be missed); reports agree;
  dispatchers are told of critical vehicles. Drivers together have no more kilometres than their vehicles
  by the vehicles' own measure (`Mileage`: from location to location the odometer where both carry it,
  the positions otherwise), on a day on which each vehicle sends its odometer always or never and no
  odometer runs back. Measured by positions alone the drivers can have more: they are credited with the
  odometer, and a road is longer than the line between two locations.
- `DutiesDisjoint`, `RoutesStayApart`: one vehicle per driver, one driver and one route per vehicle, as
  long as requests do not overlap. Overlapping ones can break this in the code, and neither property
  catches that: `hazards` lists it without a property. A completed route never comes back, and was
  completed at its own end unless the twin reported another path, for one of the reasons that the
  property names.
- `ExecutedOncePerLoop`, `OneVerdictPerLoop`: a loop executes a command once and judges it once, so a
  twin with one loop does. Packets that overlap are not excluded: two loops do execute one command twice.
  `NoLateDelivery` is what every sender can rely on: a packet that comes after the delivery was logged
  never gets the command, whatever endpoints and tasks write to its status.
- `CommandsLeaveInOrder`, `NothingLeftOpen` say nothing about a command that two packets mark as sent,
  nor about a cancelled trip that a rebuild turns into a completed one; `hazards` says which property
  covers the first and why none covers the second.
- `HubKeepsMoving`, `RoutesGetDriven`: broadcasts return and dead clients leave; a loaded route is
  driven to its end and completed, unless the vehicle is stopped or the one packet of its end lost.

Why these bounds are enough:

- **Trips.** The instants lie on both sides of every timeout (`EndTimeout` 2, `GapTimeout` 3,
  `MinTripTime` 2), the speeds are parked, creeping and driving, the positions are closer than
  `DriftDist`. Four locations are enough to start, extend, end and restart a trip and to deliver a
  late coordinate after each; nothing in the code counts further. The proofs remove the bounds.
- **Overlapping jobs.** Two jobs and the rebuild are every pair of sessions that conflict; three
  packets allow a trip, its end and a new one. The five kinds of packets start a trip, end it late,
  idle, and restart after a gap.
- **Summaries.** Four locations allow a stop, a location that ends it, and one that comes late; the
  positions are within a stop and out of it.
- **Alerts.** Three jobs, two at a time, allow a row that is committed between the checks of another
  job and a third one after both. The packets differ in what most rules look at; instants 0, 3 and 5
  lie inside and outside of the window.
- **Route cache.** Three requests are a holder, a waiter and a late one; two trips share a key.
- **Hub.** One client may stall while the other goes; every pair of holders of the lock occurs.
- **Daily figures.** The locations hand a vehicle over between drivers, go out and come back with an
  odometer that gains more than the positions tell, cross a day, and carry the counters of the device or
  not, some of them or none; `BackOrOn` leaves out the behaviours that have both the way back and what
  follows it, the next day or the other vehicle. Two jobs make ids visible out of order; one run may fail.
- **Duties and routes.** Two overlapping requests are every conflict; three assignments (two of a
  route) allow a row to be closed twice. In `assignments` paths have one segment, to allow two requests, and
  in `ingestion` the route has two segments, one request, and a power cut.
- **Rebuild.** Four locations allow two live trips, a trip that was closed and not flushed, and a
  location after it; one position makes the duration alone decide a cancellation. Distances enter
  no property of this module.
- **Ingestion.** All conflicts are between two requests: both before the commit, or one after the
  other's. Two commands make order observable. The proofs remove the bounds.
- **Commands.** Every property is about one command; what two commands share is the order in which
  they are fetched, which `ingestion` checks. Two packets allow a second fetch beside another one or
  while a task runs, of either loop or the POST, and a call beside either; the proofs remove this bound.
  Three calls allow a status to be set, set back and deleted under a task.
- **Simulator.** Twins share only the service, whose instructions run through them one after the
  other; one twin shows every interleaving of a loop with the calls and the monitor. Two calls
  overlap with each other and with a monitor that is in a restart; two monitors exist when a start
  overtakes a stop. A twin that does not tick is restarted at most `MaxStuck` = 1 times: each such
  restart can leave one more loop behind, without limit in the code. Four loops are all that the
  instance ever uses (TLC would report a choice from the empty set).

The bounds in guards are the constants named `Max...`: `MaxLocations`, `MaxPackets`, `MaxTrack`,
`MaxCalls`, `MaxStuck`, `MaxRunning`, `MaxOps`, `MaxRestarts`, `MaxJobs`, `MaxFailures`, `MaxDuties`,
`MaxDrivers`, `MaxReleases`, `MaxAssigned`, `MaxIncidents`, and `Busy`, the packets, tasks
and calls of `commands` at a time. (`MaxAttempts` and `MaxPoints` are
settings of the code.) Deadlock is not checked:
all systems stop when nothing arrives any more, which the bounded instances reach.

### Fairness

`ingestion` assumes weak fairness of each request's next statement and of its job; `commands` of
each packet's fetch, delivery and task. The event loop runs every task that is ready, and a
statement returns or raises: asyncio and the database driver give that. A request that waits for
the row lock of another registration is not enabled and needs no fairness; the holder's own commit
or rollback is fair. That the twin keeps sending packets while it runs is its telemetry loop.
Arrival of requests, failures, crashes and calls of the API are not fair: none has to happen. Every
request settles and every task ends under exactly this fairness.

`simulator` assumes strong fairness of each coroutine and each loop: while one coroutine keeps the
event loop no other can step, so a task that is ready is enabled again and again and not always,
and the queue of asyncio serves it in its turn. A bootstrap, a sleep and an update of the database
return.

The hub assumes strong fairness of each endpoint, broadcast and the heartbeat, because they wait for
a lock that is handed over first come first served and for sends that are possible again and again;
and that a stalled client reads on or is closed (`Recover`), which the keep-alive of the server gives.
Clients never have to stall, leave or subscribe. `RouteDriving` assumes that a loop ticks, and that a
job and a request go on, all weakly fair; and strong fairness of `Moves`, a tick that moves the
vehicle: motion is drawn at random in every tick, independently, and a vehicle that may move
does so sometime. Commands, stops, losses and failures are not fair. The runs `trips`, `rebuild`,
`alerts` and `assignments` check safety only.

### Findings

1. **A driving vehicle's trip is ended as idle** (`idle_while_driving`, `trip_engine.py:126`). The
   comment of condition B asks for a low speed for too long; the query looks for the last moving
   location, and the location of the packet itself is not flushed. After a silence longer than
   `TRIP_END_TIMEOUT` (300 s) and shorter than `TRIP_GAP_TIMEOUT` (600 s), the first coordinate at
   driving speed closes the trip.
2. **A rebuild swallows trips** (`rebuild_swallows_trips`, `trip_engine.py:218`). After the
   ignition has closed a trip, the select of the next iteration still returns it, because the close
   is not flushed; driving that follows is added to the closed trip, and `docs/ARCHITECTURE.md:49`
   says a new one is created. `RebuildMergesLive` says what remains true: a rebuild only merges.
   By the same mechanism the final close of a rebuild turns a trip cancelled last into a completed
   one (`trip_engine.py:238`); no document promises otherwise, so it is a hazard and not a finding.
3. **A logged delivery that did not happen** (`logged_delivery`, `telemetry_pipeline.py:103`). The
   log is committed before the answer exists, and there are three ways for it to be wrong. A device
   that posts its telemetry never receives a command, because `VTSResponse` (`schemas/vts.py:60`) has no
   field for it. When the acknowledgement of the commit is lost, the answer is an error; when the
   process stops after the commit, there is none; either way the retry is a duplicate without a command,
   and the command is not fetched again.
4. **Commands of the API stay queued** (`queued_forever`, `routers/device_command.py:158`). The
   endpoint stores `Queued`, the pipeline selects `PENDING`; a comment in
   `scripts/test_command_center.py:51` says the pipeline was updated, and it was not.

5. **A twin does not find its assigned route** (`assigned_route_ignored`, `vehicle_twin.py:85`).
   The constructor imports `SessionLocal` from `app.database`, which does not define it; the
   ImportError is logged, and the twin drives its own path. The same import at `:133` makes it forget
   its last position. Only an assignment made while the twin exists is driven.

What the code does and no document forbids is a hazard and not a finding: the health monitor starts
a twin again that an operator stopped on its own (`simulator_service.py:149`), a bootstrap that
raises leaves a service that says it runs and cannot be started (`:52`), and a stop that a start
overtakes may wait for as long as the service runs, which is why `StopReturns` excepts it.

Met while modelling, of the same kind: a default twin loops and never completes a route
(`SIMULATOR_LOOP_ROUTE`); `planned_routes.status` stays Assigned when telemetry completes the route
(`packet_processor.py:187`); a snapped path with no result logs its usage twice, and the failed row it
leaves makes later requests call again and then fail on the unique key (`routers/route.py:217`); a
client that stalls holds up every broadcast and the telemetry jobs that broadcast
(`websocket_manager.py:76`); a counter that a device uses again makes the decoder drop its reports as
duplicates (`event_decoder.py:62`), and a row for another firmware keeps out the row for other
hardware (`:145`); a
completed route reported late can end a trip before its start while its duration stays
(`packet_processor.py:203`); an eco score that the report gives out of 100 (`reports/builders.py:247`)
exceeds it when a restarted simulator counts its hours from 0 again: once the engine hours have passed
their first value of the day, the idle hours are taken too although their difference is negative
(`driver_stats.py:115`), and `EcoScoreWithoutResets` proves that this is the only way to get there.

Every run that passes also says something a reader might doubt: overlapping deliveries of one
packet are both stored (`NoLateDuplicate` is only about later ones), two packets can fetch the same
command, two loops execute it twice, and a cancelled command that is on its way is executed all the same.

## 4. What is proved

The theorems hold for every value of the constants that the assumptions allow. Each follows from the
inductive invariant of its module by `Init => IInv`, `IInv /\ [Next]_vars => IInv'` (one lemma or step
per action) and `IInv => property`. The invariant is `IInv` in the modules of trips, ingestion and
commands, and `JobsIInv`, `SummaryIInv`, `RouteIInv`, `AlertsIInv`, `DutyIInv`, `DriveIInv`,
`ServiceIInv` in the others; `DailyIInv`, `ToldIInv`, `FiguresIInv`, `ScoresIInv`, `EcoIInv` and
`HandoverIInv` are about the pipeline. TLC checked each of them on the instance of its run before it was
proved.

| Module | Theorems | Assumptions |
|---|---|---|
| `TripEngineProofs` | `TypeCorrect`, `OneOpenTrip`, `CountersAgree`, `NoOverlap`, `NoMovementLost`, `HistoryIsFrozen`, `IdleBranchNeverCancels` | `TripConstants`, `EngineConstants` (types), `CancelWindowBelowIdleTimeout` |
| `TripHistoryProofs` | `RebuildInvariant`, `NoTripIsLost`, `RebuiltTripsFollowEachOther`, `ARebuildOnlyMerges` | `TripConstants`, `RebuildConstants` (types) |
| `TripHistoryProofs` | `JobsInvariant`, `CommittedTripsRest`, `SerialJobsInvariant`, `CommitsRespectTheEngine`, `SerialJobsImplementTheEngine` | `TripConstants`, `JobConstants` (types; the rebuild is none of the jobs) |
| `TripHistoryProofs` | `SummariesTellTheTruth` | `TripConstants`, `SummaryConstants` (types), `ScoreScale` |
| `TelemetryIngestProofs` | `TypeCorrect`, `AnswersStayTrue`, `LateDuplicatesIgnored`, `OneRegistration`, `QueueInOrder`, `LedgerImplemented` | `IngestConstants` (types) |
| `DeviceCommandsProofs` | `TypeCorrect`, `DeliveredOncePerSender`, `VerdictPerLoop`, `DeletedForGood`, `NeverFetchedLate` | `CommandConstants` (types; a finite number of packets, loops and POSTs; no loop is a POST) |
| `SimulatorProofs` | `ServiceInvariant`, `RunningTwinsTick` | `ServiceConstants` (types; calls, monitors and loops are different coroutines) |
| `AssignmentsProofs` | `DutyInvariant`, `DutyTypes`, `DutiesStayDisjoint` | `DutyConstants` (a finite number of requests; types) |
| `AssignmentsProofs` | `DriveInvariant`, `DriveTypes`, `RoutesAreDrivenApart` | `DriveConstants` (types), `PathsLeadSomewhere` |
| `AssignmentsProofs` | `AssignmentsTypes` | those of `DutyConstants`, `DriveConstants`, `DailyConstants` |
| `DailyProofs` | `DailyInvariant`, `LocationsAreCountedOnce`, `DispatchersKnow`, `ReportsAddUp`, `DailyTypes`, `SafetyScoreIsOutOfHundred` | `DailyConstants` (a finite number of locations, vehicles, drivers and assignments; types) |
| `DailyProofs` | `EcoScoreWithoutResets` | `DailyConstants`, `CountersNeverReset` (as a hypothesis) |
| `DailyProofs`, `AssignmentsProofs` | `HandoversAreFair`, `FiguresAlwaysAddUp` | `DailyConstants`; as hypotheses `OdometersRunOn`, `OnePlaceAtATime`, `OneDriverAtATime` |
| `AlertsProofs` | `AlertsInvariant`, `AlertsTypes`, `NothingGoesUnreported`, `NoEventWithoutAlert`, `EventsAreSpaced` | `AlertConstants` (types) |
| `AlertsProofs` | `RouteInvariant`, `RouteTypes`, `RoutesAreAskedOnce` | `RouteConstants` (types; a key is of one kind, a trip has one key) |
| `AlertsProofs` | `AlertsAndRoutesTypes` | those of `AlertConstants`, `RouteConstants` |

- **Trips.** The checked invariants are not inductive: nothing in them says that the open trip is
  the last row, so a step could rewrite an older one. `TripsGood` adds it; then the select has one
  possible answer and every branch changes only the last row. `Chronicle` adds that, while
  locations come in order, no trip ends after the newest timestamp, so the next trip starts after
  all of them. `CancelWindowBelowIdleTimeout` (60 s against `TRIP_END_TIMEOUT`, 300 s by default)
  is an assumption on values that only `IdleBranchNeverCancels` needs: with a smaller
  timeout in the environment the idle branch would cancel short trips.
- **Rebuild.** `Lagging` says what the session that does not flush lets the loop see: the flushed
  row that is active is the newest trip, whatever has been assigned to it since. `Rebuilt` says that
  the trips made so far lie a gap apart and end before the locations that are left; sorting and the
  gap rule keep it. For `RebuildMergesLive`, `Live` describes the trips of live evaluation by the
  locations they start at, go on from and end at, without reference to the steps that made them,
  and `Merged` says that the rebuilt trips have taken in what was evaluated of each live one.
- **Jobs.** `ObjectsOK` says that an object which was loaded or flushed as closed never changes
  again, `WritesOK` that what a session wrote opens no row that is closed now, and `LocksApart`
  that no two sessions wrote or deleted the same row, so that a commit cannot break `WritesOK` of
  another. That gives, for any overlap, that no trip is opened again and that trips rest on stored
  locations. For the refinement, `SerialInv` says what the one open session (`Sole`) holds after
  each statement: between its select and its commit, what `TripEngine` does in one step
  (`Pending`, either `GoesOn` with the newest trip or `StartsNew`). Rows become the sequence of
  `TripEngine` by the place of their ids (`Committed`), and a new id is greater than all there are.
  `SerialJobsImplementTheEngine` assumes `[]serial`, that no two jobs overlap and no rebuild begins:
  what `TripEngine` leaves out. `CommitsRespectTheEngine` needs no assumption: it says it of each
  behaviour up to its first overlap.
- **Summaries.** `SummaryIInv` says that the table is ordered by time and that the counters of the trip
  are at most the locations, fast and slow, of its period: from its start, for its duration. Both
  survive a late location, which shifts the rows after it (`InsideGrows`), and the end that a completed
  route moves, because the duration stays. The rest is about one state: what the summary and the replay
  compute of any ordered table. A window is an interval of the table (`WindowFrames`). A fold is the
  last of its values after each element (`ScanFold`, `SumFold`), and what holds of the first value, and
  of each that follows one of which it holds, holds of the last, since there would be a least
  counterexample (`NoFirstCounterexample`). So a scan for stops keeps (`ScanStopKeeps`): the stops found
  so far lie in the first locations, one after the other, each standstill among them is in one, and the
  points collected since are those of the stop that may be open. `StridesBounded` bounds the points of a
  replay by the quotient that the step is rounded up from. `ScoreScale` assumes something of values: a
  window of fewer than two locations scores 100, which is in the scale of the settings only if these are
  around it (`DRIVING_SCORE_START` 100 and `DRIVING_SCORE_MIN` 0 by default).
- **Ingestion.** `Progress` ties the place of a request in the pipeline to its row, answer and job.
  `Screening` says that past the check no packet known at its arrival is the same: rows are never
  removed, so a stale check stays valid for those. `Registration` allows one uncommitted vehicle,
  none beside a committed one. `Queue` says that all older commands of a fetched one are SENT,
  which other packets can only make truer. `LedgerImplemented` maps each statement to a step of the
  ledger or to none; `Fail` and `FlushConflict` give an error that `Progress` makes true.
- **Commands.** Nothing writes PENDING, so a command with a log or a task cannot be fetched again
  although its status can be anything else (`NotPendingAgain`). All packets that hold it fetched it before
  the first of them committed, and come from different senders, since each waits for its answer
  (`OneAtATime`). `LogsBounded` counts the entries in the log together with the packets that can still add
  one: by sender for SENT, by loop for Executing and the verdicts. Distinct senders bound the count when
  a packet fetches (the packets that hold a command map one to one to them), and from then on each entry
  takes a packet out of it.
- **Driving a route.** `OneRoute` says that, while requests do not overlap, the request that is about
  to insert has marked all rows there are. `OnItsRoute` follows the path from the assignment to the
  twin, its packet and the job, so that the job that completes a row knows the end of that route.
  The lemmas about the tick show that the twin stays on its path whatever is drawn.
- **The service.** A twin that runs has a loop that is not cancelled; if it still remembers a loop,
  that is one of its own. The instructions of a coroutine change only what they name, and those that
  run through all twins (`Each`) are followed to the first twin that still differs, by the least
  number (`LeastNatural`), which takes the place of an induction.
- **Duties.** `ClockCounted` bounds the clock by the stamps that the requests so far may take, which
  is what the type invariant needs; `ClosingsOK` says that a session closes a row with a stamp later
  than the one it was inserted with. `InTurn`: while requests are served one after the other, what a
  session has read is still so (`SessionOK`), and at its commit it closes all active rows of its
  vehicle and of its driver.
- **Daily figures.** `Accounts` says of the committed summaries that they count what lies before the
  cursor (`Booked`, `Complete`) and nothing twice (`NoneTwice`). During a run the same holds of its
  draft: up to the cursor until the stage of the vehicles is done, up to the end of the run after it;
  so a commit moves summaries and cursor together, and a rollback leaves both. Ids are the numbers
  from 1 on (`IdsDrawn`), so every location of the window is new to the account. `ToldIInv` needs
  the order of the stages: when the rows of the dispatchers are made, every vehicle has a
  maintenance row of the day. It holds for any order of registration.
- **Sums.** What a sum over a finite set does is proved without induction: if some subset were a
  counterexample, there would be one of which nothing can be taken away (`NoLeastCounterexample`), and
  taking away one member (`SumElement`) leaves a smaller one. So a sum of sums can be taken in either
  order (`SumSwap`) and members that add 0 can be left out (`SumZeros`), the facts behind `ReportsAddUp`.
- **Reports.** `FiguresIInv` says that for every day the row of the fleet is the sum of the rows of
  the vehicles (`FleetIsSum`). During a run it holds of the draft except for the day of the run between
  the stage of the vehicles and that of the fleet, which comes later whatever the order of
  registration; no stage writes another day. A report adds up either table over the same days.
- **Scores.** `ScoresIInv` says of each row that its scores are in their scale and that the days until
  a service are 1 to 365. The wear of a part is a remainder, so no odometer is too large; the remaining
  distance of the last row gives the odometer of the next, which is why rows must be known to be well
  formed. An average of scores is in the scale because a sum of n scores is at most n times its end
  (`ScoresAtMost`). The eco score needs idle hours that are not negative: `EcoIInv` carries that a
  location has the counters of its packet, and then `CountersNeverReset` orders first and last.
- **Handovers.** A driver is credited with the odometer when there is one and with the positions
  otherwise (`Distance`), and the vehicle is measured in the same way (`Mileage`). The mark of a location
  is what the device says it has driven, or the position without an odometer, and the `Trail` of a set of
  locations is what the marks move from one to the next: for a vehicle with an odometer its gain, however
  often it turns back, and for one without it the path. `HandoverIInv` says that a row of a driver has at
  most the trails of his duties. It is inductive although telemetry keeps arriving for days that have
  rows, because a location more makes no trail shorter (`OneMoreLocation`: it divides a step, or lies
  beyond the ends). A duty takes consecutive locations of the day of its vehicle, so its steps are steps of
  that day (`DutySteps`), and two duties share one only at the instant of the handover, where nothing
  moves (`OneDutyMoves`). Summing over steps instead of duties (`SumSwap`) gives `HandoversOfVehicle`, and
  grouping the assignments by driver and by vehicle (`SumOfClasses`) the theorem. The hypotheses:
  `OneDriverAtATime` is what `DutiesStayDisjoint` proves of the assignments while requests do not
  overlap; `OnePlaceAtATime` says that a device has one position at an instant; `OdometersRunOn`
  that on a day a vehicle sends an odometer always or never, and that it does not run back. The last is
  needed: a day that mixes both kinds of locations is measured by the odometer from one end to the other
  for one duty and by positions for the next, and an odometer that is reset gives a negative distance to
  one driver. The instance of `assignments` satisfies all three, with a vehicle that comes back to where
  it was.
- **Side by side.** A behaviour of a composed instance is one of each of its parts, because a step of
  one leaves the variables of the others alone (`SideBySide...`); so what is proved of a part holds in
  the instance. `AssignmentsTypes` and `AlertsAndRoutesTypes` state it for the type invariants.
- **Alerts.** `JobsKeepUp` carries what a rule saw from the step that decides it to the commit: a row
  near it is stored, or among those that the job will store. `Orderly` is for the converse: without
  overlap one job runs, its packet is the latest, and so the latest row of a type is the one that
  silences it.
- **Route cache.** `LocksRegistered` says that a request under a lock is in the queue of the lock the
  registry has for its key, so two holders of a key would head one queue; `QueuesInOrder` that those
  behind the head have done nothing yet; and the answer of the second look stays true until the row
  is saved (`LookStillTrue`), because only the head writes it.

Only model-checked is liveness (`RequestsSettle`, `TasksEnd`, `HubKeepsMoving`, `RoutesGetDriven`,
`StoppedLoopsEnd`, `MonitorsEnd`, `StopReturns`): fairness and ENABLED are beyond the prover. Every
safety invariant and every action property of the runs that pass is stated by a theorem.

## 5. What is not modelled, and the plan

Left out for good: engine, fuel and gears of the simulator (floating-point models that act on nothing
else), exports and formatting, health and operations endpoints (read-only), wiring and migrations,
scripts and the standalone simulator (development tools), the dashboard (it renders what the API
returns), and code that nothing calls: the endpoints of `crud/device_command.py`, the functions of
`crud/route_cache.py`, `process_vts_telemetry` of `crud/location.py`.

Left out of components that are modelled in part: `last_seen` and status snapshots of a vehicle, the
averages of a summary, the registration of vehicles by the bootstrap of the simulator, the metrics
and the queues of a twin. None of them decides what another step does.

What is left to do: the lock of `WebSocketHub` as an invariant of its own.
