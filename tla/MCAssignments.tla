--------------------------- MODULE MCAssignments ---------------------------
(***************************************************************************)
(* Who drove which vehicle where, and what the day's figures say of it:    *)
(* the analytics pipeline with the reports on its summaries, and the       *)
(* assignments of drivers and of planned routes.  Their states are apart   *)
(* (the pipeline sees assignments that do not change), so that a behaviour *)
(* exercises one of them, which focus names.                               *)
(***************************************************************************)
EXTENDS DailyReports, DriverDuty, MCRouteDriving

VARIABLE focus

Parked == [vehicle |-> 1, time |-> 600, pos |-> 0, speed |-> 0, ign |-> 0,
           fuel |-> None, odo |-> None, rpm |-> 0, engine |-> None,
           driving |-> None, idle |-> None, alerts |-> {}, flags |-> {}]

\* A vehicle that is handed over at 605 on its way out and back, and used on the
\* next day as well, with the devices counters or without; another one that needs
\* attention.
MCPackets ==
  { [Parked EXCEPT !.ign = 1, !.odo = 9990000, !.fuel = 300, !.engine = 10,
                   !.driving = 4, !.idle = 6],
    [Parked EXCEPT !.time = 605, !.pos = 4000, !.speed = 500, !.ign = None,
                   !.odo = 9996000, !.rpm = 4000, !.fuel = 290, !.engine = 15,
                   !.idle = 7, !.alerts = {"Harsh Acceleration", "Power Failure"}],
    [Parked EXCEPT !.time = 611, !.pos = 1000, !.speed = 400, !.odo = 9999000],
    [Parked EXCEPT !.time = 1450, !.pos = 6000, !.speed = 300],
    [Parked EXCEPT !.vehicle = 2, !.time = 640, !.ign = 1, !.speed = 20,
                   !.engine = 40, !.driving = 30, !.idle = 10,
                   !.flags = {"overheat"}, !.alerts = {"Engine Over Temperature"}] }

MCAssignments ==
  { [id |-> 1, driver |-> "d1", vehicle |-> 1, from |-> 0, to |-> 605],
    [id |-> 2, driver |-> "d2", vehicle |-> 1, from |-> 605, to |-> None],
    [id |-> 3, driver |-> "d1", vehicle |-> 2, from |-> 606, to |-> None] }

MCRegistered == <<"operations", "fleet", "maintenance", "driver", "vehicle">>

MCInit ==
  /\ DailyInit /\ DutyInit /\ DriveInit
  /\ focus \in {"daily", "drivers", "routes"}
  /\ focus # "drivers" => staff = [d \in Staff |-> "ACTIVE"]

\* Bound: a behaviour has the way back of the first vehicle, or its next day and
\* the other vehicle.
BackOrOn ==
  LET times == {l.time : l \in pending \cup locations}
  IN  611 \in times => times \subseteq {600, 605, 611}

MCNext ==
  \/ focus = "daily" /\ DailyNext /\ BackOrOn' /\ UNCHANGED <<dutyVars, driveVars, focus>>
  \/ focus = "drivers" /\ DutyNext /\ UNCHANGED <<dailyVars, driveVars, focus>>
  \/ focus = "routes" /\ DriveNext /\ UNCHANGED <<dailyVars, dutyVars, focus>>

MCSpec == MCInit /\ [][MCNext]_<<dailyVars, dutyVars, driveVars, focus>>

\* What belongs to another component than the one in focus does not change.
MCTypeOK ==
  /\ focus = "daily" => DailyTypeOK
  /\ focus = "drivers" => DutyTypeOK
  /\ focus = "routes" => DriveTypeOK

\* DailyFiguresAddUp, evaluated where the figures change.
FiguresAddUp == focus = "daily" => DailyFiguresAddUp
=============================================================================
