----------------------------- MODULE DriverDuty -----------------------------
(***************************************************************************)
(* Staff and the vehicles they are assigned to: app/crud/driver.py.        *)
(*                                                                         *)
(* Every function is a session of its own.  It reads with one statement    *)
(* after the other, keeps what it changes in its identity map (no session  *)
(* flushes by itself) and writes it when it commits, by primary key: a row *)
(* that another session changed in the meantime is overwritten, and one    *)
(* that is gone raises.  An exception rolls the session back.              *)
(***************************************************************************)
EXTENDS Integers, FiniteSets

CONSTANTS
  Cars, Staff,
  Desks,          \* requests that are served at the same time
  NoTime,         \* released_at of an assignment that was not released
  MaxDuties,      \* bound on the calls of create_assignment
  MaxDrivers,     \* bound on how often drivers and vehicles are changed
  MaxReleases     \* bound on the calls of release_assignment

ASSUME DutyConstants ==
  /\ IsFiniteSet(Desks)
  /\ NoTime \notin Nat
  /\ MaxDuties \in Nat /\ MaxReleases \in Nat

VARIABLES
  staff,          \* per driver: his status, "absent" before, "deleted" after
  barred,         \* the vehicles that are Disabled or Archived
  duties,         \* the rows of driver_assignments
  desk,           \* per request: how far it is, and what its session holds
  clock,          \* datetime.now: no two stamps are equal
  inserts, edits, releases,   \* what the bounds count
  overlapped      \* history: some request began before another one had ended

dutyVars == <<staff, barred, duties, desk, clock, inserts, edits, releases, overlapped>>

NoRequest == [at |-> "idle"]

Employed(d) == staff[d] \notin {"absent", "deleted"}

OfVehicle(v) == {a \in duties : a.status = "Active" /\ a.vehicle = v}
OfDriver(d)  == {a \in duties : a.status = "Active" /\ a.driver = d}
Ids(rows)    == {a.id : a \in rows}

DutyInit ==
  /\ staff \in [Staff -> {"absent", "ACTIVE"}]
  /\ barred = {}
  /\ duties = {}
  /\ desk = [k \in Desks |-> NoRequest]
  /\ clock = 0
  /\ inserts = 0 /\ edits = 0 /\ releases = 0
  /\ overlapped = FALSE

-----------------------------------------------------------------------------
Take(k, state) ==
  /\ desk[k] = NoRequest
  /\ desk' = [desk EXCEPT ![k] = state]
  /\ overlapped' = (overlapped \/ \E j \in Desks \ {k} : desk[j] # NoRequest)

End(k) == desk' = [desk EXCEPT ![k] = NoRequest]

(***************************************************************************)
(* create_driver, update_driver and the status of a vehicle: one row each. *)
(* A vehicle is disabled or archived by app/crud/vehicle.py, and the next  *)
(* packet it sends makes it Moving or Idle again.  The duplicate checks of *)
(* a new driver are about other columns.                                   *)
(***************************************************************************)
CreateDriver(d) ==
  /\ staff[d] = "absent"
  /\ edits < MaxDrivers
  /\ \E status \in {"ACTIVE", "SUSPENDED"} : staff' = [staff EXCEPT ![d] = status]
  /\ edits' = edits + 1
  /\ UNCHANGED <<barred, duties, desk, clock, inserts, releases, overlapped>>

\* Nobody ends the duty of a driver who is suspended.
UpdateDriver(d) ==
  /\ Employed(d)
  /\ edits < MaxDrivers
  /\ \E status \in {"ACTIVE", "SUSPENDED"} \ {staff[d]} :
       staff' = [staff EXCEPT ![d] = status]
  /\ edits' = edits + 1
  /\ UNCHANGED <<barred, duties, desk, clock, inserts, releases, overlapped>>

SetStatus(v) ==
  /\ edits < MaxDrivers
  /\ barred' = IF v \in barred THEN barred \ {v} ELSE barred \cup {v}
  /\ edits' = edits + 1
  /\ UNCHANGED <<staff, duties, desk, clock, inserts, releases, overlapped>>

(***************************************************************************)
(* delete_driver loads the assignments with the driver and deletes these   *)
(* rows and the driver; the foreign key (ON DELETE CASCADE) deletes those  *)
(* that were inserted since.                                               *)
(***************************************************************************)
DeleteDriver(d) ==
  /\ Employed(d)
  /\ edits < MaxDrivers
  /\ staff' = [staff EXCEPT ![d] = "deleted"]
  /\ duties' = {a \in duties : a.driver # d}
  /\ edits' = edits + 1
  /\ UNCHANGED <<barred, desk, clock, inserts, releases, overlapped>>

-----------------------------------------------------------------------------
(***************************************************************************)
(* create_assignment: vehicle, driver, active assignments of the vehicle,  *)
(* active assignments of the driver, commit.                               *)
(***************************************************************************)
CheckVehicle(k, v, d) ==
  /\ inserts < MaxDuties
  /\ v \notin barred
  /\ Take(k, [at |-> "driver", vehicle |-> v, driver |-> d])
  /\ inserts' = inserts + 1
  /\ UNCHANGED <<staff, barred, duties, clock, edits, releases>>

CheckDriver(k) ==
  /\ desk[k].at = "driver"
  /\ IF staff[desk[k].driver] = "ACTIVE"
     THEN desk' = [desk EXCEPT ![k].at = "vehicle duties"]
     ELSE End(k)
  /\ UNCHANGED <<staff, barred, duties, clock, inserts, edits, releases, overlapped>>

\* closing: the rows of the session, Completed and released at a time.
CloseForVehicle(k) ==
  /\ desk[k].at = "vehicle duties"
  /\ clock' = clock + 1
  /\ desk' = [desk EXCEPT ![k] =
       [at |-> "driver duties", vehicle |-> @.vehicle, driver |-> @.driver,
        closing |-> [i \in Ids(OfVehicle(@.vehicle)) |-> clock']]]
  /\ UNCHANGED <<staff, barred, duties, inserts, edits, releases, overlapped>>

\* Definitions named Fault... are seeded faults of the definition after them.
FaultCloseForDriver(k) ==
  /\ desk[k].at = "driver duties"
  /\ clock' = clock + 1
  /\ desk' = [desk EXCEPT ![k].at = "commit"]
  /\ UNCHANGED <<staff, barred, duties, inserts, edits, releases, overlapped>>

\* The rows of the database are still Active, those of the session are not: the
\* release of one that both statements find is stamped again.
CloseForDriver(k) ==
  /\ desk[k].at = "driver duties"
  /\ clock' = clock + 1
  /\ LET found == Ids(OfDriver(desk[k].driver))
         held  == desk[k].closing
     IN  desk' = [desk EXCEPT ![k].at = "commit",
           ![k].closing = [i \in DOMAIN held \cup found |->
                             IF i \in found THEN clock' ELSE held[i]]]
  /\ UNCHANGED <<staff, barred, duties, inserts, edits, releases, overlapped>>

Closed(rows, closing) ==
  {IF a.id \in DOMAIN closing
   THEN [a EXCEPT !.status = "Completed", !.to = closing[a.id]] ELSE a : a \in rows}

CommitDuty(k) ==
  /\ desk[k].at = "commit"
  /\ clock' = clock + 1
  /\ LET held == desk[k].closing
         new  == [id |-> clock', vehicle |-> desk[k].vehicle,
                  driver |-> desk[k].driver, from |-> clock', to |-> NoTime,
                  status |-> "Active"]
         kept == DOMAIN held \subseteq Ids(duties) /\ Employed(new.driver)
     IN  duties' = IF kept THEN Closed(duties, held) \cup {new} ELSE duties
  /\ End(k)
  /\ UNCHANGED <<staff, barred, inserts, edits, releases, overlapped>>

(***************************************************************************)
(* release_assignment closes the first row it finds.                       *)
(***************************************************************************)
FindDuty(k, v) ==
  /\ releases < MaxReleases
  /\ releases' = releases + 1
  /\ \E a \in OfVehicle(v) :
       /\ clock' = clock + 1
       /\ Take(k, [at |-> "release", closing |-> [i \in {a.id} |-> clock']])
  /\ UNCHANGED <<staff, barred, duties, inserts, edits>>

ReleaseDuty(k) ==
  /\ desk[k].at = "release"
  /\ duties' = Closed(duties, desk[k].closing)
  /\ End(k)
  /\ UNCHANGED <<staff, barred, clock, inserts, edits, releases, overlapped>>

-----------------------------------------------------------------------------
DutyNext ==
  \/ \E d \in Staff : CreateDriver(d) \/ UpdateDriver(d) \/ DeleteDriver(d)
  \/ \E v \in Cars : SetStatus(v)
  \/ \E k \in Desks :
       \/ \E v \in Cars, d \in Staff : CheckVehicle(k, v, d)
       \/ \E v \in Cars : FindDuty(k, v)
       \/ CheckDriver(k) \/ CloseForVehicle(k) \/ CloseForDriver(k)
       \/ CommitDuty(k) \/ ReleaseDuty(k)

DutySpec == DutyInit /\ [][DutyNext]_dutyVars

-----------------------------------------------------------------------------
Stamps == 0..(3 * MaxDuties + MaxReleases)
DutyRow == [id : Stamps, vehicle : Cars, driver : Staff, from : Stamps,
         to : Stamps \cup {NoTime}, status : {"Active", "Completed"}]

\* Rows, driver states and the clock are in their domains; an assignment refers
\* to a driver who exists (the foreign key of app/models/driver_assignment.py).
DutyTypeOK ==
  /\ staff \in [Staff -> {"absent", "ACTIVE", "SUSPENDED", "deleted"}]
  /\ barred \subseteq Cars
  /\ duties \subseteq DutyRow
  /\ \A a \in duties : Employed(a.driver)
  /\ clock \in Stamps
  /\ overlapped \in BOOLEAN

\* a ended before b began
Before(a, b) == a.to # NoTime /\ a.to <= b.from

\* No vehicle has two drivers and no driver two vehicles at a time: as long as
\* requests were served one after the other, two assignments of a vehicle or of
\* a driver do not overlap, through any mix of assignments, releases, suspended
\* and deleted drivers.  Requests that overlap only keep that a
\* closed assignment has its release, and that it ended after it began.
DutiesDisjoint ==
  /\ \A a \in duties : /\ a.status = "Active" <=> a.to = NoTime
                       /\ a.to # NoTime => a.from < a.to
  /\ overlapped \/ \A a, b \in duties :
       a # b /\ (a.vehicle = b.vehicle \/ a.driver = b.driver)
         => Before(a, b) \/ Before(b, a)
=============================================================================
