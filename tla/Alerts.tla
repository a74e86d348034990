------------------------------- MODULE Alerts -------------------------------
(***************************************************************************)
(* Events and notifications.  A telemetry job of packet_processor reads    *)
(* the latest location of the vehicle, stores its own, lets the decoder    *)
(* (services/event_decoder) and then the transition rules                  *)
(* (services/event_engine) add rows to the table events, evaluates the     *)
(* notification rules on the rows of the engine, and commits all of it in  *)
(* one transaction.  Jobs of a vehicle overlap: a SELECT sees the          *)
(* committed rows and the rows its own session flushed.  Both duplicate    *)
(* checks and the choice of the previous location are such SELECTs.        *)
(* Speeds, voltages and percentages are in tenths, times in seconds.       *)
(***************************************************************************)
EXTENDS Integers, FiniteSets, Sequences

CONSTANTS
  Jobs,           \* the telemetry jobs of one vehicle
  Packets,        \* packets: records [at, msgid, reading]
  Times,          \* instants of the clock of the server
  Configs,        \* rows of device_configs, NoConfig included
  NoConfig,
  NoReading,
  MaxRunning,     \* bound: jobs of the vehicle that run at a time
  MaxOps          \* bound: requests of operators

None == -1        \* a field that the packet does not carry

ASSUME AlertConstants ==
  /\ Times \subseteq Nat /\ 0 \in Times
  /\ \A p \in Packets : /\ p.at \in Nat /\ p.msgid \in Nat \cup {None}
                         /\ p.reading # NoReading
  /\ NoConfig \in Configs
  /\ MaxOps \in Nat

VARIABLES
  now,            \* clock of the server; it advances when a job starts
  config,         \* row of device_configs of the vehicle
  locations,      \* committed locations, with the pair the rules compared
  events,         \* committed rows of events
  notes,          \* committed rows of notification_histories
  job,            \* each job: its packet, its next step, its uncommitted rows
  orderly,        \* history: no job overlapped another or came out of order
  ops             \* requests of operators so far

vars == <<now, config, locations, events, notes, job, orderly, ops>>

Open == {"fetched", "decoded", "detected", "notified"}

Gap(a, b) == IF a > b THEN a - b ELSE b - a

\* The window of both duplicate checks: less than 5 seconds apart.
Near(a, b) == Gap(a, b) < 5

-----------------------------------------------------------------------------
(***************************************************************************)
(* The rules of event_engine: which transitions p -> c they report.        *)
(***************************************************************************)
Turn(p, c) == LET d == Gap(p.dir, c.dir)
              IN  IF d > 180 THEN 360 - d ELSE d

Known(p, c, f) == p[f] # None /\ c[f] # None

\* Without a direction the rule of the turn raises, which is only logged.
Driven(p, c) ==
  { r \in {"Ignition On", "Ignition Off", "Vehicle Started", "Vehicle Stopped",
           "Overspeed", "Harsh Braking", "Harsh Acceleration", "Sharp Turn"} :
      \/ r = "Ignition On"  /\ p.ign = 0 /\ c.ign = 1
      \/ r = "Ignition Off" /\ p.ign = 1 /\ c.ign = 0
      \/ r = "Vehicle Started" /\ p.speed <= 1 /\ c.speed > 1 /\ c.ign = 1
      \/ r = "Vehicle Stopped" /\ p.speed > 1 /\ c.speed <= 1
      \/ r = "Overspeed" /\ p.speed <= 1000 /\ c.speed > 1000
      \/ r = "Harsh Braking" /\ c.speed < p.speed
         /\ (p.speed - c.speed > 150 \/ c.txn = "S")
      \/ r = "Harsh Acceleration" /\ c.speed > p.speed
         /\ (c.speed - p.speed > 100 \/ c.txn = "P")
      \/ r = "Sharp Turn" /\ Known(p, c, "dir")
         /\ Turn(p, c) > 45 /\ c.speed > 200 }

Supplied(p, c) ==
  { r \in {"Power Failure", "Power Restored", "Low Battery", "Low Fuel"} :
      \/ r = "Power Failure"  /\ p.main = 1 /\ c.main = 0
      \/ r = "Power Restored" /\ p.main = 0 /\ c.main = 1
      \/ r = "Low Battery" /\ Known(p, c, "volt") /\ p.volt >= 36 /\ c.volt < 36
      \/ r = "Low Fuel" /\ Known(p, c, "pct") /\ p.pct >= 100 /\ c.pct < 100 }

Monitored(p, c) ==
  { r \in {"GPS Lost", "GPS Restored", "Engine Over Temperature"} :
      \/ r = "GPS Lost"     /\ p.fix = "A" /\ c.fix = "V"
      \/ r = "GPS Restored" /\ p.fix = "V" /\ c.fix = "A"
      \/ r = "Engine Over Temperature" /\ Known(p, c, "temp")
         /\ p.temp <= 980 /\ c.temp > 980 }

\* A service is due every 10 000 km; the odometer counts metres.
Milestone(odo) == odo \div 10000000

Serviced(p, c) ==
  { r \in {"Refueling Started", "Refueling Completed", "Maintenance Due"} :
      \/ r = "Refueling Started" /\ Known(p, c, "fuel") /\ c.fuel - p.fuel > 30
      \/ r = "Refueling Completed" /\ Known(p, c, "fuel")
         /\ p.ign = 0 /\ c.ign = 1 /\ c.fuel > p.fuel + 50
      \/ r = "Maintenance Due" /\ Known(p, c, "odo")
         /\ Milestone(c.odo) > Milestone(p.odo) }

Firings(p, c) ==
  IF p = NoReading THEN {}
  ELSE Driven(p, c) \cup Supplied(p, c) \cup Monitored(p, c) \cup Serviced(p, c)

\* The event types a notification rule matches; each rule has its own title.
Notified == {"Overspeed", "Low Fuel", "Low Battery", "Engine Over Temperature",
             "GPS Lost", "Power Failure", "Vehicle Offline", "Maintenance Due",
             "Refueling Completed"}

\* TXN_EVENT_MAPPING of the decoder, by the reason code of the packet.
TxnEvent ==
  [A |-> "Vehicle Moving", B |-> "Overspeed", C |-> "Speed Normal",
   D |-> "Speed Limit Exceeded", E |-> "Vehicle Stopped", F |-> "Motion Start",
   G |-> "Motion Stop", J |-> "Ignition Changed", K |-> "Device Open",
   L |-> "Power Changed", M |-> "Harsh Turn", N |-> "SOS",
   O |-> "Digital Input Changed", P |-> "Over Acceleration",
   Q |-> "Parameter Changed", R |-> "Parameter Query", S |-> "Harsh Brake",
   T |-> "Immobilizer Event", U |-> "GPS Status Event",
   V |-> "Temperature Alert", W |-> "New ID Detected", X |-> "Geofence Event",
   Y |-> "Trip Event", Z |-> "Firmware Update Event"]

-----------------------------------------------------------------------------
(***************************************************************************)
(* The decoder.                                                            *)
(***************************************************************************)
\* The alerts that decode_and_save_event asks for, in the order of its checks.
Candidates(j) ==
  LET r == job[j].reading
      mapped == IF r.txn \in DOMAIN TxnEvent
                THEN <<[txn |-> r.txn, type |-> TxnEvent[r.txn]]>> ELSE <<>>
      ask(cond, t, type) == IF cond THEN <<[txn |-> t, type |-> type]>> ELSE <<>>
  IN  IF config = NoConfig THEN mapped
      ELSE mapped
        \o ask(config.firmware # r.firmware, "Q", "Firmware Mismatch")
        \o ask(config.hardware # r.hardware, "Q", "Hardware Mismatch")
        \o ask(config.limit # None /\ r.speed > config.limit
                 /\ r.txn \notin {"B", "D"}, "D", "Overspeed Alert")

Event(j, type, txn, msgid, at, by) ==
  [job |-> j, type |-> type, txn |-> txn, msgid |-> msgid, at |-> at, by |-> by]

\* trigger_system_event keeps one row for (vehicle, txn, msgid), if there is a
\* msgid; its rows take the time of the server.  (FaultDecoded compares the
\* msgid alone.)
FaultDecoded(j) ==
  LET c == Candidates(j)
      m == job[j].msgid
      taken(i) == /\ m # None
                  /\ \/ \E e \in events : e.msgid = m
                     \/ \E k \in 1 .. i - 1 : c[k].txn = c[i].txn
  IN  { Event(j, c[i].type, c[i].txn, m, now, "decoder") :
          i \in {k \in DOMAIN c : ~taken(k)} }

Decoded(j) ==
  LET c == Candidates(j)
      m == job[j].msgid
      taken(i) == /\ m # None
                  /\ \/ \E e \in events : e.txn = c[i].txn /\ e.msgid = m
                     \/ \E k \in 1 .. i - 1 : c[k].txn = c[i].txn
  IN  { Event(j, c[i].type, c[i].txn, m, now, "decoder") :
          i \in {k \in DOMAIN c : ~taken(k)} }

(***************************************************************************)
(* The engine and the notifications.                                       *)
(***************************************************************************)
\* _is_duplicate of both: only the latest row of that kind counts.
\* (FaultRepeats compares the instants, not the window.)
FaultRepeats(rows, at) == \E e \in rows : e.at = at

Repeats(rows, at) ==
  \E e \in rows : /\ \A f \in rows : f.at <= e.at
                  /\ Near(at, e.at)

OfType(rows, type) == {e \in rows : e.type = type}

\* The rows of the rules that fired, one per type; the Fault operators look for
\* any recent row instead of one of the same type or title.
FaultDetected(j) ==
  { Event(j, type, "-", None, job[j].at, "engine") :
      type \in { t \in Firings(job[j].prev, job[j].reading) :
                   ~Repeats(events \cup job[j].rows, job[j].at) } }

Detected(j) ==
  { Event(j, type, "-", None, job[j].at, "engine") :
      type \in { t \in Firings(job[j].prev, job[j].reading) :
                   ~Repeats(OfType(events \cup job[j].rows, t), job[j].at) } }

FaultAlerted(j) ==
  { [job |-> j, type |-> e.type, at |-> e.at, flags |-> {}] :
      e \in { x \in job[j].rows : /\ x.by = "engine"
                                  /\ x.type \in Notified
                                  /\ ~Repeats(notes, x.at) } }

Alerted(j) ==
  { [job |-> j, type |-> e.type, at |-> e.at, flags |-> {}] :
      e \in { x \in job[j].rows : /\ x.by = "engine"
                                  /\ x.type \in Notified
                                  /\ ~Repeats(OfType(notes, x.type), x.at) } }

-----------------------------------------------------------------------------
Idle == [pc |-> "idle", at |-> 0, msgid |-> None, reading |-> NoReading,
         prev |-> NoReading, rows |-> {}, alerts |-> {}, over |-> FALSE]

Init ==
  /\ now = 0
  /\ config \in Configs
  /\ locations = {}
  /\ events = {}
  /\ notes = {}
  /\ job = [j \in Jobs |-> Idle]
  /\ orderly = TRUE
  /\ ops = 0

Latest == {l \in locations : \A k \in locations : k.at <= l.at}

Running == {j \in Jobs : job[j].pc \in Open}

\* The job of a packet (of any timestamp: device clocks are not those of the
\* server) selects the previous location and adds its own to the session.
Fetch(j) ==
  /\ job[j].pc = "idle"
  /\ Cardinality(Running) < MaxRunning
  /\ \E k \in Packets,
       p \in IF locations = {} THEN {NoReading} ELSE {l.reading : l \in Latest} :
       /\ job' = [job EXCEPT ![j] = [Idle EXCEPT !.pc = "fetched", !.prev = p, !.at = k.at,
                                  !.msgid = k.msgid, !.reading = k.reading]]
       /\ orderly' = (orderly /\ Running = {} /\ \A l \in locations : l.at <= k.at)
  /\ now' \in {t \in Times : t >= now}
  /\ UNCHANGED <<config, locations, events, notes, ops>>

Decode(j) ==
  /\ job[j].pc = "fetched"
  /\ job' = [job EXCEPT ![j].pc = "decoded", ![j].rows = Decoded(j),
                        ![j].over = /\ config # NoConfig
                                    /\ config.limit # None
                                    /\ job[j].reading.speed > config.limit]
  /\ UNCHANGED <<now, config, locations, events, notes, orderly, ops>>

Detect(j) ==
  /\ job[j].pc = "decoded"
  /\ job' = [job EXCEPT ![j].pc = "detected", ![j].rows = @ \cup Detected(j)]
  /\ UNCHANGED <<now, config, locations, events, notes, orderly, ops>>

Notify(j) ==
  /\ job[j].pc = "detected"
  /\ job' = [job EXCEPT ![j].pc = "notified", ![j].alerts = Alerted(j)]
  /\ UNCHANGED <<now, config, locations, events, notes, orderly, ops>>

Commit(j) ==
  /\ job[j].pc = "notified"
  /\ locations' = locations \cup
       {[job |-> j, at |-> job[j].at, prev |-> job[j].prev, over |-> job[j].over,
         msgid |-> job[j].msgid, reading |-> job[j].reading]}
  /\ events' = events \cup job[j].rows
  /\ notes' = notes \cup job[j].alerts
  /\ job' = [job EXCEPT ![j] = [Idle EXCEPT !.pc = "done"]]
  /\ UNCHANGED <<now, config, orderly, ops>>

\* A statement fails and the session rolls back, or the process ends: the job
\* is not repeated.
Abort(j) ==
  /\ job[j].pc \in Open
  /\ job' = [job EXCEPT ![j] = [Idle EXCEPT !.pc = "done"]]
  /\ UNCHANGED <<now, config, locations, events, notes, orderly, ops>>

Operator == ops < MaxOps /\ ops' = ops + 1

\* PATCH /notifications/{id}/acknowledge and /resolve.
Handle(n, flag) ==
  /\ flag \notin n.flags
  /\ Operator
  /\ notes' = (notes \ {n}) \cup {[n EXCEPT !.flags = @ \cup {flag}]}
  /\ UNCHANGED <<now, config, locations, events, job, orderly>>

\* The device_config endpoints: create, update and delete.
Configure(c) ==
  /\ config # c
  /\ Operator
  /\ config' = c
  /\ UNCHANGED <<now, locations, events, notes, job, orderly>>

Next ==
  \/ \E j \in Jobs : \/ Fetch(j) \/ Decode(j) \/ Detect(j)
                     \/ Notify(j) \/ Commit(j) \/ Abort(j)
  \/ \E n \in notes, flag \in {"acknowledged", "resolved"} : Handle(n, flag)
  \/ \E c \in Configs : Configure(c)

Spec == Init /\ [][Next]_vars
-----------------------------------------------------------------------------
TypeOK ==
  /\ now \in Times /\ ops \in 0 .. MaxOps /\ config \in Configs /\ orderly \in BOOLEAN
  /\ \A e \in events : e.at \in Nat /\ e.by \in {"engine", "decoder"}
  /\ \A n \in notes : n.type \in Notified /\ n.at \in Nat
  /\ \A j \in Jobs : job[j].pc \in Open \cup {"idle", "done"}

\* Whatever jobs overlap and in whatever order packets come, a transition that
\* a rule of the engine saw between two stored locations is in the table: the
\* duplicate check only swallows it next to a row of its own type.
FiringsAreReported ==
  \A l \in locations : \A t \in Firings(l.prev, l.reading) :
    \E e \in events : e.type = t /\ Near(e.at, l.at)

\* The two duplicate checks agree: an event of the engine that has a
\* notification rule is never stored without an alert close to it, even when
\* another job commits its event between the two checks.
EngineEventsAreNotified ==
  \A e \in events :
    e.by = "engine" /\ e.type \in Notified
      => \E n \in notes : n.type = e.type /\ Near(n.at, e.at)

\* What the device itself reports with a stored packet, and a speed over the
\* limit that was configured when its job looked, is in the table under the
\* counter of the packet.
DeviceReportsKept ==
  \A l \in locations :
    LET rows == {e \in events : e.by = "decoder" /\ e.msgid = l.msgid}
    IN  /\ l.reading.txn \in DOMAIN TxnEvent
             => \E e \in rows : e.txn = l.reading.txn
        /\ l.over => \E e \in rows : e.txn \in {"B", "D"}

\* Nothing the device reports or a rule of the engine sees is left out.
EverythingReported == FiringsAreReported /\ DeviceReportsKept

\* While the jobs of the vehicle neither overlap nor run out of order, the
\* engine keeps its rows of one type 5 seconds apart.  (The types the decoder
\* uses as well are exempt: its rows carry the clock of the server and can
\* hide the engine's latest row from the check.)
SpacedWhenOrderly ==
  orderly =>
    \A e, f \in events :
      /\ e.by = "engine" /\ f.by = "engine" /\ e # f
      /\ e.type = f.type
      /\ \A t \in DOMAIN TxnEvent : TxnEvent[t] # e.type
      => ~Near(e.at, f.at)
=============================================================================
