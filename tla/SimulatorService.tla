-------------------------- MODULE SimulatorService --------------------------
(***************************************************************************)
(* The life of the simulated vehicles: start, stop, restart and the health *)
(* monitor of app/services/simulator/simulator_service.py, start and stop  *)
(* of app/services/simulator/vehicle_twin.py and the telemetry loop they   *)
(* control, called by the endpoints of app/routers/simulator.py.           *)
(*                                                                         *)
(* Every API call and every monitor is a coroutine: todo is what it still  *)
(* has to do, and it keeps the event loop until what comes next has to     *)
(* wait.  The writes of update_db_status and the bootstrap of vehicles and *)
(* paths are awaits here: what they store is read by other parts.          *)
(***************************************************************************)
EXTENDS Integers, Sequences

CONSTANTS
  Uids,           \* settings.SIMULATOR_DEVICE_UIDS
  Calls,          \* API calls that run at the same time
  Monitors,       \* tasks that run _health_monitor_loop
  Loops,          \* tasks that run _run_loop
  None,
  FirstMonitor,   \* the task of the monitor that the lifespan started
  FirstLoops,     \* and the tasks of the twins
  MaxCalls,       \* bound on the number of API calls
  MaxStuck        \* bound on how often a twin is found not to tick

ASSUME ServiceConstants ==
  /\ Uids \in Seq({Uids[i] : i \in DOMAIN Uids})
  /\ Calls \cap Monitors = {} /\ Loops \cap (Calls \cup Monitors) = {}
  /\ None \notin Calls \cup Monitors \cup Loops \cup {Uids[i] : i \in DOMAIN Uids}
  /\ FirstMonitor \in Monitors
  /\ FirstLoops \in [{Uids[i] : i \in DOMAIN Uids} -> Loops]
  /\ \A u, v \in DOMAIN FirstLoops : FirstLoops[u] = FirstLoops[v] => u = v
  /\ MaxCalls \in Nat /\ MaxStuck \in Nat

Twins == {Uids[i] : i \in DOMAIN Uids}

VARIABLES
  active,         \* SimulatorService.is_running
  created,        \* the keys of SimulatorService.twins
  monitor,        \* SimulatorService._monitor_task
  running,        \* VehicleTwin.is_running
  task,           \* VehicleTwin._task
  owner,          \* the twin whose loop a task runs, None when it has ended
  cancelled,      \* the tasks that are cancelled and have not ended
  todo,           \* per coroutine: the instructions it has yet to execute
  current,        \* the coroutine that keeps the event loop, or None
  calls,          \* how many API calls there were
  stuck           \* how often a monitor found a twin that did not tick

service == <<active, created, monitor>>
twins   == <<running, task, owner>>
vars    == <<active, created, monitor, running, task, owner,
             cancelled, todo, current, calls, stuck>>

Tasks == Calls \cup Monitors

Do(what, on) == [do |-> what, on |-> on]

\* for twin in list(self.twins.values())
Each(what, uids) ==
  LET first[n \in 0..Len(Uids)] ==
        IF n = 0 THEN <<>>
        ELSE IF Uids[n] \in uids THEN Append(first[n - 1], Do(what, Uids[n]))
        ELSE first[n - 1]
  IN  first[Len(Uids)]

(***************************************************************************)
(* The application takes requests when the lifespan of app/main.py has     *)
(* started the service, if settings.SIMULATOR_ENABLED says so.             *)
(***************************************************************************)
Disabled ==
  /\ active = FALSE
  /\ created = {}
  /\ monitor = None
  /\ running = [u \in Twins |-> FALSE]
  /\ task = [u \in Twins |-> None]
  /\ owner = [l \in Loops |-> None]
  /\ todo = [k \in Tasks |-> <<>>]

Enabled ==
  /\ active = TRUE
  /\ created = Twins
  /\ monitor = FirstMonitor
  /\ running = [u \in Twins |-> TRUE]
  /\ task = FirstLoops
  /\ owner = [l \in Loops |-> IF \E u \in Twins : FirstLoops[u] = l
                              THEN CHOOSE u \in Twins : FirstLoops[u] = l ELSE None]
  /\ todo = [k \in Tasks |-> IF k = FirstMonitor THEN <<Do("while", None)>> ELSE <<>>]

Init ==
  /\ Disabled \/ Enabled
  /\ cancelled = {}
  /\ current = None
  /\ calls = 0
  /\ stuck = 0

-----------------------------------------------------------------------------
(***************************************************************************)
(* Coroutines.  Awaiting a task that has ended does not give up the event  *)
(* loop.                                                                   *)
(***************************************************************************)
Waits(s) ==
  \/ s = <<>>
  \/ Head(s).do \in {"awaitLoop", "bootstrap", "status", "sleep"}
  \/ Head(s).do = "awaitMonitor" /\ todo[Head(s).on] # <<>>

Goto(k, s) ==
  /\ todo' = [todo EXCEPT ![k] = s]
  /\ current' = IF Waits(s) THEN None ELSE k

At(k, what) ==
  /\ current \in {k, None}
  /\ k \notin cancelled
  /\ todo[k] # <<>>
  /\ Head(todo[k]).do = what

On(k)   == Head(todo[k]).on
Rest(k) == Tail(todo[k])

Awaited(what) ==
  {Head(todo[k]).on : k \in {j \in Tasks : todo[j] # <<>> /\ Head(todo[j]).do = what}}

(***************************************************************************)
(* A task is a new object: no variable and no await still refers to its    *)
(* id.  Which of the unused ids it gets makes no difference.               *)
(***************************************************************************)
NewLoops ==
  {l \in Loops : /\ owner[l] = None
                 /\ \A u \in Twins : task[u] # l /\ <<u, l>> \notin Awaited("awaitLoop")}

NewMonitors ==
  {m \in Monitors : /\ todo[m] = <<>>
                    /\ monitor # m
                    /\ m \notin Awaited("awaitMonitor")}

AnyOf(ids) == {CHOOSE x \in ids : TRUE} \cap ids

(***************************************************************************)
(* Task.cancel: a monitor that awaits the end of a loop passes the         *)
(* cancellation on to the loop, and VehicleTwin.stop swallows it.          *)
(***************************************************************************)
Cancelled(m) ==
  IF todo[m] # <<>> /\ Head(todo[m]).do # "awaitLoop"
  THEN cancelled \cup {m} ELSE cancelled

-----------------------------------------------------------------------------
(***************************************************************************)
(* The endpoints.                                                          *)
(***************************************************************************)
Programs ==
  {<<Do("startService", None)>>, <<Do("stopService", None)>>,
   <<Do("stopService", None), Do("startService", None)>>}
  \cup UNION {{<<Do("startTwin", u)>>, <<Do("stopTwin", u)>>,
               <<Do("stopTwin", u), Do("startTwin", u)>>} : u \in created}

Request(k) ==
  /\ current = None
  /\ todo[k] = <<>>
  /\ calls < MaxCalls
  /\ \E p \in Programs : todo' = [todo EXCEPT ![k] = p]
  /\ calls' = calls + 1
  /\ UNCHANGED <<service, twins, cancelled, current, stuck>>

(***************************************************************************)
(* SimulatorService.start.                                                 *)
(***************************************************************************)
StartService(k) ==
  /\ At(k, "startService")
  /\ active' = TRUE
  /\ Goto(k, IF active THEN Rest(k) ELSE <<Do("bootstrap", None)>> \o Rest(k))
  /\ UNCHANGED <<created, monitor, twins, cancelled, calls, stuck>>

\* Nothing asks whether the service was stopped in the meantime.
Bootstrap(k) ==
  /\ At(k, "bootstrap")
  /\ Goto(k, Each("startTwin", Twins) \o <<Do("watch", None)>> \o Rest(k))
  /\ UNCHANGED <<service, twins, cancelled, calls, stuck>>

\* The exception reaches the caller; is_running stays as it is.
BootstrapFails(k) ==
  /\ At(k, "bootstrap")
  /\ Goto(k, <<>>)
  /\ UNCHANGED <<service, twins, cancelled, calls, stuck>>

\* The new monitor runs when the event loop is free.
Watch(k) ==
  /\ At(k, "watch")
  /\ \E m \in AnyOf(NewMonitors) :
       /\ monitor' = m
       /\ todo' = [todo EXCEPT ![k] = Rest(k), ![m] = <<Do("while", None)>>]
  /\ current' = IF Waits(Rest(k)) THEN None ELSE k
  /\ UNCHANGED <<active, created, twins, cancelled, calls, stuck>>

(***************************************************************************)
(* VehicleTwin.start, after the service has created the twin if need be.   *)
(***************************************************************************)
StartTwin(k) ==
  LET u == On(k)
  IN  /\ At(k, "startTwin")
      /\ created' = created \cup {u}
      /\ IF running[u]
         THEN Goto(k, Rest(k)) /\ UNCHANGED twins
         ELSE \E l \in AnyOf(NewLoops) :
                /\ running' = [running EXCEPT ![u] = TRUE]
                /\ task' = [task EXCEPT ![u] = l]
                /\ owner' = [owner EXCEPT ![l] = u]
                /\ Goto(k, <<Do("status", u)>> \o Rest(k))
      /\ UNCHANGED <<active, monitor, cancelled, calls, stuck>>

\* update_db_status; its exceptions are only logged.
Status(k) ==
  /\ At(k, "status")
  /\ Goto(k, Rest(k))
  /\ UNCHANGED <<service, twins, cancelled, calls, stuck>>

-----------------------------------------------------------------------------
\* Definitions named Fault... are seeded faults of the definition after them.
FaultStopTwin(k) ==
  LET u == On(k)
      l == task[u]
  IN  /\ At(k, "stopTwin")
      /\ IF ~running[u]
         THEN Goto(k, Rest(k)) /\ UNCHANGED <<running, cancelled>>
         ELSE /\ UNCHANGED running
              /\ cancelled' = IF l = None THEN cancelled ELSE cancelled \cup {l}
              /\ Goto(k, (IF l = None THEN <<>> ELSE <<Do("awaitLoop", <<u, l>>)>>)
                         \o <<Do("status", u)>> \o Rest(k))
      /\ UNCHANGED <<service, task, owner, calls, stuck>>

(***************************************************************************)
(* VehicleTwin.stop.                                                       *)
(***************************************************************************)
StopTwin(k) ==
  LET u == On(k)
      l == task[u]
  IN  /\ At(k, "stopTwin")
      /\ IF ~running[u]
         THEN Goto(k, Rest(k)) /\ UNCHANGED <<running, cancelled>>
         ELSE /\ running' = [running EXCEPT ![u] = FALSE]
              /\ cancelled' = IF l = None THEN cancelled ELSE cancelled \cup {l}
              /\ Goto(k, (IF l = None THEN <<>> ELSE <<Do("awaitLoop", <<u, l>>)>>)
                         \o <<Do("status", u)>> \o Rest(k))
      /\ UNCHANGED <<service, task, owner, calls, stuck>>

\* The task it forgets may by now be another one than the task it awaited.
LoopEnded(k) ==
  /\ At(k, "awaitLoop")
  /\ owner[On(k)[2]] = None
  /\ task' = [task EXCEPT ![On(k)[1]] = None]
  /\ Goto(k, Rest(k))
  /\ UNCHANGED <<service, running, owner, cancelled, calls, stuck>>

(***************************************************************************)
(* SimulatorService.stop.                                                  *)
(***************************************************************************)
StopService(k) ==
  /\ At(k, "stopService")
  /\ active' = FALSE
  /\ cancelled' = IF active /\ monitor # None THEN Cancelled(monitor) ELSE cancelled
  /\ Goto(k, (CASE ~active -> <<>>
                [] active /\ monitor # None -> <<Do("awaitMonitor", monitor)>>
                [] active /\ monitor = None -> Each("stopTwin", created)) \o Rest(k))
  /\ UNCHANGED <<created, monitor, twins, calls, stuck>>

MonitorEnded(k) ==
  /\ At(k, "awaitMonitor")
  /\ todo[On(k)] = <<>>
  /\ monitor' = None
  /\ Goto(k, Each("stopTwin", created) \o Rest(k))
  /\ UNCHANGED <<active, created, twins, cancelled, calls, stuck>>

-----------------------------------------------------------------------------
FaultWhile(m) ==
  /\ At(m, "while")
  /\ Goto(m, <<Do("sleep", None)>>)
  /\ UNCHANGED <<service, twins, cancelled, calls, stuck>>

(***************************************************************************)
(* _health_monitor_loop.                                                   *)
(***************************************************************************)
While(m) ==
  /\ At(m, "while")
  /\ Goto(m, IF active THEN <<Do("sleep", None)>> ELSE <<>>)
  /\ UNCHANGED <<service, twins, cancelled, calls, stuck>>

\* The flag is not read again after the sleep.
Wake(m) ==
  /\ At(m, "sleep")
  /\ Goto(m, Each("check", created) \o <<Do("while", None)>>)
  /\ UNCHANGED <<service, twins, cancelled, calls, stuck>>

\* Done, or running and its last tick is older than three intervals.
Check(m) ==
  LET u    == On(m)
      done == task[u] \notin {l \in Loops : owner[l] # None}
  IN  /\ At(m, "check")
      /\ \/ ~done /\ Goto(m, Rest(m)) /\ UNCHANGED stuck
         \/ /\ \/ done /\ UNCHANGED stuck
               \/ ~done /\ running[u] /\ stuck < MaxStuck /\ stuck' = stuck + 1
            /\ Goto(m, <<Do("stopTwin", u), Do("startTwin", u)>> \o Rest(m))
      /\ UNCHANGED <<service, twins, cancelled, calls>>

MonitorCancelled(m) ==
  /\ current = None
  /\ m \in cancelled
  /\ todo' = [todo EXCEPT ![m] = <<>>]
  /\ cancelled' = cancelled \ {m}
  /\ UNCHANGED <<service, twins, current, calls, stuck>>

FaultEndLoop(l) ==
  /\ current = None
  /\ owner[l] # None
  /\ l \in cancelled
  /\ owner' = [owner EXCEPT ![l] = None]
  /\ cancelled' = cancelled \ {l}
  /\ UNCHANGED <<service, running, task, todo, current, calls, stuck>>

(***************************************************************************)
(* _run_loop: a tick whose exceptions are logged, and a sleep, until the   *)
(* task is cancelled or finds that the twin is not running.                *)
(***************************************************************************)
EndLoop(l) ==
  /\ current = None
  /\ owner[l] # None
  /\ l \in cancelled \/ ~running[owner[l]]
  /\ owner' = [owner EXCEPT ![l] = None]
  /\ cancelled' = cancelled \ {l}
  /\ UNCHANGED <<service, running, task, todo, current, calls, stuck>>

Step(k) ==
  \/ StartService(k)
  \/ Bootstrap(k)
  \/ BootstrapFails(k)
  \/ Watch(k)
  \/ StartTwin(k)
  \/ Status(k)
  \/ StopTwin(k)
  \/ LoopEnded(k)
  \/ StopService(k)
  \/ MonitorEnded(k)

MonitorStep(m) == While(m) \/ Wake(m) \/ Check(m) \/ MonitorCancelled(m)

Next ==
  \/ \E k \in Calls : Request(k)
  \/ \E k \in Tasks : Step(k)
  \/ \E m \in Monitors : MonitorStep(m)
  \/ \E l \in Loops : EndLoop(l)

Spec == Init /\ [][Next]_vars

(***************************************************************************)
(* The event loop serves the coroutines that are ready in turn: one that   *)
(* waits again and again for another to give up the loop gets it in the    *)
(* end.  Every await returns.                                              *)
(***************************************************************************)
Fairness ==
  /\ \A k \in Calls : SF_vars(Step(k))
  /\ \A m \in Monitors : SF_vars(Step(m) \/ MonitorStep(m))
  /\ \A l \in Loops : SF_vars(EndLoop(l))

FairSpec == Spec /\ Fairness

-----------------------------------------------------------------------------
Instruction ==
  [do : {"startService", "stopService", "bootstrap", "watch", "while", "sleep"},
   on : {None}]
  \cup [do : {"startTwin", "stopTwin", "status", "check"}, on : Twins]
  \cup [do : {"awaitLoop"}, on : Twins \X Loops]
  \cup [do : {"awaitMonitor"}, on : Monitors]

TypeOK ==
  /\ active \in BOOLEAN
  /\ created \subseteq Twins
  /\ monitor \in Monitors \cup {None}
  /\ running \in [Twins -> BOOLEAN]
  /\ task \in [Twins -> Loops \cup {None}]
  /\ owner \in [Loops -> Twins \cup {None}]
  /\ cancelled \subseteq Loops \cup Monitors
  /\ todo \in [Tasks -> Seq(Instruction)]
  /\ current \in Tasks \cup {None}
  /\ calls \in 0 .. MaxCalls
  /\ stuck \in 0 .. MaxStuck

(***************************************************************************)
(* However starts, stops and restarts overlap, a twin that says it runs    *)
(* has a telemetry loop that nobody has cancelled, and the loop it knows   *)
(* of runs on only while the twin says so.                                 *)
(***************************************************************************)
RunningTwinHasALoop ==
  /\ TypeOK
  /\ \A u \in Twins :
       /\ running[u] => \E l \in Loops \ cancelled : owner[l] = u
       /\ task[u] # None =>
            \/ running[u]
            \/ task[u] \in cancelled
            \/ owner[task[u]] = None

(***************************************************************************)
(* When a twin stays stopped, also the loops that it lost track of, when a *)
(* start overlapped with a stop, end.                                      *)
(***************************************************************************)
StoppedLoopsEnd ==
  \A u \in Twins : <>[]~running[u] => <>[](\A l \in Loops : owner[l] # u)

(***************************************************************************)
(* When the service stays stopped, also the monitors that it lost track of *)
(* end, although one that is in a restart swallows its cancellation.       *)
(***************************************************************************)
MonitorsEnd ==
  <>[]~active => <>[](\A m \in Monitors : todo[m] = <<>>)

(***************************************************************************)
(* A stop that waits for the monitor returns, unless a start overtakes it: *)
(* the monitor that swallowed its cancellation then goes on.               *)
(***************************************************************************)
StopReturns ==
  \A k \in Calls :
    todo[k] # <<>> /\ Head(todo[k]).do = "awaitMonitor"
      ~> todo[k] = <<>> \/ Head(todo[k]).do # "awaitMonitor" \/ active
=============================================================================
