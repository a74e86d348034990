--------------------------- MODULE DeviceCommands ---------------------------
(***************************************************************************)
(* The commands of one simulated vehicle: the endpoints of                 *)
(* app/routers/device_command.py, the fetch of a command by the telemetry  *)
(* pipeline, and the task that _process_command of                         *)
(* app/services/simulator/vehicle_twin.py starts for each command it gets. *)
(*                                                                         *)
(* Every change of a row is a select, an assignment and a commit with an   *)
(* await between them, so that endpoints and tasks interleave; none of     *)
(* them looks at the status it changes.  Packets of one vehicle come from  *)
(* the loop of its twin, from a second loop that a start overtaking a stop *)
(* leaves behind, and from POST /vts/telemetry with the same uid.          *)
(***************************************************************************)
EXTENDS Integers, FiniteSets

CONSTANTS
  Commands,       \* ids of the commands, in the order of created_at
  Packets,        \* packets under way and tasks running at the same time
  Loops,          \* the loops of the twin
  Posts,          \* the requests of POST /vts/telemetry at the same time
  Calls,          \* API calls that run at the same time
  MaxCalls        \* bound on the number of API calls that change a row

ASSUME CommandConstants ==
  /\ Commands \subseteq Nat
  /\ MaxCalls \in Nat
  /\ IsFiniteSet(Packets) /\ IsFiniteSet(Loops) /\ IsFiniteSet(Posts)
  /\ Loops \cap Posts = {}

VARIABLES
  row,            \* table device_commands
  logs,           \* table command_logs: rows per command and status
  call,           \* the API calls between their select and their commit
  calls,          \* how many there were
  packet          \* the packets, each with the twin's task for its command

vars == <<row, logs, call, calls, packet>>

\* The states a row passes through, and the two in which there is no row.
Status == {"Queued", "PENDING", "SENT", "Acknowledged", "Executing",
           "Completed", "Failed", "Cancelled", "unborn", "deleted"}

Endpoints == {"Cancelled", "Acknowledged", "Completed", "Failed", "delete"}

\* What update_status of the twin records.
Recorded == {"Acknowledged", "Executing", "Completed", "Failed"}

NoLogs == [st \in Recorded \cup {"SENT"} |-> 0]

Exists(c) == row[c].status \notin {"unborn", "deleted"}

Blank(st) == [status |-> st, acknowledged |-> FALSE, completed |-> FALSE]

NoCall == [op |-> "none", cmd |-> 0, seen |-> "none"]

Quiet == [pc |-> "idle", by |-> 0, cmd |-> 0, seen |-> "none"]

\* PENDING rows are those the schema before revision 008 left in the table.
Init ==
  /\ row \in [Commands -> {Blank("unborn"), Blank("PENDING")}]
  /\ logs = [c \in Commands |-> NoLogs]
  /\ call = [k \in Calls |-> NoCall]
  /\ calls = 0
  /\ packet = [p \in Packets |-> Quiet]

\* Definitions named Fault... are seeded faults of the definition after them:
\* a property must notice when one is substituted for that definition.
FaultWrite(r, seen, st) ==
  [status       |-> IF st = seen THEN r.status ELSE st,
   acknowledged |-> r.acknowledged \/ (st = "Acknowledged" /\ seen = "SENT"),
   completed    |-> r.completed \/ (st = "Completed" /\ seen = "Executing")]

(***************************************************************************)
(* The UPDATE of a session that loaded the row with status seen and set it *)
(* to st: it names the columns whose value differs from the loaded one,    *)
(* and the timestamps, which always do.                                    *)
(***************************************************************************)
Write(r, seen, st) ==
  [status       |-> IF st = seen THEN r.status ELSE st,
   acknowledged |-> r.acknowledged \/ st = "Acknowledged",
   completed    |-> r.completed \/ st = "Completed"]

-----------------------------------------------------------------------------
(***************************************************************************)
(* The endpoints.                                                          *)
(***************************************************************************)
CreateCommand(c) ==
  /\ row[c].status = "unborn"
  /\ row' = [row EXCEPT ![c] = Blank("Queued")]
  /\ UNCHANGED <<logs, call, calls, packet>>

Load(k, op, c) ==
  /\ call[k] = NoCall
  /\ calls < MaxCalls
  /\ Exists(c)
  /\ call' = [call EXCEPT ![k] = [op |-> op, cmd |-> c, seen |-> row[c].status]]
  /\ calls' = calls + 1
  /\ UNCHANGED <<row, logs, packet>>

FaultSave(k) ==
  /\ call[k].op \in Endpoints \ {"delete"}
  /\ row' = [row EXCEPT ![call[k].cmd] = Write(@, call[k].seen, call[k].op)]
  /\ call' = [call EXCEPT ![k] = NoCall]
  /\ UNCHANGED <<logs, calls, packet>>

\* The UPDATE of a deleted row matches nothing: StaleDataError, rollback.
Save(k) ==
  /\ call[k].op \in Endpoints \ {"delete"}
  /\ row' = IF Exists(call[k].cmd)
            THEN [row EXCEPT ![call[k].cmd] = Write(@, call[k].seen, call[k].op)]
            ELSE row
  /\ call' = [call EXCEPT ![k] = NoCall]
  /\ UNCHANGED <<logs, calls, packet>>

\* The audit logs of the command go with it.
DeleteCommand(k) ==
  /\ call[k].op = "delete"
  /\ row' = [row EXCEPT ![call[k].cmd] = Blank("deleted")]
  /\ logs' = [logs EXCEPT ![call[k].cmd] = NoLogs]
  /\ call' = [call EXCEPT ![k] = NoCall]
  /\ UNCHANGED <<calls, packet>>

-----------------------------------------------------------------------------
(***************************************************************************)
(* The packets.  A sender waits for the answer to one before the next; the *)
(* packets of different senders overlap at every await.                    *)
(***************************************************************************)
Log(c, st) == logs' = [logs EXCEPT ![c][st] = @ + 1]

Pending == {c \in Commands : row[c].status = "PENDING"}

Senders == Loops \cup Posts

Waiting(s) ==
  \E p \in Packets : packet[p].by = s /\ packet[p].pc \in {"fetched", "sent"}

FaultFetch(p) ==
  /\ packet[p].pc = "idle"
  /\ \E s \in Senders, c \in Commands :
       /\ ~Waiting(s)
       /\ row[c].status \in {"PENDING", "SENT"}
       /\ packet' = [packet EXCEPT ![p] = [pc |-> "fetched", by |-> s, cmd |-> c,
                                          seen |-> "none"]]
  /\ UNCHANGED <<row, logs, call, calls>>

\* The oldest PENDING command; a packet that finds none changes nothing.
Fetch(p) ==
  /\ packet[p].pc = "idle"
  /\ \E s \in Senders, c \in Pending :
       /\ ~Waiting(s)
       /\ \A d \in Pending : c <= d
       /\ packet' = [packet EXCEPT ![p] = [pc |-> "fetched", by |-> s, cmd |-> c,
                                          seen |-> "none"]]
  /\ UNCHANGED <<row, logs, call, calls>>

(***************************************************************************)
(* The commit of the pipeline, whatever the status is by now.  The answer  *)
(* of POST /vts/telemetry has no field for the command (VTSResponse), that *)
(* to a loop does.  A deleted row makes the whole packet roll back.        *)
(***************************************************************************)
Deliver(p) ==
  LET c == packet[p].cmd
  IN  /\ packet[p].pc = "fetched"
      /\ IF Exists(c)
         THEN /\ row' = [row EXCEPT ![c].status = "SENT"]
              /\ Log(c, "SENT")
              /\ packet' = [packet EXCEPT ![p] =
                              IF packet[p].by \in Loops THEN [@ EXCEPT !.pc = "sent"]
                              ELSE Quiet]
         ELSE /\ packet' = [packet EXCEPT ![p] = Quiet]
              /\ UNCHANGED <<row, logs>>
      /\ UNCHANGED <<call, calls>>

\* A statement raises or the loop is cancelled: rollback.
Abort(p) ==
  /\ packet[p].pc = "fetched"
  /\ packet' = [packet EXCEPT ![p] = Quiet]
  /\ UNCHANGED <<row, logs, call, calls>>

(***************************************************************************)
(* The loop awaits the background job of the packet before it starts the   *)
(* task; a stop of the twin in between loses the command.                  *)
(***************************************************************************)
StartTask(p) ==
  /\ packet[p].pc = "sent"
  /\ \/ packet' = [packet EXCEPT ![p].pc = "Acknowledged"]
     \/ packet' = [packet EXCEPT ![p] = Quiet]
  /\ UNCHANGED <<row, logs, call, calls>>

(***************************************************************************)
(* _process_command: pc is the status to record next.  update_status       *)
(* swallows every exception, so the task goes on whatever happens to it.   *)
(***************************************************************************)
FaultAfter(st) ==
  CASE st = "Acknowledged" -> {"Executing"}
    [] st = "Executing"    -> {"dispatch"}
    [] st = "Completed"    -> {"idle", "Failed"}
    [] st = "Failed"       -> {"idle"}

After(st) ==
  CASE st = "Acknowledged" -> {"Executing"}
    [] st = "Executing"    -> {"dispatch"}
    [] st \in {"Completed", "Failed"} -> {"idle"}

Proceed(p) ==
  \E st \in After(packet[p].pc) :
    packet' = [packet EXCEPT ![p] = IF st = "idle" THEN Quiet
                                    ELSE [@ EXCEPT !.pc = st, !.seen = "none"]]

FaultUpdateLoads(p) ==
  /\ packet[p].pc \in Recorded
  /\ packet[p].seen = "none"
  /\ Exists(packet[p].cmd)
  /\ packet' = [packet EXCEPT ![p].seen = row[packet[p].cmd].status]
  /\ UNCHANGED <<row, logs, call, calls>>

UpdateLoads(p) ==
  /\ packet[p].pc \in Recorded
  /\ packet[p].seen = "none"
  /\ IF Exists(packet[p].cmd)
     THEN packet' = [packet EXCEPT ![p].seen = row[packet[p].cmd].status]
     ELSE Proceed(p)
  /\ UNCHANGED <<row, logs, call, calls>>

UpdateCommits(p) ==
  LET c == packet[p].cmd
  IN  /\ packet[p].pc \in Recorded
      /\ packet[p].seen # "none"
      /\ Exists(c)
      /\ row' = [row EXCEPT ![c] = Write(@, packet[p].seen, packet[p].pc)]
      /\ Log(c, packet[p].pc)
      /\ Proceed(p)
      /\ UNCHANGED <<call, calls>>

UpdateFails(p) ==
  /\ packet[p].pc \in Recorded
  /\ packet[p].seen # "none"
  /\ Proceed(p)
  /\ UNCHANGED <<row, logs, call, calls>>

\* The action itself, which raises when it is not supported.
Dispatch(p) ==
  /\ packet[p].pc = "dispatch"
  /\ \E verdict \in {"Completed", "Failed"} :
       packet' = [packet EXCEPT ![p].pc = verdict]
  /\ UNCHANGED <<row, logs, call, calls>>

\* The process restarts: sessions and tasks are memory.
Crash ==
  /\ packet' = [p \in Packets |-> Quiet]
  /\ call' = [k \in Calls |-> NoCall]
  /\ UNCHANGED <<row, logs, calls>>

Step(p) ==
  \/ Deliver(p)
  \/ Abort(p)
  \/ StartTask(p)
  \/ UpdateLoads(p)
  \/ UpdateCommits(p)
  \/ UpdateFails(p)
  \/ Dispatch(p)

Next ==
  \/ \E c \in Commands : CreateCommand(c)
  \/ \E k \in Calls : \/ \E op \in Endpoints, c \in Commands : Load(k, op, c)
                      \/ Save(k)
                      \/ DeleteCommand(k)
  \/ \E p \in Packets : Fetch(p) \/ Step(p)
  \/ Crash

Spec == Init /\ [][Next]_vars

\* Packets keep coming, and what is under way runs when it can.
Fairness == \A p \in Packets : WF_vars(Fetch(p)) /\ WF_vars(Step(p))

FairSpec == Spec /\ Fairness

-----------------------------------------------------------------------------
Row == [status: Status, acknowledged: BOOLEAN, completed: BOOLEAN]

Call == [op: Endpoints \cup {"none"}, cmd: Commands \cup {0},
         seen: Status \cup {"none"}]

Packet == [pc: Recorded \cup {"idle", "fetched", "sent", "dispatch"},
           by: Senders \cup {0}, cmd: Commands \cup {0}, seen: Status \cup {"none"}]

TypeOK ==
  /\ row \in [Commands -> Row]
  /\ logs \in [Commands -> [Recorded \cup {"SENT"} -> Nat]]
  /\ call \in [Calls -> Call]
  /\ calls \in 0 .. MaxCalls
  /\ packet \in [Packets -> Packet]

(***************************************************************************)
(* A row that says Acknowledged or Completed has the timestamp for it,     *)
(* although the status and the timestamps of one row can come from the     *)
(* UPDATEs of different sessions, each naming only the columns it changed. *)
(***************************************************************************)
StatusHasItsTimestamp ==
  \A c \in Commands :
    /\ row[c].status = "Acknowledged" => row[c].acknowledged
    /\ row[c].status = "Completed" => row[c].completed

\* Every row has a status of the code, and the timestamps that go with it, when
\* endpoints, packets and tasks write it at the same time.
RowsWellFormed == TypeOK /\ StatusHasItsTimestamp

(***************************************************************************)
(* A loop of the twin executes a command at most once, and each sender     *)
(* fetches it at most once, although packets that overlap all find it      *)
(* PENDING and any endpoint may set its status back on its way.  With the  *)
(* one loop of a twin that was not restarted it is executed once, whatever *)
(* is posted beside the loop.                                              *)
(***************************************************************************)
ExecutedOncePerLoop ==
  \A c \in Commands : /\ logs[c]["SENT"] <= Cardinality(Senders)
                      /\ logs[c]["Executing"] <= Cardinality(Loops)

(***************************************************************************)
(* The audit log holds at most one verdict on a command for each loop that *)
(* executed it, whichever of the updates of the execution fail.            *)
(***************************************************************************)
OneVerdictPerLoop ==
  \A c \in Commands :
    logs[c]["Completed"] + logs[c]["Failed"] <= Cardinality(Loops)

(***************************************************************************)
(* A packet that comes after a command was logged SENT never fetches it,   *)
(* whatever endpoints and tasks write to the status meanwhile.             *)
(***************************************************************************)
NoLateDelivery ==
  [][\A p \in Packets :
       packet[p].pc = "idle" /\ packet'[p].pc = "fetched" =>
         logs[packet'[p].cmd]["SENT"] = 0]_vars

(***************************************************************************)
(* A deleted command stays deleted, and with it its audit log, although    *)
(* sessions that loaded the row before the delete still commit.            *)
(***************************************************************************)
DeletedStaysDeleted ==
  [][\A c \in Commands : row[c].status = "deleted" =>
       row'[c].status = "deleted" /\ logs'[c] = NoLogs]_vars

\* A packet that fetched a command is done with it, whatever its updates meet.
TasksEnd ==
  \A p \in Packets : packet[p].pc = "fetched" ~> packet[p].pc = "idle"

(***************************************************************************)
(* "we updated it to pull "Queued" commands and transition to              *)
(* "Delivered"": a command that the API queued leaves the queue as long as *)
(* the vehicle sends telemetry.                                            *)
(***************************************************************************)
QueuedCommandsAreDelivered ==
  \A c \in Commands : row[c].status = "Queued" ~> row[c].status # "Queued"
=============================================================================
