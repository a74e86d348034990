-------------------------- MODULE TelemetryIngest --------------------------
(***************************************************************************)
(* The ingestion of the packets of one device: POST /vts/telemetry of      *)
(* app/routers/location.py and the simulated vehicles run                  *)
(* run_synchronous_telemetry_pipeline of app/services/telemetry_pipeline   *)
(* and then, after the answer, the job of app/services/background_jobs.    *)
(* Requests interleave at every statement they await; a statement sees     *)
(* what other sessions have committed (READ COMMITTED).  All the           *)
(* statements select by device or vehicle, so one device stands for any.   *)
(***************************************************************************)
EXTENDS Integers, FiniteSets

CONSTANTS
  Requests,       \* the requests of the device, repeated deliveries included
  Twins,          \* those that the loop of a simulated vehicle makes; the
                  \* others come over HTTP
  Packets,        \* records [msgid, data] a request can carry
  Rejected,       \* the packets that validate_telemetry_packet rejects
  NoMsgId,        \* info.msgid is None
  Commands,       \* ids of the PENDING commands, in the order of created_at
  NoCommand,
  Operator        \* stands for the vehicle row that POST /vehicles inserts

ASSUME IngestConstants ==
  /\ Twins \subseteq Requests
  /\ Rejected \subseteq Packets
  /\ Commands \subseteq Nat
  /\ NoCommand \notin Commands
  /\ Operator \notin Requests

VARIABLES
  packets,        \* table raw_packets: the requests whose row is committed
  vehicles,       \* table vehicles, rows with the device_uid: who inserted them
  inserting,      \* requests that flushed such a row and have not committed it
  cmd,            \* status column of device_commands
  locations,      \* requests whose job committed a location
  pc,             \* the next statement of each request
  body,           \* the packet of each request
  got,            \* the command each request fetched
  answer,         \* the answer that was sent to each request
  job,            \* the background job of each request
  known           \* history: the rows committed when the request arrived

db   == <<packets, vehicles, inserting, cmd, locations>>
vars == <<packets, vehicles, inserting, cmd, locations,
          pc, body, got, answer, job, known>>

InFlight == {"checking", "resolving", "flushing", "fetching", "committing",
             "committed"}

\* The rows that match the WHERE of the duplicate check of r.
Same(q, r) ==
  /\ body[r].msgid # NoMsgId
  /\ body[q].msgid = body[r].msgid
  /\ body[q].data = body[r].data

Pending == {c \in Commands : cmd[c] = "PENDING"}

\* Only a vehicle that is registered can have commands.
Init ==
  /\ packets = {}
  /\ vehicles \in {{}, {Operator}}
  /\ inserting = {}
  /\ cmd \in {[c \in Commands |-> s] :
              s \in IF vehicles = {} THEN {"none"} ELSE {"none", "PENDING"}}
  /\ locations = {}
  /\ pc = [r \in Requests |-> "idle"]
  /\ body \in [Requests -> Packets]
  /\ got = [r \in Requests |-> NoCommand]
  /\ answer = [r \in Requests |-> "none"]
  /\ job = [r \in Requests |-> "none"]
  /\ known = [r \in Requests |-> {}]

-----------------------------------------------------------------------------
(***************************************************************************)
(* The synchronous pipeline.                                               *)
(***************************************************************************)
Goto(r, s) == pc' = [pc EXCEPT ![r] = s]

Answer(r, a) ==
  /\ Goto(r, "done")
  /\ answer' = [answer EXCEPT ![r] = a]

Receive(r) ==
  /\ pc[r] = "idle"
  /\ known' = [known EXCEPT ![r] = packets]
  /\ IF body[r] \in Rejected
     THEN Answer(r, "error")
     ELSE Goto(r, "checking") /\ UNCHANGED answer
  /\ UNCHANGED <<db, body, got, job>>

\* Definitions named Fault... are seeded faults of the definition after them:
\* a property must notice when one is substituted for that definition.
FaultCheckDuplicate(r) ==
  /\ pc[r] = "checking"
  /\ IF \E q \in packets : body[q].msgid = body[r].msgid
     THEN Answer(r, "duplicate")
     ELSE Goto(r, "resolving") /\ UNCHANGED answer
  /\ UNCHANGED <<db, body, got, job, known>>

FaultNoCheck(r) ==
  /\ pc[r] = "checking"
  /\ Goto(r, "resolving")
  /\ UNCHANGED <<db, body, got, answer, job, known>>

CheckDuplicate(r) ==
  /\ pc[r] = "checking"
  /\ IF \E q \in packets : Same(q, r)
     THEN Answer(r, "duplicate")
     ELSE Goto(r, "resolving") /\ UNCHANGED answer
  /\ UNCHANGED <<db, body, got, job, known>>

ResolveVehicle(r) ==
  /\ pc[r] = "resolving"
  /\ Goto(r, IF vehicles = {} THEN "flushing" ELSE "fetching")
  /\ UNCHANGED <<db, body, got, answer, job, known>>

FaultCommitVehicle(r) ==
  /\ pc[r] = "flushing"
  /\ inserting = {}
  /\ vehicles = {}
  /\ vehicles' = {r}
  /\ Goto(r, "fetching")
  /\ UNCHANGED <<packets, inserting, cmd, locations, body, got, answer, job, known>>

(***************************************************************************)
(* The flush of the auto-registered vehicle.  The unique index on          *)
(* device_uid makes it wait for the transaction that holds an uncommitted  *)
(* row, and fail (Fail, below) when there is a committed one.              *)
(***************************************************************************)
FlushVehicle(r) ==
  /\ pc[r] = "flushing"
  /\ inserting = {}
  /\ vehicles = {}
  /\ inserting' = {r}
  /\ Goto(r, "fetching")
  /\ UNCHANGED <<packets, vehicles, cmd, locations, body, got, answer, job, known>>

FaultFetchNewest(r) ==
  /\ pc[r] = "fetching"
  /\ \/ Pending = {} /\ UNCHANGED got
     \/ \E c \in Pending : /\ \A d \in Pending : d <= c
                          /\ got' = [got EXCEPT ![r] = c]
  /\ Goto(r, "committing")
  /\ UNCHANGED <<db, body, answer, job, known>>

\* The oldest PENDING command; the change of its status is not flushed yet.
FetchCommand(r) ==
  /\ pc[r] = "fetching"
  /\ \/ Pending = {} /\ UNCHANGED got
     \/ \E c \in Pending : /\ \A d \in Pending : c <= d
                          /\ got' = [got EXCEPT ![r] = c]
  /\ Goto(r, "committing")
  /\ UNCHANGED <<db, body, answer, job, known>>

FaultCommit(r) ==
  /\ pc[r] = "committing"
  /\ packets' = packets \cup {r}
  /\ vehicles' = vehicles \cup (inserting \cap {r})
  /\ inserting' = inserting \ {r}
  /\ cmd' = [c \in Commands |-> IF c = got[r] THEN "Delivered" ELSE cmd[c]]
  /\ Goto(r, "committed")
  /\ UNCHANGED <<locations, body, got, answer, job, known>>

(***************************************************************************)
(* One transaction: the vehicle, the raw packet, the status of the command *)
(* (an UPDATE by primary key, whatever the status is by now) and its log.  *)
(***************************************************************************)
Store(r) ==
  /\ pc[r] = "committing"
  /\ packets' = packets \cup {r}
  /\ vehicles' = vehicles \cup (inserting \cap {r})
  /\ inserting' = inserting \ {r}
  /\ cmd' = [c \in Commands |-> IF c = got[r] THEN "SENT" ELSE cmd[c]]
  /\ UNCHANGED <<locations, body, got, job, known>>

Commit(r) ==
  /\ Store(r)
  /\ Goto(r, "committed")
  /\ UNCHANGED answer

\* The connection breaks after the server has committed: commit() raises, the
\* rollback finds nothing to undo, and no job starts.
CommitUnacknowledged(r) ==
  /\ Store(r)
  /\ Goto(r, "unacknowledged")
  /\ answer' = [answer EXCEPT ![r] = "error"]

FaultFailAnyTime(r) ==
  /\ pc[r] \in InFlight
  /\ inserting' = inserting \ {r}
  /\ Answer(r, "error")
  /\ UNCHANGED <<packets, vehicles, cmd, locations, body, got, job, known>>

FaultFailHoldsLock(r) ==
  /\ pc[r] \in InFlight \ {"committed"}
  /\ Answer(r, "error")
  /\ UNCHANGED <<db, body, got, job, known>>

\* A statement raises: rollback, and the exception becomes the answer.
Fail(r) ==
  /\ pc[r] \in InFlight \ {"committed"}
  /\ inserting' = inserting \ {r}
  /\ Answer(r, "error")
  /\ UNCHANGED <<packets, vehicles, cmd, locations, body, got, job, known>>

\* A flush that can never succeed: another transaction registered the device.
FlushConflict(r) ==
  /\ pc[r] = "flushing"
  /\ vehicles # {}
  /\ Fail(r)

\* The job starts when the answer has been sent.  The answer over HTTP has no
\* field for the command (VTSResponse), the one to the loop of a twin does.
Respond(r) ==
  /\ pc[r] = "committed"
  /\ Answer(r, "success")
  /\ job' = [job EXCEPT ![r] = "queued"]
  /\ UNCHANGED <<db, body, got, known>>

(***************************************************************************)
(* The background job: one transaction, whose failure is only logged.      *)
(***************************************************************************)
StoreLocation(r) ==
  /\ job[r] = "queued"
  /\ locations' = locations \cup {r}
  /\ job' = [job EXCEPT ![r] = "done"]
  /\ UNCHANGED <<packets, vehicles, inserting, cmd, pc, body, got, answer, known>>

FailJob(r) ==
  /\ job[r] = "queued"
  /\ job' = [job EXCEPT ![r] = "failed"]
  /\ UNCHANGED <<db, pc, body, got, answer, known>>

(***************************************************************************)
(* Around the pipeline: an operator registers the device, and the process  *)
(* dies with every session and every job it has in memory.                 *)
(***************************************************************************)
RegisterByOperator ==
  /\ vehicles = {}
  /\ inserting = {}
  /\ vehicles' = {Operator}
  /\ UNCHANGED <<packets, inserting, cmd, locations,
                 pc, body, got, answer, job, known>>

Crash ==
  /\ \E r \in Requests : pc[r] \in InFlight \/ job[r] = "queued"
  /\ inserting' = {}
  /\ pc' = [r \in Requests |-> IF pc[r] \in InFlight THEN "lost" ELSE pc[r]]
  /\ job' = [r \in Requests |-> IF job[r] = "queued" THEN "lost" ELSE job[r]]
  /\ UNCHANGED <<packets, vehicles, cmd, locations, body, got, answer, known>>

Step(r) ==
  \/ CheckDuplicate(r)
  \/ ResolveVehicle(r)
  \/ FlushVehicle(r)
  \/ FlushConflict(r)
  \/ FetchCommand(r)
  \/ Commit(r)
  \/ CommitUnacknowledged(r)
  \/ Respond(r)

JobStep(r) == StoreLocation(r) \/ FailJob(r)

Next ==
  \/ \E r \in Requests : Receive(r) \/ Step(r) \/ Fail(r) \/ JobStep(r)
  \/ RegisterByOperator
  \/ Crash

Spec == Init /\ [][Next]_vars

\* The event loop runs every task that can run, and every statement returns.
Fairness == \A r \in Requests : WF_vars(Step(r)) /\ WF_vars(JobStep(r))

FairSpec == Spec /\ Fairness

-----------------------------------------------------------------------------
TypeOK ==
  /\ packets \subseteq Requests
  /\ vehicles \subseteq Requests \cup {Operator}
  /\ inserting \subseteq Requests
  /\ cmd \in [Commands -> {"none", "PENDING", "SENT"}]
  /\ locations \subseteq Requests
  /\ pc \in [Requests -> InFlight \cup {"idle", "done", "lost", "unacknowledged"}]
  /\ body \in [Requests -> Packets]
  /\ got \in [Requests -> Commands \cup {NoCommand}]
  /\ answer \in [Requests -> {"none", "success", "duplicate", "error"}]
  /\ job \in [Requests -> {"none", "queued", "done", "failed", "lost"}]
  /\ known \in [Requests -> SUBSET Requests]

(***************************************************************************)
(* The answer of the pipeline is the truth about the database, then and    *)
(* ever after: "Data Success" only when the packet is stored, "Duplicate   *)
(* Packet Ignored" only when the same packet is, an error only when the    *)
(* rollback left nothing behind.  Only the loss of the acknowledgement of  *)
(* COMMIT makes an error of a packet that is stored.                       *)
(***************************************************************************)
AnswersAreTrue ==
  \A r \in Requests :
    /\ answer[r] = "success" => r \in packets
    /\ answer[r] = "duplicate" =>
         r \notin packets /\ \E q \in packets : Same(q, r)
    /\ answer[r] = "error" => r \notin packets \/ pc[r] = "unacknowledged"

(***************************************************************************)
(* A packet whose row was committed before a repeated delivery of it       *)
(* arrived is not stored again.  (Deliveries that overlap can both be.)    *)
(***************************************************************************)
NoLateDuplicate ==
  \A r \in packets : \A q \in known[r] : ~Same(q, r)

(***************************************************************************)
(* Concurrent first packets register the device once, and never without    *)
(* the raw packet that registered it.                                      *)
(***************************************************************************)
RegisteredOnce ==
  /\ \A v, w \in vehicles : v = w
  /\ vehicles \subseteq packets \cup {Operator}
  /\ packets # {} => vehicles # {}

(***************************************************************************)
(* Commands leave the queue in the order in which they were created, and   *)
(* each with the raw packet (and so the CommandLog) that took it.          *)
(***************************************************************************)
CommandsLeaveInOrder ==
  \A c \in Commands : cmd[c] = "SENT" =>
    /\ \E r \in packets : got[r] = c
    /\ \A d \in Commands : d < c => cmd[d] = "SENT"

\* What ingestion promises, and the mapping that shows it is kept.
Ledger == INSTANCE TelemetryLedger WITH
  twins   <- {pair \in Requests \X Requests : Same(pair[1], pair[2])},
  rows    <- packets,
  answers <- answer,
  places  <- locations

(***************************************************************************)
(* Every statement order of every request is a behaviour of the ledger: an *)
(* answer is never taken back, and only what was answered "Data Success"   *)
(* becomes a location.                                                     *)
(***************************************************************************)
ImplementsLedger == Ledger!Spec

(***************************************************************************)
(* A request that was accepted is answered, also when it waits for the     *)
(* registration of another, and its job ends, unless the process dies.     *)
(***************************************************************************)
RequestsSettle ==
  \A r \in Requests :
    pc[r] = "checking" ~>
      /\ pc[r] \in {"done", "lost", "unacknowledged"}
      /\ job[r] # "queued"

\* What the answer to r carries.
Carried(r) == IF answer[r] = "success" /\ r \in Twins THEN got[r] ELSE NoCommand

(***************************************************************************)
(* The CommandLog entry says "Delivered to device in HTTP telemetry        *)
(* response payload" for a command whose request is no longer running.     *)
(***************************************************************************)
LoggedCommandsWereDelivered ==
  \A r \in packets : pc[r] \notin InFlight => Carried(r) = got[r]
=============================================================================
