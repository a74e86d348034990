-------------------------- MODULE TelemetryLedger --------------------------
(***************************************************************************)
(* What the ingestion of telemetry promises the devices, whatever the      *)
(* order of its statements: an answer tells the truth about the row of the *)
(* packet and is never taken back, unless the database did not tell it,    *)
(* and a location is only stored for a packet whose row was stored before. *)
(* TelemetryIngest implements it.                                          *)
(***************************************************************************)
CONSTANT Requests \* the requests, each carrying one packet

VARIABLES
  twins,          \* pairs of requests that carry the same numbered packet
  rows,           \* requests whose packet has a row
  answers,        \* what each request was told
  places          \* requests whose packet became a location

ledger == <<twins, rows, answers, places>>

Answers == {"none", "success", "duplicate", "error"}

Init ==
  /\ twins \in SUBSET (Requests \X Requests)
  /\ rows = {}
  /\ answers = [r \in Requests |-> "none"]
  /\ places = {}

Record(r) ==
  /\ answers[r] = "none"
  /\ rows' = rows \cup {r}
  /\ UNCHANGED <<twins, answers, places>>

\* The database stores the row, but its acknowledgement is lost.
RecordUnheard(r) ==
  /\ answers[r] = "none"
  /\ r \notin rows
  /\ rows' = rows \cup {r}
  /\ answers' = [answers EXCEPT ![r] = "error"]
  /\ UNCHANGED <<twins, places>>

Truth(r, a) ==
  CASE a = "success"   -> r \in rows
    [] a = "duplicate" -> r \notin rows /\ \E q \in rows : <<q, r>> \in twins
    [] a = "error"     -> r \notin rows

Tell(r, a) ==
  /\ answers[r] = "none"
  /\ Truth(r, a)
  /\ answers' = [answers EXCEPT ![r] = a]
  /\ UNCHANGED <<twins, rows, places>>

Locate(r) ==
  /\ r \in rows
  /\ answers[r] = "success"
  /\ places' = places \cup {r}
  /\ UNCHANGED <<twins, rows, answers>>

Next ==
  \E r \in Requests :
    \/ Record(r)
    \/ RecordUnheard(r)
    \/ \E a \in Answers \ {"none"} : Tell(r, a)
    \/ Locate(r)

Spec == Init /\ [][Next]_ledger
=============================================================================
