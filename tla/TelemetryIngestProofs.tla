----------------------- MODULE TelemetryIngestProofs -----------------------
(***************************************************************************)
(* The safety properties of TelemetryIngest, and the ledger it implements, *)
(* for every number of requests, packets and commands.                     *)
(***************************************************************************)
EXTENDS TelemetryIngest, TLAPS

USE IngestConstants

-----------------------------------------------------------------------------
(***************************************************************************)
(* The inductive invariant: the checked invariants, and what a request in  *)
(* the middle of the pipeline relies on.                                   *)
(***************************************************************************)

\* Where a request stands tells whether its row is committed and answered.
Progress ==
  \A r \in Requests :
    /\ pc[r] \in (InFlight \ {"committed"}) \cup {"idle"} => r \notin packets
    /\ pc[r] = "committed" => r \in packets
    /\ answer[r] # "none" => pc[r] \in {"done", "unacknowledged"}
    /\ job[r] = "queued" => answer[r] = "success"
    /\ got[r] # NoCommand /\ pc[r] # "committing" =>
         r \in packets \/ pc[r] \in {"done", "lost"}

\* Past the check, no packet that had arrived before is the same.
Checked(r) == \A q \in known[r] : ~Same(q, r)

Screening ==
  \A r \in Requests :
    /\ known[r] \subseteq packets
    /\ pc[r] \in InFlight \ {"checking"} => Checked(r)
    /\ r \in packets => Checked(r)

\* At most one uncommitted registration, and none beside a committed one.
Registration ==
  /\ \A q, r \in inserting : q = r
  /\ inserting # {} => vehicles = {}
  /\ \A r \in inserting : pc[r] \in {"fetching", "committing"}
  /\ \A r \in Requests : pc[r] \in {"fetching", "committing"} =>
                           vehicles # {} \/ r \in inserting

\* A fetched command has no older one in the queue.
Queue ==
  /\ \A c, d \in Commands : cmd[c] = "none" => cmd[d] = "none"
  /\ \A r \in Requests : got[r] # NoCommand =>
       /\ cmd[got[r]] # "none"
       /\ \A d \in Commands : d < got[r] => cmd[d] = "SENT"

IInv ==
  /\ TypeOK
  /\ AnswersAreTrue
  /\ NoLateDuplicate
  /\ RegisteredOnce
  /\ CommandsLeaveInOrder
  /\ Progress
  /\ Screening
  /\ Registration
  /\ Queue

-----------------------------------------------------------------------------
LEMMA InitEstablishes == Init => IInv
<1> SUFFICES ASSUME Init PROVE IInv
  OBVIOUS
<1>1. PICK s \in {"none", "PENDING"} : cmd = [c \in Commands |-> s]
  BY DEF Init
<1>2. TypeOK
  BY <1>1 DEF Init, TypeOK, InFlight
<1>3. CommandsLeaveInOrder /\ Queue
  BY <1>1 DEF Init, CommandsLeaveInOrder, Queue
<1>4. /\ AnswersAreTrue
      /\ NoLateDuplicate
      /\ Progress
      /\ Screening
  BY DEF Init, AnswersAreTrue, NoLateDuplicate, Progress, Screening, InFlight
<1>5. RegisteredOnce /\ Registration
  BY DEF Init, RegisteredOnce, Registration
<1> QED
  BY <1>2, <1>3, <1>4, <1>5 DEF IInv

\* One lemma per action.
LEMMA ReceiveStep ==
  ASSUME IInv, NEW r \in Requests, Receive(r)
  PROVE  IInv'
<1> USE DEF Receive, Answer, Goto, db, InFlight
<1>1. TypeOK'
  BY DEF IInv, TypeOK
<1>2. AnswersAreTrue' /\ NoLateDuplicate'
  BY DEF IInv, TypeOK, AnswersAreTrue, NoLateDuplicate, Progress, Same
<1>3. Progress' /\ Screening'
  BY DEF IInv, TypeOK, Progress, Screening, Checked, Same
<1>4. RegisteredOnce' /\ Registration'
  BY DEF IInv, TypeOK, RegisteredOnce, Registration
<1>5. CommandsLeaveInOrder' /\ Queue'
  BY DEF IInv, CommandsLeaveInOrder, Queue
<1> QED
  BY <1>1, <1>2, <1>3, <1>4, <1>5 DEF IInv

LEMMA CheckDuplicateStep ==
  ASSUME IInv, NEW r \in Requests, CheckDuplicate(r)
  PROVE  IInv'
<1> USE DEF CheckDuplicate, Answer, Goto, db, InFlight
<1>1. TypeOK'
  BY DEF IInv, TypeOK
<1>2. AnswersAreTrue' /\ NoLateDuplicate'
  BY DEF IInv, TypeOK, AnswersAreTrue, NoLateDuplicate, Progress, Same
<1>3. Progress' /\ Screening'
  BY DEF IInv, TypeOK, Progress, Screening, Checked, Same
<1>4. RegisteredOnce' /\ Registration'
  BY DEF IInv, TypeOK, RegisteredOnce, Registration
<1>5. CommandsLeaveInOrder' /\ Queue'
  BY DEF IInv, CommandsLeaveInOrder, Queue
<1> QED
  BY <1>1, <1>2, <1>3, <1>4, <1>5 DEF IInv

LEMMA ResolveVehicleStep ==
  ASSUME IInv, NEW r \in Requests, ResolveVehicle(r)
  PROVE  IInv'
<1> USE DEF ResolveVehicle, Goto, db, InFlight
<1>1. TypeOK'
  BY DEF IInv, TypeOK
<1>2. AnswersAreTrue' /\ NoLateDuplicate'
  BY DEF IInv, TypeOK, AnswersAreTrue, NoLateDuplicate, Progress, Screening, Checked, Same
<1>3. Progress' /\ Screening'
  BY DEF IInv, TypeOK, Progress, Screening, Checked, Same
<1>4. RegisteredOnce' /\ Registration'
  BY DEF IInv, TypeOK, RegisteredOnce, Registration
<1>5. CommandsLeaveInOrder' /\ Queue'
  BY DEF IInv, TypeOK, CommandsLeaveInOrder, Queue, Progress
<1> QED
  BY <1>1, <1>2, <1>3, <1>4, <1>5 DEF IInv

LEMMA FlushVehicleStep ==
  ASSUME IInv, NEW r \in Requests, FlushVehicle(r)
  PROVE  IInv'
<1> USE DEF FlushVehicle, Goto, db, InFlight
<1>1. TypeOK'
  BY DEF IInv, TypeOK
<1>2. AnswersAreTrue' /\ NoLateDuplicate'
  BY DEF IInv, TypeOK, AnswersAreTrue, NoLateDuplicate, Progress, Screening, Checked, Same
<1>3. Progress' /\ Screening'
  BY DEF IInv, TypeOK, Progress, Screening, Checked, Same
<1>4. RegisteredOnce' /\ Registration'
  BY DEF IInv, TypeOK, RegisteredOnce, Registration
<1>5. CommandsLeaveInOrder' /\ Queue'
  BY DEF IInv, TypeOK, CommandsLeaveInOrder, Queue, Progress
<1> QED
  BY <1>1, <1>2, <1>3, <1>4, <1>5 DEF IInv

LEMMA FetchCommandStep ==
  ASSUME IInv, NEW r \in Requests, FetchCommand(r)
  PROVE  IInv'
<1> USE DEF FetchCommand, Pending, Goto, db, InFlight
<1>1. TypeOK'
  BY DEF IInv, TypeOK
<1>2. AnswersAreTrue' /\ NoLateDuplicate'
  BY DEF IInv, TypeOK, AnswersAreTrue, NoLateDuplicate, Progress, Screening, Checked, Same
<1>3. Progress' /\ Screening'
  BY DEF IInv, TypeOK, Progress, Screening, Checked, Same
<1>4. RegisteredOnce' /\ Registration'
  BY DEF IInv, TypeOK, RegisteredOnce, Registration
<1>5. CommandsLeaveInOrder' /\ Queue'
  BY DEF IInv, TypeOK, CommandsLeaveInOrder, Queue, Progress
<1> QED
  BY <1>1, <1>2, <1>3, <1>4, <1>5 DEF IInv

LEMMA CommitStep ==
  ASSUME IInv, NEW r \in Requests, Commit(r)
  PROVE  IInv'
<1> USE DEF Commit, Store, Goto, db, InFlight
<1>1. TypeOK'
  BY DEF IInv, TypeOK
<1>2. AnswersAreTrue' /\ NoLateDuplicate'
  BY DEF IInv, TypeOK, AnswersAreTrue, NoLateDuplicate, Progress, Screening, Checked, Same
<1>3. Progress' /\ Screening'
  BY DEF IInv, TypeOK, Progress, Screening, Checked, Same
<1>4. RegisteredOnce' /\ Registration'
  BY DEF IInv, TypeOK, RegisteredOnce, Registration
<1>5. CommandsLeaveInOrder' /\ Queue'
  BY DEF IInv, TypeOK, CommandsLeaveInOrder, Queue, Progress
<1> QED
  BY <1>1, <1>2, <1>3, <1>4, <1>5 DEF IInv

LEMMA CommitUnacknowledgedStep ==
  ASSUME IInv, NEW r \in Requests, CommitUnacknowledged(r)
  PROVE  IInv'
<1> USE DEF CommitUnacknowledged, Store, Goto, db, InFlight
<1>1. TypeOK'
  BY DEF IInv, TypeOK
<1>2. AnswersAreTrue' /\ NoLateDuplicate'
  BY DEF IInv, TypeOK, AnswersAreTrue, NoLateDuplicate, Progress, Screening, Checked, Same
<1>3. Progress' /\ Screening'
  BY DEF IInv, TypeOK, Progress, Screening, Checked, Same
<1>4. RegisteredOnce' /\ Registration'
  BY DEF IInv, TypeOK, RegisteredOnce, Registration
<1>5. CommandsLeaveInOrder' /\ Queue'
  BY DEF IInv, TypeOK, CommandsLeaveInOrder, Queue, Progress
<1> QED
  BY <1>1, <1>2, <1>3, <1>4, <1>5 DEF IInv

LEMMA FailStep ==
  ASSUME IInv, NEW r \in Requests, Fail(r)
  PROVE  IInv'
<1> USE DEF Fail, Answer, Goto, db, InFlight
<1>1. TypeOK'
  BY DEF IInv, TypeOK
<1>2. AnswersAreTrue' /\ NoLateDuplicate'
  BY DEF IInv, TypeOK, AnswersAreTrue, NoLateDuplicate, Progress, Screening, Checked, Same
<1>3. Progress' /\ Screening'
  BY DEF IInv, TypeOK, Progress, Screening, Checked, Same
<1>4. RegisteredOnce' /\ Registration'
  BY DEF IInv, TypeOK, RegisteredOnce, Registration
<1>5. CommandsLeaveInOrder' /\ Queue'
  BY DEF IInv, TypeOK, CommandsLeaveInOrder, Queue, Progress
<1> QED
  BY <1>1, <1>2, <1>3, <1>4, <1>5 DEF IInv

LEMMA RespondStep ==
  ASSUME IInv, NEW r \in Requests, Respond(r)
  PROVE  IInv'
<1> USE DEF Respond, Answer, Goto, db, InFlight
<1>1. TypeOK'
  BY DEF IInv, TypeOK
<1>2. AnswersAreTrue' /\ NoLateDuplicate'
  BY DEF IInv, TypeOK, AnswersAreTrue, NoLateDuplicate, Progress, Screening, Checked, Same
<1>3. Progress' /\ Screening'
  BY DEF IInv, TypeOK, Progress, Screening, Checked, Same
<1>4. RegisteredOnce' /\ Registration'
  BY DEF IInv, TypeOK, RegisteredOnce, Registration
<1>5. CommandsLeaveInOrder' /\ Queue'
  BY DEF IInv, TypeOK, CommandsLeaveInOrder, Queue, Progress
<1> QED
  BY <1>1, <1>2, <1>3, <1>4, <1>5 DEF IInv

LEMMA StoreLocationStep ==
  ASSUME IInv, NEW r \in Requests, StoreLocation(r)
  PROVE  IInv'
<1> USE DEF StoreLocation, Goto, db, InFlight
<1>1. TypeOK'
  BY DEF IInv, TypeOK
<1>2. AnswersAreTrue' /\ NoLateDuplicate'
  BY DEF IInv, TypeOK, AnswersAreTrue, NoLateDuplicate, Progress, Screening, Checked, Same
<1>3. Progress' /\ Screening'
  BY DEF IInv, TypeOK, Progress, Screening, Checked, Same
<1>4. RegisteredOnce' /\ Registration'
  BY DEF IInv, TypeOK, RegisteredOnce, Registration
<1>5. CommandsLeaveInOrder' /\ Queue'
  BY DEF IInv, TypeOK, CommandsLeaveInOrder, Queue, Progress
<1> QED
  BY <1>1, <1>2, <1>3, <1>4, <1>5 DEF IInv

LEMMA FailJobStep ==
  ASSUME IInv, NEW r \in Requests, FailJob(r)
  PROVE  IInv'
<1> USE DEF FailJob, Goto, db, InFlight
<1>1. TypeOK'
  BY DEF IInv, TypeOK
<1>2. AnswersAreTrue' /\ NoLateDuplicate'
  BY DEF IInv, TypeOK, AnswersAreTrue, NoLateDuplicate, Progress, Screening, Checked, Same
<1>3. Progress' /\ Screening'
  BY DEF IInv, TypeOK, Progress, Screening, Checked, Same
<1>4. RegisteredOnce' /\ Registration'
  BY DEF IInv, TypeOK, RegisteredOnce, Registration
<1>5. CommandsLeaveInOrder' /\ Queue'
  BY DEF IInv, TypeOK, CommandsLeaveInOrder, Queue, Progress
<1> QED
  BY <1>1, <1>2, <1>3, <1>4, <1>5 DEF IInv

LEMMA OperatorStep ==
  ASSUME IInv, RegisterByOperator
  PROVE  IInv'
<1> USE DEF RegisterByOperator, Goto, db, InFlight
<1>1. TypeOK'
  BY DEF IInv, TypeOK
<1>2. AnswersAreTrue' /\ NoLateDuplicate'
  BY DEF IInv, TypeOK, AnswersAreTrue, NoLateDuplicate, Progress, Screening, Checked, Same
<1>3. Progress' /\ Screening'
  BY DEF IInv, TypeOK, Progress, Screening, Checked, Same
<1>4. RegisteredOnce' /\ Registration'
  BY DEF IInv, TypeOK, RegisteredOnce, Registration
<1>5. CommandsLeaveInOrder' /\ Queue'
  BY DEF IInv, TypeOK, CommandsLeaveInOrder, Queue, Progress
<1> QED
  BY <1>1, <1>2, <1>3, <1>4, <1>5 DEF IInv

LEMMA CrashStep ==
  ASSUME IInv, Crash
  PROVE  IInv'
<1> USE DEF Crash, Goto, db, InFlight
<1>1. TypeOK'
  BY DEF IInv, TypeOK
<1>2. AnswersAreTrue' /\ NoLateDuplicate'
  BY DEF IInv, TypeOK, AnswersAreTrue, NoLateDuplicate, Progress, Screening, Checked, Same
<1>3. Progress' /\ Screening'
  BY DEF IInv, TypeOK, Progress, Screening, Checked, Same
<1>4. RegisteredOnce' /\ Registration'
  BY DEF IInv, TypeOK, RegisteredOnce, Registration
<1>5. CommandsLeaveInOrder' /\ Queue'
  BY DEF IInv, TypeOK, CommandsLeaveInOrder, Queue, Progress
<1> QED
  BY <1>1, <1>2, <1>3, <1>4, <1>5 DEF IInv

LEMMA NextPreserves == IInv /\ [Next]_vars => IInv'
<1> SUFFICES ASSUME IInv, [Next]_vars PROVE IInv'
  OBVIOUS
<1>1. ASSUME NEW r \in Requests, Receive(r) \/ Step(r) \/ Fail(r) \/ JobStep(r)
      PROVE  IInv'
  BY <1>1, ReceiveStep, CheckDuplicateStep, ResolveVehicleStep, FlushVehicleStep,
     FetchCommandStep, CommitStep, CommitUnacknowledgedStep, FailStep, RespondStep, StoreLocationStep,
     FailJobStep
  DEF Step, JobStep, FlushConflict
<1>2. CASE RegisterByOperator
  BY <1>2, OperatorStep
<1>3. CASE Crash
  BY <1>3, CrashStep
<1>4. CASE UNCHANGED vars
  <2> USE <1>4 DEF vars
  <2>1. TypeOK' /\ AnswersAreTrue' /\ NoLateDuplicate' /\ Screening'
    BY DEF IInv, TypeOK, AnswersAreTrue, NoLateDuplicate, Screening, Checked, Same
  <2>2. RegisteredOnce' /\ Registration' /\ CommandsLeaveInOrder' /\ Queue' /\ Progress'
    BY DEF IInv, RegisteredOnce, Registration, CommandsLeaveInOrder, Queue, Progress
  <2> QED
    BY <2>1, <2>2 DEF IInv
<1> QED
  BY <1>1, <1>2, <1>3, <1>4 DEF Next

THEOREM Invariance == Spec => []IInv
BY InitEstablishes, NextPreserves, PTL DEF Spec

\* The rows and the positions of the requests have their types.
THEOREM TypeCorrect == Spec => []TypeOK
BY Invariance, PTL DEF IInv

\* No interleaving, failure or crash makes an answer a lie.
THEOREM AnswersStayTrue == Spec => []AnswersAreTrue
BY Invariance, PTL DEF IInv

\* A delivery repeated after the commit is never stored twice.
THEOREM LateDuplicatesIgnored == Spec => []NoLateDuplicate
BY Invariance, PTL DEF IInv

\* Any number of first packets registers the device once.
THEOREM OneRegistration == Spec => []RegisteredOnce
BY Invariance, PTL DEF IInv

\* However the requests race, the queue of commands is emptied in order.
THEOREM QueueInOrder == Spec => []CommandsLeaveInOrder
BY Invariance, PTL DEF IInv

-----------------------------------------------------------------------------
(***************************************************************************)
(* Refinement: the initial states, and the three kinds of step the ledger  *)
(* sees; every other step leaves it alone.                                 *)
(***************************************************************************)
LEMMA LedgerInit == Init => Ledger!Init
BY DEF Init, Ledger!Init

LEMMA LedgerStep == IInv /\ [Next]_vars => [Ledger!Next]_(Ledger!ledger)
<1> SUFFICES ASSUME IInv, [Next]_vars
             PROVE  Ledger!Next \/ UNCHANGED Ledger!ledger
  OBVIOUS
<1> DEFINE pairs == {pair \in Requests \X Requests : Same(pair[1], pair[2])}
<1>1. UNCHANGED body
  BY DEF Next, vars, Receive, Step, Fail, JobStep, CheckDuplicate, ResolveVehicle,
         FlushVehicle, FlushConflict, FetchCommand, Commit, CommitUnacknowledged, Store, Respond, StoreLocation,
         FailJob, RegisterByOperator, Crash
<1>2. pairs' = pairs
  BY <1>1 DEF Same
<1>3. ASSUME NEW r \in Requests, NEW a \in {"success", "duplicate", "error"},
             pc[r] \notin {"done", "unacknowledged"}, Ledger!Truth(r, a), Answer(r, a),
             UNCHANGED <<packets, locations>>
      PROVE  Ledger!Next
  <2>1. answer[r] = "none"
    BY <1>3 DEF IInv, Progress
  <2>2. Ledger!Tell(r, a)
    BY <1>2, <1>3, <2>1 DEF Answer, Ledger!Tell
  <2> QED
    BY <2>2 DEF Ledger!Next, Ledger!Answers
<1>4. ASSUME NEW r \in Requests, Receive(r)
      PROVE  Ledger!Next \/ UNCHANGED Ledger!ledger
  <2>1. CASE body[r] \in Rejected
    <3>1. Ledger!Truth(r, "error")
      BY <1>4 DEF Receive, IInv, Progress, Ledger!Truth
    <3> QED
      BY <1>3, <1>4, <2>1, <3>1 DEF Receive, db
  <2>2. CASE body[r] \notin Rejected
    BY <1>2, <1>4, <2>2 DEF Receive, db, Ledger!ledger
  <2> QED
    BY <2>1, <2>2
<1>5. ASSUME NEW r \in Requests, CheckDuplicate(r)
      PROVE  Ledger!Next \/ UNCHANGED Ledger!ledger
  <2>1. CASE \E q \in packets : Same(q, r)
    <3>1. PICK q \in packets : Same(q, r)
      BY <2>1
    <3>2. <<q, r>> \in pairs
      BY <3>1 DEF IInv, TypeOK
    <3>3. r \notin packets
      BY <1>5 DEF CheckDuplicate, IInv, Progress, InFlight
    <3>4. Ledger!Truth(r, "duplicate")
      BY <3>1, <3>2, <3>3 DEF Ledger!Truth
    <3> QED
      BY <1>3, <1>5, <2>1, <3>4 DEF CheckDuplicate, db
  <2>2. CASE ~\E q \in packets : Same(q, r)
    BY <1>2, <1>5, <2>2 DEF CheckDuplicate, db, Ledger!ledger
  <2> QED
    BY <2>1, <2>2
<1>6. ASSUME NEW r \in Requests, Commit(r)
      PROVE  Ledger!Next
  <2>1. answer[r] = "none"
    BY <1>6 DEF Commit, Store, IInv, Progress
  <2>2. Ledger!Record(r)
    BY <1>2, <1>6, <2>1 DEF Commit, Store, Ledger!Record
  <2> QED
    BY <2>2 DEF Ledger!Next
<1>7. ASSUME NEW r \in Requests, Fail(r)
      PROVE  Ledger!Next
  <2>1. r \notin packets
    BY <1>7 DEF Fail, IInv, Progress, InFlight
  <2>2. Ledger!Truth(r, "error")
    BY <2>1 DEF Ledger!Truth
  <2> QED
    BY <1>3, <1>7, <2>2 DEF Fail, InFlight
<1>8. ASSUME NEW r \in Requests, Respond(r)
      PROVE  Ledger!Next
  <2>1. Ledger!Truth(r, "success")
    BY <1>8 DEF Respond, IInv, Progress, Ledger!Truth
  <2> QED
    BY <1>3, <1>8, <2>1 DEF Respond, db
<1>9. ASSUME NEW r \in Requests, StoreLocation(r)
      PROVE  Ledger!Next
  <2>1. answer[r] = "success" /\ r \in packets
    BY <1>9 DEF StoreLocation, IInv, Progress, AnswersAreTrue
  <2>2. Ledger!Locate(r)
    BY <1>2, <1>9, <2>1 DEF StoreLocation, Ledger!Locate
  <2> QED
    BY <2>2 DEF Ledger!Next
<1>10. ASSUME NEW r \in Requests,
              \/ ResolveVehicle(r)
              \/ FlushVehicle(r)
              \/ FetchCommand(r)
              \/ FailJob(r)
       PROVE  UNCHANGED Ledger!ledger
  BY <1>2, <1>10 DEF ResolveVehicle, FlushVehicle, FetchCommand, FailJob, db,
                     Ledger!ledger
<1>11. ASSUME NEW r \in Requests, CommitUnacknowledged(r)
       PROVE  Ledger!Next
  <2>1. answer[r] = "none" /\ r \notin packets
    BY <1>11 DEF CommitUnacknowledged, Store, IInv, Progress, InFlight
  <2>2. Ledger!RecordUnheard(r)
    BY <1>2, <1>11, <2>1 DEF CommitUnacknowledged, Store, Ledger!RecordUnheard
  <2> QED
    BY <2>2 DEF Ledger!Next
<1>12. CASE RegisterByOperator \/ Crash \/ UNCHANGED vars
  BY <1>2, <1>12 DEF RegisterByOperator, Crash, vars, Ledger!ledger
<1> QED
  BY <1>4, <1>5, <1>6, <1>7, <1>8, <1>9, <1>10, <1>11, <1>12
  DEF Next, Step, JobStep, FlushConflict

\* The pipeline keeps the promises of the ledger.
THEOREM LedgerImplemented == Spec => ImplementsLedger
BY Invariance, LedgerInit, LedgerStep, PTL
DEF Spec, ImplementsLedger, Ledger!Spec
=============================================================================
