------------------------ MODULE DeviceCommandsProofs ------------------------
(***************************************************************************)
(* The safety properties of DeviceCommands for every number of commands,   *)
(* packets and concurrent API calls.                                       *)
(***************************************************************************)
EXTENDS DeviceCommands, FiniteSetTheorems, TLAPS

USE CommandConstants

\* A command that was delivered to a loop, and its task.
Running == Recorded \cup {"sent", "dispatch"}

-----------------------------------------------------------------------------
(***************************************************************************)
(* The inductive invariant.  A command that can still be fetched, or whose *)
(* row is gone, has no logs, and all the packets that hold it are before   *)
(* their commit, so that they come from different senders; from then on    *)
(* each of them can add one entry to the log, or leave it out.             *)
(***************************************************************************)
\* A session that is under way has loaded a command.
Sessions ==
  /\ \A k \in Calls : call[k].op # "none" =>
       call[k].cmd \in Commands /\ call[k].seen \in Status
  /\ \A p \in Packets : packet[p].pc # "idle" => packet[p].cmd \in Commands

\* A sender waits for one packet at a time, and only loops start tasks.
OneAtATime ==
  /\ \A p \in Packets : packet[p].pc # "idle" => packet[p].by \in Senders
  /\ \A p \in Packets : packet[p].pc \in Running => packet[p].by \in Loops
  /\ \A p, q \in Packets :
       /\ packet[p].pc \in {"fetched", "sent"}
       /\ packet[q].pc \in {"fetched", "sent"}
       /\ packet[p].by = packet[q].by
       => p = q

\* No status a task or an endpoint writes puts a command back in the queue.
NotPendingAgain ==
  /\ \A p \in Packets :
       packet[p].pc \in Running => row[packet[p].cmd].status # "PENDING"
  /\ \A c \in Commands :
       row[c].status \in {"PENDING", "deleted"} => logs[c] = NoLogs

\* The packets whose commit, execution or verdict of c is still to come.
ToSend(c)    == {p \in Packets : packet[p].cmd = c /\ packet[p].pc = "fetched"}

ToExecute(c) ==
  {p \in Packets : /\ packet[p].cmd = c /\ packet[p].by \in Loops
                   /\ packet[p].pc \in {"fetched", "sent", "Acknowledged", "Executing"}}

ToJudge(c) ==
  {p \in Packets : /\ packet[p].cmd = c /\ packet[p].by \in Loops
                   /\ packet[p].pc \in Running \cup {"fetched"}}

Bounded(c) ==
  /\ logs[c]["SENT"] + Cardinality(ToSend(c)) <= Cardinality(Senders)
  /\ logs[c]["Executing"] + Cardinality(ToExecute(c)) <= Cardinality(Loops)
  /\ logs[c]["Completed"] + logs[c]["Failed"] + Cardinality(ToJudge(c))
       <= Cardinality(Loops)

LogsBounded == \A c \in Commands : Bounded(c)

IInv ==
  /\ TypeOK
  /\ Sessions
  /\ StatusHasItsTimestamp
  /\ OneAtATime
  /\ NotPendingAgain
  /\ LogsBounded

-----------------------------------------------------------------------------
\* What an UPDATE leaves in a row.
Timestamped(r) ==
  /\ r.status = "Acknowledged" => r.acknowledged
  /\ r.status = "Completed" => r.completed

LEMMA WriteFacts ==
  ASSUME NEW r \in Row, Timestamped(r), NEW seen, NEW st \in Status
  PROVE  /\ Write(r, seen, st) \in Row
         /\ Timestamped(Write(r, seen, st))
         /\ Write(r, seen, st).status = IF st = seen THEN r.status ELSE st
<1> DEFINE w == Write(r, seen, st)
<1>1. /\ w.status = IF st = seen THEN r.status ELSE st
      /\ w.acknowledged = (r.acknowledged \/ st = "Acknowledged")
      /\ w.completed = (r.completed \/ st = "Completed")
  BY Zenon DEF Write
<1>2. r.status \in Status
  BY DEF Row
<1>3. (IF st = seen THEN r.status ELSE st) \in Status
  BY <1>2
<1>4. w \in Row
  BY <1>3, Zenon DEF Row, Write
<1> HIDE DEF w
<1>5. Timestamped(w)
  BY <1>1 DEF Timestamped
<1> QED
  BY <1>1, <1>4, <1>5 DEF w

LEMMA BlankFacts ==
  ASSUME NEW st \in Status
  PROVE  Blank(st) \in Row /\ Blank(st).status = st
BY DEF Blank, Row

\* Where a task goes from an update, and that it touches no other.
LEMMA ProceedFacts ==
  ASSUME TypeOK, NEW p \in Packets, packet[p].pc \in Recorded, Proceed(p)
  PROVE  /\ packet' \in [Packets -> Packet]
         /\ \A q \in Packets : q # p => packet'[q] = packet[q]
         /\ \/ /\ packet[p].pc \in {"Completed", "Failed"}
               /\ packet'[p].pc = "idle"
            \/ /\ packet[p].pc = "Acknowledged"
               /\ packet'[p].pc = "Executing"
               /\ packet'[p].cmd = packet[p].cmd
               /\ packet'[p].by = packet[p].by
            \/ /\ packet[p].pc = "Executing"
               /\ packet'[p].pc = "dispatch"
               /\ packet'[p].cmd = packet[p].cmd
               /\ packet'[p].by = packet[p].by
<1>1. packet \in [Packets -> Packet]
  BY DEF TypeOK
<1>2. PICK st \in After(packet[p].pc) :
        packet' = [packet EXCEPT ![p] = IF st = "idle" THEN Quiet
                                        ELSE [@ EXCEPT !.pc = st, !.seen = "none"]]
  BY DEF Proceed
<1>3. \/ packet[p].pc \in {"Completed", "Failed"} /\ st = "idle"
      \/ packet[p].pc = "Acknowledged" /\ st = "Executing"
      \/ packet[p].pc = "Executing" /\ st = "dispatch"
  BY <1>2 DEF After, Recorded
<1>4. Quiet \in Packet /\ Quiet.pc = "idle"
  BY DEF Quiet, Packet
<1>5. st # "idle" =>
        /\ [packet[p] EXCEPT !.pc = st, !.seen = "none"] \in Packet
        /\ [packet[p] EXCEPT !.pc = st, !.seen = "none"].pc = st
        /\ [packet[p] EXCEPT !.pc = st, !.seen = "none"].cmd = packet[p].cmd
        /\ [packet[p] EXCEPT !.pc = st, !.seen = "none"].by = packet[p].by
  BY <1>1, <1>3 DEF Packet, Recorded
<1> QED
  BY <1>1, <1>2, <1>3, <1>4, <1>5

-----------------------------------------------------------------------------
(***************************************************************************)
(* Counting.                                                               *)
(***************************************************************************)
LEMMA Counts ==
  ASSUME NEW c
  PROVE  /\ Cardinality(ToSend(c)) \in Nat
         /\ Cardinality(ToExecute(c)) \in Nat
         /\ Cardinality(ToJudge(c)) \in Nat
         /\ Cardinality(ToSend(c)') \in Nat
         /\ Cardinality(ToExecute(c)') \in Nat
         /\ Cardinality(ToJudge(c)') \in Nat
         /\ Cardinality(Senders) \in Nat
         /\ Cardinality(Loops) \in Nat
<1>1. \A S : S \subseteq Packets => Cardinality(S) \in Nat
  BY FS_Subset, FS_CardinalityType
<1>2. IsFiniteSet(Senders)
  BY FS_Union DEF Senders
<1> QED
  BY <1>1, <1>2, FS_CardinalityType DEF ToSend, ToExecute, ToJudge

LEMMA Fewer ==
  ASSUME NEW S, NEW T, S \subseteq Packets, T \subseteq S
  PROVE  /\ Cardinality(T) <= Cardinality(S)
         /\ \A p : p \in S /\ p \notin T => Cardinality(T) + 1 <= Cardinality(S)
<1>1. IsFiniteSet(S) /\ IsFiniteSet(T) /\ Cardinality(T) <= Cardinality(S)
  BY FS_Subset
<1>2. Cardinality(S) \in Nat /\ Cardinality(T) \in Nat
  BY <1>1, FS_CardinalityType
<1>3. ASSUME NEW p, p \in S, p \notin T PROVE Cardinality(T) + 1 <= Cardinality(S)
  <2>1. Cardinality(T) # Cardinality(S)
    BY <1>1, <1>3, FS_Subset
  <2> QED
    BY <1>1, <1>2, <2>1
<1> QED
  BY <1>1, <1>3

\* Packets of different senders are at most as many as the senders.
LEMMA FewerThanSenders ==
  ASSUME NEW S, NEW T, IsFiniteSet(T), NEW f \in [S -> T],
         \A p, q \in S : f[p] = f[q] => p = q
  PROVE  Cardinality(S) <= Cardinality(T)
<1>1. f \in Injection(S, T)
  BY DEF Injection, IsInjective
<1> QED
  BY <1>1, FS_Injection

LEMMA BoundsOfLogs ==
  ASSUME IInv, NEW c \in Commands
  PROVE  /\ logs[c]["SENT"] <= Cardinality(Senders)
         /\ logs[c]["Executing"] <= Cardinality(Loops)
         /\ logs[c]["Completed"] + logs[c]["Failed"] <= Cardinality(Loops)
<1>1. \A st \in Recorded \cup {"SENT"} : logs[c][st] \in Nat
  BY DEF IInv, TypeOK
<1>2. Bounded(c)
  BY DEF IInv, LogsBounded
<1> QED
  BY <1>1, <1>2, Counts DEF Bounded, Recorded

(***************************************************************************)
(* A packet that drops its command, or goes on with it.                    *)
(***************************************************************************)
Onward(p) ==
  \/ packet'[p].pc = "idle"
  \/ /\ packet'[p].cmd = packet[p].cmd
     /\ packet'[p].by = packet[p].by
     /\ packet[p].pc # "idle"
     /\ packet'[p].pc = "fetched" => packet[p].pc = "fetched"
     /\ packet'[p].pc \in {"fetched", "sent"} =>
          packet[p].pc \in {"fetched", "sent"}
     /\ packet'[p].pc \in {"fetched", "sent", "Acknowledged", "Executing"} =>
          packet[p].pc \in {"fetched", "sent", "Acknowledged", "Executing"}
     /\ packet'[p].pc \in Running =>
          \/ packet[p].pc \in Running
          \/ packet[p].pc = "fetched" /\ packet[p].by \in Loops

LEMMA SetsShrink ==
  ASSUME \A p \in Packets : Onward(p), NEW c
  PROVE  /\ ToSend(c)' \subseteq ToSend(c)
         /\ ToExecute(c)' \subseteq ToExecute(c)
         /\ ToJudge(c)' \subseteq ToJudge(c)
<1> SUFFICES ASSUME NEW p \in Packets
             PROVE  /\ p \in ToSend(c)' => p \in ToSend(c)
                    /\ p \in ToExecute(c)' => p \in ToExecute(c)
                    /\ p \in ToJudge(c)' => p \in ToJudge(c)
  BY DEF ToSend, ToExecute, ToJudge
<1>1. Onward(p)
  OBVIOUS
<1> QED
  BY <1>1 DEF Onward, ToSend, ToExecute, ToJudge, Running, Recorded

\* The senders of the packets, after any step that starts none.
LEMMA StillOneAtATime ==
  ASSUME OneAtATime, \A p \in Packets : Onward(p)
  PROVE  OneAtATime'
<1>1. \A p \in Packets : packet'[p].pc # "idle" =>
        packet[p].pc # "idle" /\ packet'[p].by = packet[p].by
  BY DEF Onward
<1>2. \A p \in Packets : packet'[p].pc \in Running => packet[p].by \in Loops
  BY DEF Onward, OneAtATime, Running, Recorded
<1>3. \A p \in Packets : packet'[p].pc \in {"fetched", "sent"} =>
        packet[p].pc \in {"fetched", "sent"} /\ packet'[p].by = packet[p].by
  BY DEF Onward
<1> QED
  BY <1>1, <1>2, <1>3 DEF OneAtATime, Running, Recorded

\* The bounds, after a step that writes no entry.
LEMMA StillBounded ==
  ASSUME IInv, \A p \in Packets : Onward(p), NEW c \in Commands,
         logs'[c] = logs[c] \/ logs'[c] = NoLogs
  PROVE  Bounded(c)'
<1>1. \A st \in Recorded \cup {"SENT"} : logs[c][st] \in Nat
  BY DEF IInv, TypeOK
<1>2. \A st \in Recorded \cup {"SENT"} : logs'[c][st] \in Nat /\ logs'[c][st] <= logs[c][st]
  BY <1>1 DEF NoLogs
<1>3. /\ Cardinality(ToSend(c)') <= Cardinality(ToSend(c))
      /\ Cardinality(ToExecute(c)') <= Cardinality(ToExecute(c))
      /\ Cardinality(ToJudge(c)') <= Cardinality(ToJudge(c))
  <2>1. ToSend(c) \subseteq Packets /\ ToExecute(c) \subseteq Packets /\ ToJudge(c) \subseteq Packets
    BY DEF ToSend, ToExecute, ToJudge
  <2> QED
    BY <2>1, SetsShrink, Fewer
<1>4. Bounded(c)
  BY DEF IInv, LogsBounded
<1> QED
  BY <1>1, <1>2, <1>3, <1>4, Counts DEF Bounded, Recorded

-----------------------------------------------------------------------------
LEMMA InitEstablishes == Init => IInv
<1> SUFFICES ASSUME Init PROVE IInv
  OBVIOUS
<1> USE DEF Init, Quiet, NoCall, NoLogs
<1>1. TypeOK /\ Sessions
  <2>1. row \in [Commands -> Row]
    BY BlankFacts DEF Status
  <2> QED
    BY <2>1 DEF TypeOK, Sessions, Recorded, Call, Packet
<1>2. StatusHasItsTimestamp
  BY DEF StatusHasItsTimestamp, Blank
<1>3. OneAtATime
  BY DEF OneAtATime, Running, Recorded
<1>4. NotPendingAgain
  BY DEF NotPendingAgain, Running, Recorded, Blank
<1>5. ASSUME NEW c \in Commands PROVE Bounded(c)
  <2>1. ToSend(c) = {} /\ ToExecute(c) = {} /\ ToJudge(c) = {}
    BY DEF ToSend, ToExecute, ToJudge, Running, Recorded
  <2>2. \A st \in Recorded \cup {"SENT"} : logs[c][st] = 0
    OBVIOUS
  <2> QED
    BY <2>1, <2>2, FS_EmptySet, Counts DEF Bounded, Recorded
<1> QED
  BY <1>1, <1>2, <1>3, <1>4, <1>5 DEF IInv, LogsBounded

\* A step that leaves the packets alone: what the calls change.
LEMMA CallSteps ==
  ASSUME IInv, UNCHANGED packet,
         /\ row' \in [Commands -> Row]
         /\ logs' \in [Commands -> [Recorded \cup {"SENT"} -> Nat]]
         /\ call' \in [Calls -> Call]
         /\ calls' \in 0 .. MaxCalls,
         \A k \in Calls : call'[k].op # "none" =>
           call'[k].cmd \in Commands /\ call'[k].seen \in Status,
         \A c \in Commands : /\ Timestamped(row'[c])
                             /\ row'[c].status = "PENDING" =>
                                  row[c].status = "PENDING" /\ logs'[c] = logs[c]
                             /\ row'[c].status = "deleted" => logs'[c] = NoLogs
                             /\ logs'[c] = logs[c] \/ logs'[c] = NoLogs
  PROVE  IInv'
<1>1. TypeOK' /\ Sessions'
  BY DEF IInv, TypeOK, Sessions
<1>2. StatusHasItsTimestamp'
  BY DEF StatusHasItsTimestamp, Timestamped
<1>3. OneAtATime'
  BY DEF IInv, OneAtATime
<1>4. NotPendingAgain'
  BY DEF IInv, Sessions, NotPendingAgain, Running, Recorded
<1>5. \A p \in Packets : Onward(p)
  BY DEF Onward
<1>6. LogsBounded'
  BY <1>5, StillBounded DEF LogsBounded
<1> QED
  BY <1>1, <1>2, <1>3, <1>4, <1>6 DEF IInv

LEMMA RowFacts ==
  ASSUME IInv, NEW c \in Commands
  PROVE  /\ row \in [Commands -> Row]
         /\ logs \in [Commands -> [Recorded \cup {"SENT"} -> Nat]]
         /\ call \in [Calls -> Call]
         /\ calls \in 0 .. MaxCalls
         /\ row[c] \in Row /\ Timestamped(row[c])
         /\ row[c].status \in {"PENDING", "deleted"} => logs[c] = NoLogs
         /\ NoLogs \in [Recorded \cup {"SENT"} -> Nat]
BY DEF IInv, TypeOK, StatusHasItsTimestamp, Timestamped, NotPendingAgain, NoLogs

LEMMA CreateStep ==
  ASSUME IInv, NEW c \in Commands, CreateCommand(c)
  PROVE  IInv'
<1>1. Blank("Queued") \in Row /\ Blank("Queued").status = "Queued" /\ Timestamped(Blank("Queued"))
  BY BlankFacts DEF Status, Timestamped
<1>2. row' = [row EXCEPT ![c] = Blank("Queued")] /\ UNCHANGED <<logs, call, calls, packet>>
  BY DEF CreateCommand
<1>3. \A k \in Calls : call[k].op # "none" =>
        call[k].cmd \in Commands /\ call[k].seen \in Status
  BY DEF IInv, Sessions
<1> QED
  BY <1>1, <1>2, <1>3, RowFacts, CallSteps

LEMMA LoadStep ==
  ASSUME IInv, NEW k \in Calls, NEW op \in Endpoints, NEW c \in Commands, Load(k, op, c)
  PROVE  IInv'
<1>1. /\ call' = [call EXCEPT ![k] = [op |-> op, cmd |-> c, seen |-> row[c].status]]
      /\ calls' = calls + 1 /\ calls < MaxCalls
      /\ UNCHANGED <<row, logs, packet>>
  BY DEF Load
<1>2. row[c].status \in Status
  BY RowFacts DEF Row
<1>3. call' \in [Calls -> Call] /\ calls' \in 0 .. MaxCalls
  BY <1>1, <1>2, RowFacts DEF Call
<1>4. \A o \in Calls : call'[o].op # "none" =>
        call'[o].cmd \in Commands /\ call'[o].seen \in Status
  BY <1>1, <1>2, RowFacts DEF IInv, Sessions
<1> QED
  BY <1>1, <1>3, <1>4, RowFacts, CallSteps

\* A call that is over.
LEMMA CallEnds ==
  ASSUME IInv, NEW k \in Calls, call' = [call EXCEPT ![k] = NoCall]
  PROVE  /\ call' \in [Calls -> Call]
         /\ \A o \in Calls : call'[o].op # "none" =>
              call'[o].cmd \in Commands /\ call'[o].seen \in Status
<1>1. NoCall \in Call /\ NoCall.op = "none"
  BY DEF NoCall, Call
<1> QED
  BY <1>1 DEF IInv, TypeOK, Sessions

LEMMA SaveStep ==
  ASSUME IInv, NEW k \in Calls, Save(k)
  PROVE  IInv'
<1> DEFINE c == call[k].cmd
           st == call[k].op
           y == Write(row[c], call[k].seen, st)
<1>1. /\ c \in Commands /\ st \in {"Cancelled", "Acknowledged", "Completed", "Failed"}
      /\ call' = [call EXCEPT ![k] = NoCall]
      /\ UNCHANGED <<logs, calls, packet>>
      /\ row' = IF Exists(c) THEN [row EXCEPT ![c] = y] ELSE row
  BY DEF Save, IInv, Sessions, Endpoints
<1>2. st \in Status
  BY <1>1 DEF Status
<1> HIDE DEF c, st
<1>3. /\ y \in Row /\ Timestamped(y)
      /\ y.status = IF st = call[k].seen THEN row[c].status ELSE st
  BY <1>1, <1>2, RowFacts, WriteFacts
<1> HIDE DEF y
<1>4. Exists(c) => y.status # "deleted" /\ (y.status = "PENDING" => row[c].status = "PENDING")
  BY <1>1, <1>3 DEF Exists
<1>5. /\ row' \in [Commands -> Row]
      /\ \A d \in Commands : \/ row'[d] = row[d]
                             \/ d = c /\ Exists(c) /\ row'[d] = y
  BY <1>1, <1>3, RowFacts
<1> QED
  BY <1>1, <1>3, <1>4, <1>5, CallEnds, RowFacts, CallSteps

LEMMA DeleteStep ==
  ASSUME IInv, NEW k \in Calls, DeleteCommand(k)
  PROVE  IInv'
<1> DEFINE c == call[k].cmd
           y == Blank("deleted")
<1>1. /\ c \in Commands
      /\ row' = [row EXCEPT ![c] = y]
      /\ logs' = [logs EXCEPT ![c] = NoLogs]
      /\ call' = [call EXCEPT ![k] = NoCall]
      /\ UNCHANGED <<calls, packet>>
  BY DEF DeleteCommand, IInv, Sessions
<1>2. y \in Row /\ y.status = "deleted" /\ Timestamped(y)
  BY BlankFacts DEF Status, Timestamped
<1> HIDE DEF c, y
<1>3. \A d \in Commands : d # c => row'[d] = row[d] /\ logs'[d] = logs[d]
  BY <1>1, RowFacts
<1>4. row' \in [Commands -> Row] /\ row'[c] = y /\ logs'[c] = NoLogs
      /\ logs' \in [Commands -> [Recorded \cup {"SENT"} -> Nat]]
  BY <1>1, <1>2, RowFacts
<1> QED
  BY <1>1, <1>2, <1>3, <1>4, CallEnds, RowFacts, CallSteps

-----------------------------------------------------------------------------
(***************************************************************************)
(* A fetch: whoever holds the command has not committed, and waits.        *)
(***************************************************************************)
LEMMA FetchStep ==
  ASSUME IInv, NEW p \in Packets, Fetch(p)
  PROVE  IInv'
<1>1. PICK s \in Senders, c \in Pending :
        /\ ~Waiting(s)
        /\ packet' = [packet EXCEPT ![p] = [pc |-> "fetched", by |-> s, cmd |-> c,
                                            seen |-> "none"]]
  BY DEF Fetch
<1> DEFINE x == [pc |-> "fetched", by |-> s, cmd |-> c, seen |-> "none"]
<1>2. /\ packet[p].pc = "idle"
      /\ UNCHANGED <<row, logs, call, calls>>
      /\ c \in Commands /\ row[c].status = "PENDING"
      /\ packet \in [Packets -> Packet]
  BY DEF Fetch, Pending, IInv, TypeOK
<1>3. x \in Packet /\ x.pc = "fetched" /\ x.by = s /\ x.cmd = c
  BY <1>2 DEF Packet
<1>4. /\ packet' \in [Packets -> Packet]
      /\ packet'[p] = x
      /\ \A q \in Packets : q # p => packet'[q] = packet[q]
  BY <1>1, <1>2, <1>3
<1>5. \A q \in Packets : packet[q].by = s => packet[q].pc \notin {"fetched", "sent"}
  BY <1>1 DEF Waiting
<1> HIDE DEF x
<1>6. TypeOK' /\ Sessions' /\ StatusHasItsTimestamp'
  BY <1>2, <1>3, <1>4 DEF IInv, TypeOK, Sessions, StatusHasItsTimestamp
<1>7. OneAtATime'
  <2>1. \A q \in Packets : packet'[q].pc # "idle" => packet'[q].by \in Senders
    BY <1>3, <1>4 DEF IInv, OneAtATime
  <2>2. \A q \in Packets : packet'[q].pc \in Running => packet'[q].by \in Loops
    BY <1>3, <1>4 DEF IInv, OneAtATime, Running, Recorded
  <2>3. \A q, o \in Packets :
          /\ packet'[q].pc \in {"fetched", "sent"}
          /\ packet'[o].pc \in {"fetched", "sent"}
          /\ packet'[q].by = packet'[o].by
          => q = o
    BY <1>3, <1>4, <1>5 DEF IInv, OneAtATime
  <2> QED
    BY <2>1, <2>2, <2>3 DEF OneAtATime
<1>8. NotPendingAgain'
  BY <1>2, <1>3, <1>4 DEF IInv, NotPendingAgain, Running, Recorded
<1>9. ASSUME NEW d \in Commands PROVE Bounded(d)'
  <2>1. CASE d # c
    <3>1. /\ ToSend(d)' = ToSend(d)
          /\ ToExecute(d)' = ToExecute(d)
          /\ ToJudge(d)' = ToJudge(d)
      <4>1. \A q \in Packets : /\ q \in ToSend(d)' <=> q \in ToSend(d)
                               /\ q \in ToExecute(d)' <=> q \in ToExecute(d)
                               /\ q \in ToJudge(d)' <=> q \in ToJudge(d)
        BY <1>2, <1>3, <1>4, <2>1 DEF ToSend, ToExecute, ToJudge, Running, Recorded
      <4> QED
        BY <4>1 DEF ToSend, ToExecute, ToJudge
    <3>2. Bounded(d) /\ UNCHANGED logs
      BY <1>2 DEF IInv, LogsBounded
    <3> QED
      BY <3>1, <3>2 DEF Bounded
  <2>2. CASE d = c
    <3>1. logs' = logs /\ logs[c] = NoLogs
      BY <1>2 DEF IInv, NotPendingAgain
    <3>2. \A q \in Packets : packet'[q].cmd = c =>
            packet'[q].pc \notin Running
      BY <1>2, <1>3, <1>4 DEF IInv, NotPendingAgain, Running, Recorded
    <3>3. ToExecute(c)' \subseteq ToSend(c)' /\ ToJudge(c)' \subseteq ToSend(c)'
      BY <3>2 DEF ToExecute, ToJudge, ToSend, Running, Recorded
    <3>4. \A S : S \subseteq ToSend(c)' =>
            \A q, o \in S : packet'[q].by = packet'[o].by => q = o
      BY <1>7 DEF ToSend, OneAtATime
    <3>5. /\ \A q \in ToSend(c)' : packet'[q].by \in Senders
          /\ \A q \in ToExecute(c)' : packet'[q].by \in Loops
          /\ \A q \in ToJudge(c)' : packet'[q].by \in Loops
      BY <1>7 DEF ToSend, ToExecute, ToJudge, OneAtATime
    <3>6. ASSUME NEW S, S \subseteq ToSend(c)', NEW T, IsFiniteSet(T),
                 \A q \in S : packet'[q].by \in T
          PROVE  Cardinality(S) <= Cardinality(T)
      <4> DEFINE f == [q \in S |-> packet'[q].by]
      <4>1. f \in [S -> T] /\ \A q, o \in S : f[q] = f[o] => q = o
        BY <3>4, <3>6
      <4> HIDE DEF f
      <4> QED
        BY <3>6, <4>1, FewerThanSenders
    <3>7. IsFiniteSet(Senders) /\ IsFiniteSet(Loops)
      BY FS_Union DEF Senders
    <3>8. /\ Cardinality(ToSend(c)') <= Cardinality(Senders)
          /\ Cardinality(ToExecute(c)') <= Cardinality(Loops)
          /\ Cardinality(ToJudge(c)') <= Cardinality(Loops)
      BY <3>3, <3>5, <3>6, <3>7
    <3>9. \A st \in Recorded \cup {"SENT"} : logs'[c][st] = 0
      BY <3>1 DEF NoLogs
    <3> QED
      BY <2>2, <3>8, <3>9, Counts DEF Bounded, Recorded
  <2> QED
    BY <2>1, <2>2
<1> QED
  BY <1>6, <1>7, <1>8, <1>9 DEF IInv, LogsBounded

-----------------------------------------------------------------------------
(***************************************************************************)
(* A packet that goes on, when nothing else changes.                       *)
(***************************************************************************)
LEMMA OnwardStep ==
  ASSUME IInv, packet' \in [Packets -> Packet], \A p \in Packets : Onward(p),
         \A p \in Packets : packet'[p].pc \in Running => packet[p].pc \in Running,
         UNCHANGED <<row, logs>>,
         \/ UNCHANGED <<call, calls>>
         \/ call' = [k \in Calls |-> NoCall] /\ UNCHANGED calls
  PROVE  IInv'
<1>1. \A p \in Packets : packet'[p].pc # "idle" =>
        packet[p].pc # "idle" /\ packet'[p].cmd = packet[p].cmd
  BY DEF Onward
<1>2. NoCall \in Call /\ NoCall.op = "none"
  BY DEF NoCall, Call
<1>3. TypeOK' /\ Sessions'
  BY <1>1, <1>2 DEF IInv, TypeOK, Sessions
<1>4. StatusHasItsTimestamp'
  BY DEF IInv, StatusHasItsTimestamp
<1>5. OneAtATime'
  BY StillOneAtATime DEF IInv
<1>6. NotPendingAgain'
  BY <1>1 DEF IInv, NotPendingAgain, Running, Recorded
<1>7. LogsBounded'
  BY StillBounded DEF LogsBounded
<1> QED
  BY <1>3, <1>4, <1>5, <1>6, <1>7 DEF IInv

\* One packet changes.
LEMMA OnePacket ==
  ASSUME TypeOK, NEW p \in Packets, NEW x \in Packet, packet[p].pc # "idle",
         packet' = [packet EXCEPT ![p] = x],
         \/ x.pc = "idle"
         \/ /\ x.cmd = packet[p].cmd
            /\ x.by = packet[p].by
            /\ x.pc = "fetched" => packet[p].pc = "fetched"
            /\ x.pc \in {"fetched", "sent"} => packet[p].pc \in {"fetched", "sent"}
            /\ x.pc \in {"fetched", "sent", "Acknowledged", "Executing"} =>
                 packet[p].pc \in {"fetched", "sent", "Acknowledged", "Executing"}
            /\ x.pc \in Running =>
                 \/ packet[p].pc \in Running
                 \/ packet[p].pc = "fetched" /\ packet[p].by \in Loops
  PROVE  /\ packet' \in [Packets -> Packet]
         /\ packet'[p] = x
         /\ \A q \in Packets : q # p => packet'[q] = packet[q]
         /\ \A q \in Packets : Onward(q)
<1>1. /\ packet' \in [Packets -> Packet]
      /\ packet'[p] = x
      /\ \A q \in Packets : q # p => packet'[q] = packet[q]
  BY DEF TypeOK
<1>2. Onward(p)
  BY <1>1 DEF Onward
<1>3. \A q \in Packets : q # p => Onward(q)
  BY <1>1 DEF Onward
<1> QED
  BY <1>1, <1>2, <1>3

LEMMA DeliverStep ==
  ASSUME IInv, NEW p \in Packets, Deliver(p)
  PROVE  IInv'
<1> DEFINE c == packet[p].cmd
<1>1. /\ c \in Commands /\ packet[p].pc = "fetched" /\ packet[p] \in Packet
      /\ UNCHANGED <<call, calls>>
  BY DEF IInv, TypeOK, Sessions, Deliver
<1>2. /\ row \in [Commands -> Row] /\ packet \in [Packets -> Packet]
      /\ logs \in [Commands -> [Recorded \cup {"SENT"} -> Nat]]
  BY DEF IInv, TypeOK
<1>3. Quiet \in Packet /\ Quiet.pc = "idle"
  BY DEF Quiet, Packet
<1>4. CASE Exists(c)
  <2> DEFINE x == IF packet[p].by \in Loops THEN [packet[p] EXCEPT !.pc = "sent"]
                  ELSE Quiet
             y == [row[c] EXCEPT !.status = "SENT"]
             z == [logs[c] EXCEPT !["SENT"] = @ + 1]
  <2>1. /\ row' = [row EXCEPT ![c] = y]
        /\ logs' = [logs EXCEPT ![c] = z]
        /\ packet' = [packet EXCEPT ![p] = x]
    BY <1>4 DEF Deliver, Log
  <2>2. /\ x \in Packet
        /\ \/ x.pc = "idle"
           \/ /\ x.pc = "sent" /\ x.cmd = c
              /\ x.by = packet[p].by /\ packet[p].by \in Loops
    BY <1>1, <1>3 DEF Packet, Recorded
  <2>3. y \in Row /\ y.status = "SENT" /\ Timestamped(y)
    BY <1>1, <1>2 DEF Row, Status, Timestamped
  <2>4. /\ z \in [Recorded \cup {"SENT"} -> Nat]
        /\ z["SENT"] = logs[c]["SENT"] + 1
        /\ \A st \in Recorded : z[st] = logs[c][st]
    <3> HIDE DEF c, x, y, z
    <3>1. logs[c] \in [Recorded \cup {"SENT"} -> Nat] /\ "SENT" \notin Recorded
      BY <1>1, <1>2 DEF Recorded
    <3>2. logs[c]["SENT"] + 1 \in Nat
      BY <3>1
    <3> QED
      BY <3>1, <3>2 DEF z
  <2> HIDE DEF c, x, y, z
  <2>5. /\ packet' \in [Packets -> Packet]
        /\ packet'[p] = x
        /\ \A q \in Packets : q # p => packet'[q] = packet[q]
        /\ \A q \in Packets : Onward(q)
    BY <1>1, <2>1, <2>2, OnePacket DEF IInv, c
  <2>6. /\ row' \in [Commands -> Row] /\ row'[c] = y
        /\ logs' \in [Commands -> [Recorded \cup {"SENT"} -> Nat]] /\ logs'[c] = z
        /\ \A d \in Commands : d # c => row'[d] = row[d] /\ logs'[d] = logs[d]
    BY <1>1, <1>2, <2>1, <2>3, <2>4
  <2>7. TypeOK' /\ Sessions'
    BY <1>1, <2>2, <2>5, <2>6 DEF IInv, TypeOK, Sessions
  <2>8. StatusHasItsTimestamp'
    BY <2>3, <2>6 DEF IInv, StatusHasItsTimestamp, Timestamped
  <2>9. OneAtATime'
    BY <2>5, StillOneAtATime DEF IInv
  <2>10. NotPendingAgain'
    <3>1. \A q \in Packets : packet'[q].pc \in Running =>
            \/ packet'[q].cmd = c
            \/ packet[q].pc \in Running /\ packet'[q].cmd = packet[q].cmd
      BY <2>2, <2>5 DEF Running, Recorded
    <3>2. \A e \in Commands : row'[e].status \in {"PENDING", "deleted"} =>
            e # c /\ row'[e] = row[e] /\ logs'[e] = logs[e]
      BY <2>3, <2>6
    <3>3. \A q \in Packets : packet'[q].pc \in Running => packet'[q].cmd \in Commands
      BY <2>7 DEF Sessions, Running, Recorded
    <3> QED
      BY <3>1, <3>2, <3>3 DEF IInv, NotPendingAgain
  <2>11. ASSUME NEW d \in Commands PROVE Bounded(d)'
    <3>1. CASE d # c
      BY <2>5, <2>6, <3>1, StillBounded
    <3>2. CASE d = c
      <4>1. /\ ToSend(d)' \subseteq ToSend(d)
            /\ ToExecute(d)' \subseteq ToExecute(d)
            /\ ToJudge(d)' \subseteq ToJudge(d)
        BY <2>5, SetsShrink
      <4>2. p \in ToSend(d) /\ p \notin ToSend(d)'
        BY <1>1, <2>2, <2>5, <3>2 DEF ToSend, c
      <4>3. /\ ToSend(d) \subseteq Packets /\ ToExecute(d) \subseteq Packets
            /\ ToJudge(d) \subseteq Packets
        BY DEF ToSend, ToExecute, ToJudge
      <4>4. /\ Cardinality(ToSend(d)') + 1 <= Cardinality(ToSend(d))
            /\ Cardinality(ToExecute(d)') <= Cardinality(ToExecute(d))
            /\ Cardinality(ToJudge(d)') <= Cardinality(ToJudge(d))
        BY <4>1, <4>2, <4>3, Fewer
      <4>5. Bounded(d)
        BY <1>1 DEF IInv, LogsBounded
      <4>6. /\ logs[c]["SENT"] \in Nat /\ logs[c]["Executing"] \in Nat
            /\ logs[c]["Completed"] \in Nat /\ logs[c]["Failed"] \in Nat
        BY <1>1, <1>2 DEF Recorded
      <4>7. /\ logs'[c]["SENT"] = logs[c]["SENT"] + 1
            /\ logs'[c]["Executing"] = logs[c]["Executing"]
            /\ logs'[c]["Completed"] = logs[c]["Completed"]
            /\ logs'[c]["Failed"] = logs[c]["Failed"]
        BY <2>4, <2>6 DEF Recorded
      <4> QED
        BY <3>2, <4>4, <4>5, <4>6, <4>7, Counts DEF Bounded
    <3> QED
      BY <3>1, <3>2
  <2> QED
    BY <2>7, <2>8, <2>9, <2>10, <2>11 DEF IInv, LogsBounded
<1>5. CASE ~Exists(c)
  <2>1. packet' = [packet EXCEPT ![p] = Quiet] /\ UNCHANGED <<row, logs>>
    BY <1>5 DEF Deliver
  <2>2. /\ packet' \in [Packets -> Packet] /\ \A q \in Packets : Onward(q)
        /\ \A q \in Packets : packet'[q].pc \in Running => packet[q].pc \in Running
    BY <1>1, <1>3, <2>1, OnePacket DEF IInv, Running, Recorded
  <2> QED
    BY <1>1, <2>1, <2>2, OnwardStep
<1> QED
  BY <1>4, <1>5

LEMMA AbortStep ==
  ASSUME IInv, NEW p \in Packets, Abort(p)
  PROVE  IInv'
<1>1. Quiet \in Packet /\ Quiet.pc = "idle"
  BY DEF Quiet, Packet
<1>2. /\ packet' \in [Packets -> Packet] /\ \A q \in Packets : Onward(q)
      /\ \A q \in Packets : packet'[q].pc \in Running => packet[q].pc \in Running
  BY <1>1, OnePacket DEF Abort, IInv, Running, Recorded
<1> QED
  BY <1>2, OnwardStep DEF Abort

LEMMA StartTaskStep ==
  ASSUME IInv, NEW p \in Packets, StartTask(p)
  PROVE  IInv'
<1> DEFINE x == [packet[p] EXCEPT !.pc = "Acknowledged"]
<1>1. Quiet \in Packet /\ Quiet.pc = "idle"
  BY DEF Quiet, Packet
<1>2. x \in Packet /\ x.pc = "Acknowledged" /\ x.cmd = packet[p].cmd /\ x.by = packet[p].by
  BY DEF IInv, TypeOK, Packet, Recorded
<1>3. PICK y \in {x, Quiet} : packet' = [packet EXCEPT ![p] = y]
  BY DEF StartTask
<1>4. packet[p].pc = "sent" /\ packet[p].pc \in Running
  BY DEF StartTask, Running
<1> HIDE DEF x
<1>5. /\ packet' \in [Packets -> Packet] /\ \A q \in Packets : Onward(q)
      /\ \A q \in Packets : q # p => packet'[q] = packet[q]
  BY <1>1, <1>2, <1>3, <1>4, OnePacket DEF IInv
<1>6. \A q \in Packets : packet'[q].pc \in Running => packet[q].pc \in Running
  BY <1>4, <1>5
<1> QED
  BY <1>5, <1>6, OnwardStep DEF StartTask

\* Where a task goes from an update.
LEMMA ProceedsOnward ==
  ASSUME IInv, NEW p \in Packets, packet[p].pc \in Recorded, Proceed(p)
  PROVE  /\ packet' \in [Packets -> Packet]
         /\ \A q \in Packets : Onward(q)
         /\ \A q \in Packets : packet'[q].pc \in Running => packet[q].pc \in Running
<1>1. /\ packet' \in [Packets -> Packet]
      /\ \A q \in Packets : q # p => packet'[q] = packet[q]
  BY ProceedFacts DEF IInv
<1>2. Onward(p)
  BY ProceedFacts DEF IInv, Onward, Running, Recorded
<1>3. \A q \in Packets : q # p => Onward(q)
  BY <1>1 DEF Onward
<1> QED
  BY <1>1, <1>2, <1>3 DEF Running

LEMMA UpdateLoadsStep ==
  ASSUME IInv, NEW p \in Packets, UpdateLoads(p)
  PROVE  IInv'
<1>1. CASE ~Exists(packet[p].cmd)
  BY <1>1, ProceedsOnward, OnwardStep DEF UpdateLoads
<1>2. CASE Exists(packet[p].cmd)
  <2> DEFINE x == [packet[p] EXCEPT !.seen = row[packet[p].cmd].status]
  <2>1. /\ packet' = [packet EXCEPT ![p] = x]
        /\ UNCHANGED <<row, logs, call, calls>>
        /\ packet[p].pc \in Recorded
    BY <1>2 DEF UpdateLoads
  <2>2. row[packet[p].cmd].status \in Status
    BY <2>1 DEF IInv, TypeOK, Sessions, Recorded, Row
  <2>3. x \in Packet /\ x.pc = packet[p].pc /\ x.cmd = packet[p].cmd /\ x.by = packet[p].by
    BY <2>2 DEF IInv, TypeOK, Packet
  <2> HIDE DEF x
  <2>4. /\ packet' \in [Packets -> Packet] /\ \A q \in Packets : Onward(q)
        /\ packet'[p] = x /\ \A q \in Packets : q # p => packet'[q] = packet[q]
    BY <2>1, <2>3, OnePacket DEF IInv, Recorded
  <2>5. \A q \in Packets : packet'[q].pc \in Running => packet[q].pc \in Running
    BY <2>3, <2>4
  <2> QED
    BY <2>1, <2>4, <2>5, OnwardStep
<1> QED
  BY <1>1, <1>2

LEMMA UpdateCommitsStep ==
  ASSUME IInv, NEW p \in Packets, UpdateCommits(p)
  PROVE  IInv'
<1> DEFINE c == packet[p].cmd
           st == packet[p].pc
           y == Write(row[c], packet[p].seen, st)
           z == [logs[c] EXCEPT ![st] = @ + 1]
<1>1. /\ st \in Recorded /\ c \in Commands
      /\ row[c].status \notin {"PENDING", "deleted"}
      /\ packet[p].by \in Loops
  BY DEF IInv, Sessions, NotPendingAgain, OneAtATime, UpdateCommits, Exists, Running, Recorded
<1>2. /\ row \in [Commands -> Row] /\ packet \in [Packets -> Packet]
      /\ logs \in [Commands -> [Recorded \cup {"SENT"} -> Nat]]
  BY DEF IInv, TypeOK
<1>3. /\ row' = [row EXCEPT ![c] = y]
      /\ logs' = [logs EXCEPT ![c] = z]
      /\ Proceed(p)
      /\ UNCHANGED <<call, calls>>
  BY DEF UpdateCommits, Log
<1>4. Timestamped(row[c]) /\ st \in Status
  BY <1>1 DEF IInv, StatusHasItsTimestamp, Timestamped, Recorded, Status
<1>5. /\ y \in Row /\ Timestamped(y)
      /\ y.status \notin {"PENDING", "deleted"}
  <2> HIDE DEF c, st, y
  <2>1. row[c] \in Row
    BY <1>1, <1>2
  <2>2. /\ Write(row[c], packet[p].seen, st) \in Row
        /\ Timestamped(Write(row[c], packet[p].seen, st))
        /\ Write(row[c], packet[p].seen, st).status =
             IF st = packet[p].seen THEN row[c].status ELSE st
    BY <2>1, <1>4, WriteFacts
  <2>3. st \notin {"PENDING", "deleted"}
    BY <1>1 DEF Recorded
  <2> QED
    BY <1>1, <2>2, <2>3 DEF y
<1>6. /\ z \in [Recorded \cup {"SENT"} -> Nat]
      /\ z[st] = logs[c][st] + 1
      /\ \A s \in Recorded \cup {"SENT"} : s # st => z[s] = logs[c][s]
  <2> HIDE DEF c, st, z
  <2>1. /\ logs[c] \in [Recorded \cup {"SENT"} -> Nat]
        /\ st \in Recorded \cup {"SENT"}
    BY <1>1, <1>2
  <2>2. logs[c][st] \in Nat
    BY <2>1
  <2>3. logs[c][st] + 1 \in Nat
    BY <2>2
  <2> QED
    BY <2>1, <2>3 DEF z
<1>7. /\ packet' \in [Packets -> Packet]
      /\ \A q \in Packets : q # p => packet'[q] = packet[q]
      /\ \A q \in Packets : Onward(q)
      /\ \A q \in Packets : packet'[q].pc \in Running => packet[q].pc \in Running
      /\ \/ st \in {"Completed", "Failed"} /\ packet'[p].pc = "idle"
         \/ st = "Acknowledged" /\ packet'[p].pc = "Executing"
         \/ st = "Executing" /\ packet'[p].pc = "dispatch"
  BY <1>1, <1>3, ProceedFacts, ProceedsOnward DEF IInv
<1> HIDE DEF y, z
<1>8. /\ \A d \in Commands : d # c => row'[d] = row[d] /\ logs'[d] = logs[d]
      /\ row'[c] = y /\ logs'[c] = z
      /\ row' \in [Commands -> Row]
      /\ logs' \in [Commands -> [Recorded \cup {"SENT"} -> Nat]]
  BY <1>1, <1>2, <1>3, <1>5, <1>6
<1> HIDE DEF c, st
<1>9. \A q \in Packets : packet'[q].pc # "idle" =>
        packet[q].pc # "idle" /\ packet'[q].cmd = packet[q].cmd
  BY <1>7 DEF Onward
<1>10. TypeOK' /\ Sessions'
  BY <1>3, <1>7, <1>8, <1>9 DEF IInv, TypeOK, Sessions
<1>11. StatusHasItsTimestamp'
  BY <1>5, <1>8 DEF IInv, StatusHasItsTimestamp, Timestamped
<1>12. OneAtATime'
  BY <1>7, StillOneAtATime DEF IInv
<1>13. NotPendingAgain'
  <2>1. \A d \in Commands : row'[d].status \in {"PENDING", "deleted"} =>
          d # c /\ row'[d] = row[d] /\ logs'[d] = logs[d]
    BY <1>5, <1>8
  <2>2. \A q \in Packets : packet'[q].pc \in Running =>
          /\ packet[q].pc \in Running
          /\ packet'[q].cmd = packet[q].cmd
          /\ packet[q].cmd \in Commands
    BY <1>7, <1>9 DEF IInv, Sessions, Running, Recorded
  <2> QED
    BY <2>1, <2>2 DEF IInv, NotPendingAgain
<1>14. ASSUME NEW d \in Commands PROVE Bounded(d)'
  <2>1. CASE d # c
    BY <1>7, <1>8, <2>1, StillBounded
  <2>2. CASE d = c
    <3>1. /\ ToSend(d)' \subseteq ToSend(d)
          /\ ToExecute(d)' \subseteq ToExecute(d)
          /\ ToJudge(d)' \subseteq ToJudge(d)
      BY <1>7, SetsShrink
    <3>2. /\ ToSend(d) \subseteq Packets /\ ToExecute(d) \subseteq Packets
          /\ ToJudge(d) \subseteq Packets
      BY DEF ToSend, ToExecute, ToJudge
    <3>3. /\ Cardinality(ToSend(d)') <= Cardinality(ToSend(d))
          /\ Cardinality(ToExecute(d)') <= Cardinality(ToExecute(d))
          /\ Cardinality(ToJudge(d)') <= Cardinality(ToJudge(d))
      BY <3>1, <3>2, Fewer
    <3>4. st = "Executing" => Cardinality(ToExecute(d)') + 1 <= Cardinality(ToExecute(d))
      <4>1. st = "Executing" => p \in ToExecute(d) /\ p \notin ToExecute(d)'
        BY <1>1, <1>7, <2>2 DEF ToExecute, c, st
      <4> QED
        BY <3>1, <3>2, <4>1, Fewer
    <3>5. st \in {"Completed", "Failed"} =>
            Cardinality(ToJudge(d)') + 1 <= Cardinality(ToJudge(d))
      <4>1. st \in {"Completed", "Failed"} => p \in ToJudge(d) /\ p \notin ToJudge(d)'
        BY <1>1, <1>7, <2>2 DEF ToJudge, c, st, Running, Recorded
      <4> QED
        BY <3>1, <3>2, <4>1, Fewer
    <3>6. Bounded(d)
      BY <1>1 DEF IInv, LogsBounded
    <3>7. /\ logs[c]["SENT"] \in Nat /\ logs[c]["Executing"] \in Nat
          /\ logs[c]["Completed"] \in Nat /\ logs[c]["Failed"] \in Nat
      BY <1>1, <1>2 DEF Recorded
    <3>8. /\ logs'[c]["SENT"] = logs[c]["SENT"]
          /\ logs'[c]["Executing"] =
               logs[c]["Executing"] + IF st = "Executing" THEN 1 ELSE 0
          /\ logs'[c]["Completed"] =
               logs[c]["Completed"] + IF st = "Completed" THEN 1 ELSE 0
          /\ logs'[c]["Failed"] =
               logs[c]["Failed"] + IF st = "Failed" THEN 1 ELSE 0
      BY <1>1, <1>6, <1>8, <3>7 DEF Recorded
    <3> QED
      BY <2>2, <3>3, <3>4, <3>5, <3>6, <3>7, <3>8, Counts DEF Bounded
  <2> QED
    BY <2>1, <2>2
<1> QED
  BY <1>10, <1>11, <1>12, <1>13, <1>14 DEF IInv, LogsBounded

LEMMA UpdateFailsStep ==
  ASSUME IInv, NEW p \in Packets, UpdateFails(p)
  PROVE  IInv'
BY ProceedsOnward, OnwardStep DEF UpdateFails

LEMMA DispatchStep ==
  ASSUME IInv, NEW p \in Packets, Dispatch(p)
  PROVE  IInv'
<1>1. PICK verdict \in {"Completed", "Failed"} :
        packet' = [packet EXCEPT ![p].pc = verdict]
  BY DEF Dispatch
<1> DEFINE x == [packet[p] EXCEPT !.pc = verdict]
<1>2. x \in Packet /\ x.pc = verdict /\ x.cmd = packet[p].cmd /\ x.by = packet[p].by
  BY DEF IInv, TypeOK, Packet, Recorded
<1>3. packet' = [packet EXCEPT ![p] = x] /\ packet[p].pc = "dispatch"
  BY <1>1 DEF Dispatch
<1> HIDE DEF x
<1>4. /\ packet' \in [Packets -> Packet] /\ \A q \in Packets : Onward(q)
      /\ packet'[p] = x /\ \A q \in Packets : q # p => packet'[q] = packet[q]
  BY <1>2, <1>3, OnePacket DEF IInv, Running
<1>5. \A q \in Packets : packet'[q].pc \in Running => packet[q].pc \in Running
  BY <1>3, <1>4 DEF Running
<1> QED
  BY <1>4, <1>5, OnwardStep DEF Dispatch

LEMMA CrashStep ==
  ASSUME IInv, Crash
  PROVE  IInv'
<1>1. Quiet \in Packet /\ Quiet.pc = "idle" /\ "idle" \notin Running
  BY DEF Quiet, Packet, Running, Recorded
<1>2. /\ packet' \in [Packets -> Packet] /\ \A p \in Packets : Onward(p)
      /\ \A p \in Packets : packet'[p].pc \in Running => packet[p].pc \in Running
  BY <1>1 DEF Crash, Onward
<1> QED
  BY <1>2, OnwardStep DEF Crash

-----------------------------------------------------------------------------
LEMMA NextPreserves == IInv /\ [Next]_vars => IInv'
<1> SUFFICES ASSUME IInv, [Next]_vars PROVE IInv'
  OBVIOUS
<1>1. ASSUME NEW c \in Commands, CreateCommand(c) PROVE IInv'
  BY <1>1, CreateStep
<1>2. ASSUME NEW k \in Calls, NEW op \in Endpoints, NEW c \in Commands,
             Load(k, op, c)
      PROVE  IInv'
  BY <1>2, LoadStep
<1>3. ASSUME NEW k \in Calls, Save(k) PROVE IInv'
  BY <1>3, SaveStep
<1>4. ASSUME NEW k \in Calls, DeleteCommand(k) PROVE IInv'
  BY <1>4, DeleteStep
<1>5. ASSUME NEW p \in Packets, Fetch(p) PROVE IInv'
  BY <1>5, FetchStep
<1>6. ASSUME NEW p \in Packets, Step(p) PROVE IInv'
  BY <1>6, DeliverStep, AbortStep, StartTaskStep, UpdateLoadsStep,
     UpdateCommitsStep, UpdateFailsStep, DispatchStep DEF Step
<1>7. CASE Crash
  BY <1>7, CrashStep
<1>8. CASE UNCHANGED vars
  BY <1>8 DEF vars, IInv, TypeOK, Sessions, StatusHasItsTimestamp, OneAtATime,
              NotPendingAgain, LogsBounded, Bounded, ToSend, ToExecute, ToJudge
<1> QED
  BY <1>1, <1>2, <1>3, <1>4, <1>5, <1>6, <1>7, <1>8 DEF Next

(***************************************************************************)
(* The inductive invariant holds of every behaviour of the endpoints and   *)
(* tasks of device_command.py and vehicle_twin.py.                         *)
(***************************************************************************)
THEOREM Invariance == Spec => []IInv
<1>1. Init => IInv
  BY InitEstablishes
<1>2. IInv /\ [Next]_vars => IInv'
  BY NextPreserves
<1> QED
  BY <1>1, <1>2, PTL DEF Spec

(***************************************************************************)
(* The tables and the sessions keep the values the code gives them.        *)
(* Whatever sessions write one row at the same time, a row that says       *)
(* Acknowledged or Completed has the timestamp for it.                     *)
(***************************************************************************)
THEOREM TypeCorrect == Spec => []RowsWellFormed
<1>1. IInv => RowsWellFormed
  BY DEF IInv, RowsWellFormed
<1> QED
  BY <1>1, Invariance, PTL

(***************************************************************************)
(* However the packets of the twin and of POST /vts/telemetry overlap and  *)
(* whatever the endpoints write, a command is fetched at most once by each *)
(* sender and executed at most once by each loop.                          *)
(***************************************************************************)
THEOREM DeliveredOncePerSender == Spec => []ExecutedOncePerLoop
<1>1. IInv => ExecutedOncePerLoop
  BY BoundsOfLogs DEF ExecutedOncePerLoop
<1> QED
  BY <1>1, Invariance, PTL

(***************************************************************************)
(* The audit log never holds more verdicts on a command than its twin has  *)
(* loops: one, unless a start overtook a stop.                             *)
(***************************************************************************)
THEOREM VerdictPerLoop == Spec => []OneVerdictPerLoop
<1>1. IInv => OneVerdictPerLoop
  BY BoundsOfLogs DEF OneVerdictPerLoop
<1> QED
  BY <1>1, Invariance, PTL

-----------------------------------------------------------------------------
\* No step touches a deleted row or brings back its audit log.
LEMMA DeletedStep ==
  ASSUME IInv, [Next]_vars, NEW d \in Commands, row[d].status = "deleted"
  PROVE  row'[d].status = "deleted" /\ logs'[d] = NoLogs
<1>1. logs[d] = NoLogs
  BY DEF IInv, NotPendingAgain
<1>2. /\ row \in [Commands -> Row]
      /\ logs \in [Commands -> [Recorded \cup {"SENT"} -> Nat]]
  BY DEF IInv, TypeOK
<1>3. ~Exists(d)
  BY DEF Exists
<1>4. ASSUME NEW c \in Commands, CreateCommand(c) PROVE row'[d] = row[d] /\ logs'[d] = logs[d]
  BY <1>4, <1>2 DEF CreateCommand
<1>5. ASSUME NEW k \in Calls, NEW op \in Endpoints, NEW c \in Commands,
             Load(k, op, c)
      PROVE  row'[d] = row[d] /\ logs'[d] = logs[d]
  BY <1>5 DEF Load
<1>6. ASSUME NEW k \in Calls, Save(k) PROVE row'[d] = row[d] /\ logs'[d] = logs[d]
  BY <1>6, <1>2, <1>3 DEF Save
<1>7. ASSUME NEW k \in Calls, DeleteCommand(k)
      PROVE  row'[d].status = "deleted" /\ logs'[d] = NoLogs
  BY <1>7, <1>1, <1>2 DEF DeleteCommand, Blank
<1>8. ASSUME NEW p \in Packets, Fetch(p) PROVE row'[d] = row[d] /\ logs'[d] = logs[d]
  BY <1>8 DEF Fetch
<1>9. ASSUME NEW p \in Packets, Step(p) PROVE row'[d] = row[d] /\ logs'[d] = logs[d]
  BY <1>9, <1>2, <1>3 DEF Step, Deliver, Abort, StartTask, UpdateLoads, UpdateCommits, UpdateFails,
                          Dispatch, Log
<1>10. CASE Crash
  BY <1>1, <1>10 DEF Crash
<1>11. CASE UNCHANGED vars
  BY <1>1, <1>11 DEF vars
<1> QED
  BY <1>1, <1>4, <1>5, <1>6, <1>7, <1>8, <1>9, <1>10, <1>11 DEF Next

(***************************************************************************)
(* No session that loaded a command before it was deleted brings it, or    *)
(* its audit log, back.                                                    *)
(***************************************************************************)
THEOREM DeletedForGood == Spec => DeletedStaysDeleted
<1>1. IInv /\ [Next]_vars =>
        [\A c \in Commands : row[c].status = "deleted" =>
           row'[c].status = "deleted" /\ logs'[c] = NoLogs]_vars
  BY DeletedStep
<1> QED
  BY <1>1, Invariance, PTL DEF Spec, DeletedStaysDeleted

-----------------------------------------------------------------------------
(***************************************************************************)
(* A command that was logged SENT is never fetched by a packet that comes  *)
(* after it: no endpoint and no task makes a row PENDING again.            *)
(***************************************************************************)
THEOREM NeverFetchedLate == Spec => NoLateDelivery
<1> DEFINE Late == \A p \in Packets :
                     packet[p].pc = "idle" /\ packet'[p].pc = "fetched" =>
                       logs[packet'[p].cmd]["SENT"] = 0
<1>1. IInv /\ [Next]_vars => [Late]_vars
  <2> SUFFICES ASSUME IInv, Next, NEW p \in Packets,
                      packet[p].pc = "idle", packet'[p].pc = "fetched"
               PROVE  logs[packet'[p].cmd]["SENT"] = 0
    OBVIOUS
  <2>1. PICK q \in Packets : Fetch(q)
    <3>1. packet \in [Packets -> Packet]
      BY DEF IInv, TypeOK
    <3>2. ASSUME NEW q \in Packets, Step(q) PROVE FALSE
      <4>1. packet[q].pc # "idle"
        BY <3>2 DEF Step, Deliver, Abort, StartTask, UpdateLoads, UpdateCommits,
                    UpdateFails, Dispatch, Recorded
      <4>2. \A o \in Packets : packet'[o] = packet[o] \/ o = q
        BY <3>1, <3>2, ProceedFacts
           DEF Step, Deliver, Abort, StartTask, UpdateLoads, UpdateCommits,
               UpdateFails, Dispatch, IInv
      <4> QED
        BY <4>1, <4>2
    <3>3. ASSUME UNCHANGED packet \/ Crash PROVE FALSE
      BY <3>3 DEF Crash, Quiet
    <3> QED
      BY <3>2, <3>3 DEF Next, CreateCommand, Load, Save, DeleteCommand
  <2>2. PICK s \in Senders, c \in Pending :
          packet' = [packet EXCEPT ![q] = [pc |-> "fetched", by |-> s, cmd |-> c,
                                           seen |-> "none"]]
    BY <2>1 DEF Fetch
  <2>3. p = q /\ packet'[p].cmd = c
    BY <2>1, <2>2 DEF IInv, TypeOK
  <2>4. logs[c] = NoLogs
    BY DEF IInv, NotPendingAgain, Pending
  <2> QED
    BY <2>3, <2>4 DEF NoLogs
<1> QED
  BY <1>1, Invariance, PTL DEF Spec, NoLateDelivery
=============================================================================
