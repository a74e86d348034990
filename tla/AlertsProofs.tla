---------------------------- MODULE AlertsProofs ----------------------------
(***************************************************************************)
(* The two components that look whether a row exists and then insert it,   *)
(* for every number of jobs, requests, trips and attempts, and for every   *)
(* packet, configuration and clock: the events and alerts of telemetry     *)
(* jobs (Alerts), the cache of snapped routes (RouteCache), and the two    *)
(* side by side (MCAlerts).                                                *)
(***************************************************************************)
EXTENDS MCAlerts, SequenceTheorems, TLAPS

-----------------------------------------------------------------------------
(***************************************************************************)
(* Events and notifications.  A stored location has its events because the *)
(* job that stored it found or added each of them, and events never go     *)
(* away; what a job has found and added so far is part of the invariant.   *)
(***************************************************************************)
EngineTypes ==
  {"Ignition On", "Ignition Off", "Vehicle Started", "Vehicle Stopped", "Overspeed",
   "Harsh Braking", "Harsh Acceleration", "Sharp Turn", "Power Failure",
   "Power Restored", "Low Battery", "Low Fuel", "GPS Lost", "GPS Restored",
   "Engine Over Temperature", "Refueling Started", "Refueling Completed",
   "Maintenance Due"}

DecoderTypes == {TxnEvent[t] : t \in DOMAIN TxnEvent}
                \cup {"Firmware Mismatch", "Hardware Mismatch", "Overspeed Alert"}

MsgIds == Nat \cup {None}
Readings == {p.reading : p \in Packets}

RowType == [job : Jobs, type : EngineTypes \cup DecoderTypes,
            txn : (DOMAIN TxnEvent) \cup {"-"}, msgid : MsgIds, at : Nat,
            by : {"engine", "decoder"}]

NoteType == [job : Jobs, type : Notified, at : Nat,
             flags : SUBSET {"acknowledged", "resolved"}]

LocationType == [job : Jobs, at : Nat, prev : Readings \cup {NoReading},
                 over : BOOLEAN, msgid : MsgIds, reading : Readings]

JobType == [pc : Open \cup {"idle", "done"}, at : Nat, msgid : MsgIds,
            reading : Readings \cup {NoReading}, prev : Readings \cup {NoReading},
            rows : SUBSET RowType, alerts : SUBSET NoteType, over : BOOLEAN]

AlertsTyped ==
  /\ now \in Times /\ ops \in 0 .. MaxOps /\ config \in Configs /\ orderly \in BOOLEAN
  /\ locations \subseteq LocationType
  /\ events \subseteq RowType
  /\ notes \subseteq NoteType
  /\ job \in [Jobs -> JobType]
  /\ \A j \in Jobs : job[j].pc \in Open => job[j].reading \in Readings

\* Which part of the code wrote a row shows in its type and its counter.
SignedRow(e) ==
  /\ e.by = "engine" => e.type \in EngineTypes /\ e.msgid = None
  /\ e.by = "decoder" => e.type \in DecoderTypes

RowsSigned ==
  /\ \A e \in events : SignedRow(e)
  /\ \A j \in Jobs : \A e \in job[j].rows :
       /\ SignedRow(e)
       /\ e.by = "engine" => /\ e.at = job[j].at
                             /\ job[j].pc \in {"detected", "notified"}

\* What a job that has decoded, detected and notified has found or added.
JobDecoded(j) ==
  LET rows == {e \in events \cup job[j].rows : e.by = "decoder" /\ e.msgid = job[j].msgid}
  IN  /\ job[j].reading.txn \in DOMAIN TxnEvent
           => \E e \in rows : e.txn = job[j].reading.txn
      /\ job[j].over => \E e \in rows : e.txn \in {"B", "D"}

JobDetected(j) ==
  \A t \in Firings(job[j].prev, job[j].reading) :
    \E e \in events \cup job[j].rows : e.type = t /\ Near(e.at, job[j].at)

JobNotified(j) ==
  \A e \in job[j].rows :
    e.by = "engine" /\ e.type \in Notified
      => \E n \in notes \cup job[j].alerts : n.type = e.type /\ Near(n.at, e.at)

JobsKeepUp ==
  \A j \in Jobs :
    /\ job[j].pc \in {"decoded", "detected", "notified"} => JobDecoded(j)
    /\ job[j].pc \in {"detected", "notified"} => JobDetected(j)
    /\ job[j].pc = "notified" => JobNotified(j)

\* The rows that the spacing is about: no decoder uses their type.
Spaced(e) == e.by = "engine" /\ \A t \in DOMAIN TxnEvent : TxnEvent[t] # e.type

\* While jobs are orderly, at most one runs, its packet is the latest, and the
\* latest row of a type is one that it compares its packet with.
Orderly ==
  /\ \A e \in events : e.by = "engine" => \E l \in locations : l.at = e.at
  /\ orderly =>
       /\ \A j, k \in Running : j = k
       /\ \A j \in Running : \A l \in locations : l.at <= job[j].at
       /\ \A e \in events : Spaced(e) =>
            \E f \in OfType(events, e.type) : \A g \in OfType(events, e.type) : g.at <= f.at
       /\ \A j \in Jobs : \A e \in job[j].rows : Spaced(e) =>
            \A f \in events \cup job[j].rows :
              f.type = e.type /\ f # e => ~Near(e.at, f.at)

AlertsIInv ==
  /\ AlertsTyped
  /\ RowsSigned
  /\ JobsKeepUp
  /\ Orderly
  /\ EverythingReported
  /\ EngineEventsAreNotified
  /\ SpacedWhenOrderly

-----------------------------------------------------------------------------
(***************************************************************************)
(* The rules and the duplicate checks.                                     *)
(***************************************************************************)
LEMMA FiringTypes ==
  ASSUME NEW p, NEW c
  PROVE  Firings(p, c) \subseteq EngineTypes
<1>1. Driven(p, c) \subseteq EngineTypes
  BY ZenonT(60) DEF Driven, EngineTypes
<1>2. Supplied(p, c) \subseteq EngineTypes
  BY Zenon DEF Supplied, EngineTypes
<1>3. Monitored(p, c) \subseteq EngineTypes
  BY Zenon DEF Monitored, EngineTypes
<1>4. Serviced(p, c) \subseteq EngineTypes
  BY Zenon DEF Serviced, EngineTypes
<1> QED
  BY <1>1, <1>2, <1>3, <1>4 DEF Firings

LEMMA NearFacts ==
  ASSUME NEW a \in Nat, NEW b \in Nat
  PROVE  Near(a, a) /\ (Near(a, b) <=> Near(b, a))
BY DEF Near, Gap

\* A decoder and the engine share some types, but no row is spaced by mistake.
LEMMA SpacedTypes ==
  ASSUME NEW e, NEW f, SignedRow(e), SignedRow(f), e.by \in {"engine", "decoder"},
         f.by \in {"engine", "decoder"}, Spaced(e), f.type = e.type
  PROVE  f.by = "engine" /\ Spaced(f)
<1>1. e.type \in EngineTypes
  BY DEF Spaced, SignedRow
<1>2. e.type \notin {"Firmware Mismatch", "Hardware Mismatch", "Overspeed Alert"}
  BY <1>1 DEF EngineTypes
<1>3. f.by # "decoder"
  BY <1>2 DEF Spaced, SignedRow, DecoderTypes
<1> QED
  BY <1>3 DEF Spaced

(***************************************************************************)
(* The decoder asks for at most four alerts, one of which has the reason   *)
(* code of the packet, and one the code D for a speed over the limit.      *)
(***************************************************************************)
Candidate == [txn : DOMAIN TxnEvent, type : DecoderTypes]

LEMMA Joined ==
  ASSUME NEW S, NEW s \in Seq(S), NEW t \in Seq(S), NEW u, u = s \o t
  PROVE  /\ u \in Seq(S)
         /\ Len(u) = Len(s) + Len(t)
         /\ \A i \in 1 .. Len(s) : \E k \in 1 .. Len(u) : u[k] = s[i]
         /\ \A i \in 1 .. Len(t) : \E k \in 1 .. Len(u) : u[k] = t[i]
<1>1. /\ u \in Seq(S) /\ Len(u) = Len(s) + Len(t)
      /\ Len(s) \in Nat /\ Len(t) \in Nat
      /\ \A i \in 1 .. Len(s) + Len(t) :
           u[i] = IF i <= Len(s) THEN s[i] ELSE t[i - Len(s)]
  BY ConcatProperties, LenProperties
<1>2. ASSUME NEW i \in 1 .. Len(s)
      PROVE  i \in 1 .. Len(u) /\ u[i] = s[i]
  BY <1>1
<1>3. ASSUME NEW i \in 1 .. Len(t)
      PROVE  i + Len(s) \in 1 .. Len(u) /\ u[i + Len(s)] = t[i]
  <2>1. i + Len(s) \in 1 .. Len(s) + Len(t) /\ ~(i + Len(s) <= Len(s))
        /\ (i + Len(s)) - Len(s) = i
    BY <1>1
  <2> QED
    BY <1>1, <2>1
<1> QED
  BY <1>1, <1>2, <1>3

LEMMA Asked ==
  ASSUME NEW S, NEW x, NEW cond \in BOOLEAN, cond => x \in S,
         NEW s, s = IF cond THEN <<x>> ELSE <<>>
  PROVE  /\ s \in Seq(S)
         /\ Len(s) <= 1
         /\ cond => \E i \in 1 .. Len(s) : s[i] = x
<1>1. CASE cond
  <2>1. s = <<x>> /\ x \in S
    BY <1>1
  <2>2. Len(s) = 1 /\ s[1] = x
    BY <2>1
  <2>3. 1 \in 1 .. Len(s)
    BY <2>2
  <2> QED
    BY <2>1, <2>2, <2>3
<1>2. CASE ~cond
  BY <1>2
<1> QED
  BY <1>1, <1>2

LEMMA LeastOfFour ==
  ASSUME NEW T, T \subseteq 1 .. 4, T # {}
  PROVE  \E k \in T : \A i \in T : k <= i
<1>0. \A i \in T : i \in {1, 2, 3, 4}
  OBVIOUS
<1>1. CASE 1 \in T
  BY <1>0, <1>1
<1>2. CASE 1 \notin T /\ 2 \in T
  BY <1>0, <1>2
<1>3. CASE 1 \notin T /\ 2 \notin T /\ 3 \in T
  <2>1. \A i \in T : i \in {3, 4}
    BY <1>0, <1>3
  <2> QED
    BY <1>3, <2>1
<1>4. CASE 1 \notin T /\ 2 \notin T /\ 3 \notin T
  <2>1. \A i \in T : i = 4
    BY <1>0, <1>4
  <2>2. PICK k \in T : k = 4
    BY <2>1
  <2> QED
    BY <2>1, <2>2
<1> QED
  BY <1>1, <1>2, <1>3, <1>4

LEMMA CandidateFacts ==
  ASSUME NEW j \in Jobs
  PROVE  LET c == Candidates(j)
             r == job[j].reading
         IN  /\ c \in Seq(Candidate)
             /\ Len(c) <= 4
             /\ r.txn \in DOMAIN TxnEvent
                  => \E i \in 1 .. Len(c) : c[i].txn = r.txn
             /\ config # NoConfig /\ config.limit # None /\ r.speed > config.limit
                  => \E i \in 1 .. Len(c) : c[i].txn \in {"B", "D"}
<1> DEFINE r == job[j].reading
           ask(cond, t, type) == IF cond THEN <<[txn |-> t, type |-> type]>> ELSE <<>>
           over == config.limit # None /\ r.speed > config.limit
                     /\ r.txn \notin {"B", "D"}
           mapped == IF r.txn \in DOMAIN TxnEvent
                     THEN <<[txn |-> r.txn, type |-> TxnEvent[r.txn]]>> ELSE <<>>
           a == ask(config.firmware # r.firmware, "Q", "Firmware Mismatch")
           b == ask(config.hardware # r.hardware, "Q", "Hardware Mismatch")
           d == ask(over, "D", "Overspeed Alert")
           c == Candidates(j)
<1>1. c = IF config = NoConfig THEN mapped ELSE mapped \o a \o b \o d
  BY DEF Candidates
<1>2. {"B", "D", "Q"} \subseteq DOMAIN TxnEvent
  BY DEF TxnEvent
<1>3. /\ mapped \in Seq(Candidate) /\ Len(mapped) <= 1
      /\ r.txn \in DOMAIN TxnEvent => \E i \in 1 .. Len(mapped) : mapped[i].txn = r.txn
  <2> DEFINE x == [txn |-> r.txn, type |-> TxnEvent[r.txn]]
             cond == r.txn \in DOMAIN TxnEvent
  <2>1. cond => x \in Candidate
    BY DEF Candidate, DecoderTypes
  <2>2. x.txn = r.txn /\ mapped = (IF cond THEN <<x>> ELSE <<>>) /\ cond \in BOOLEAN
    OBVIOUS
  <2> HIDE DEF x, cond, mapped
  <2>3. /\ mapped \in Seq(Candidate) /\ Len(mapped) <= 1
        /\ cond => \E i \in 1 .. Len(mapped) : mapped[i] = x
    BY <2>1, <2>2, Asked
  <2> QED
    BY <2>2, <2>3 DEF cond
<1>4. ASSUME NEW cond \in BOOLEAN, NEW t \in {"Q", "D"},
             NEW type \in {"Firmware Mismatch", "Hardware Mismatch", "Overspeed Alert"}
      PROVE  /\ ask(cond, t, type) \in Seq(Candidate)
             /\ Len(ask(cond, t, type)) <= 1
             /\ cond => \E i \in 1 .. Len(ask(cond, t, type)) : ask(cond, t, type)[i].txn = t
  <2> DEFINE x == [txn |-> t, type |-> type]
  <2>1. x \in Candidate /\ x.txn = t
    BY <1>2 DEF Candidate, DecoderTypes
  <2>2. ask(cond, t, type) = IF cond THEN <<x>> ELSE <<>>
    OBVIOUS
  <2> HIDE DEF x, ask
  <2>3. /\ ask(cond, t, type) \in Seq(Candidate) /\ Len(ask(cond, t, type)) <= 1
        /\ cond => \E i \in 1 .. Len(ask(cond, t, type)) : ask(cond, t, type)[i] = x
    BY <2>1, <2>2, Asked
  <2> QED
    BY <2>1, <2>3
<1>5. /\ (config.firmware # r.firmware) \in BOOLEAN
      /\ (config.hardware # r.hardware) \in BOOLEAN /\ over \in BOOLEAN
  OBVIOUS
<1> HIDE DEF ask
<1>6. /\ a \in Seq(Candidate) /\ Len(a) <= 1
      /\ b \in Seq(Candidate) /\ Len(b) <= 1
      /\ d \in Seq(Candidate) /\ Len(d) <= 1
      /\ over => \E i \in 1 .. Len(d) : d[i].txn = "D"
  BY <1>4, <1>5
<1> HIDE DEF a, b, d, mapped
<1>7. CASE config = NoConfig
  <2>1. c = mapped
    BY <1>1, <1>7
  <2> QED
    BY <1>3, <1>7, <2>1
<1>8. CASE config # NoConfig
  <2>1. c = mapped \o a \o b \o d
    BY <1>1, <1>8
  <2> HIDE DEF c
  <2> DEFINE ma == mapped \o a
             mab == ma \o b
  <2>6. /\ c = mab \o d
        /\ mapped \in Seq(Candidate) /\ a \in Seq(Candidate)
        /\ b \in Seq(Candidate) /\ d \in Seq(Candidate)
    BY <1>3, <1>6, <2>1
  <2>7. Len(mapped) <= 1 /\ Len(a) <= 1 /\ Len(b) <= 1 /\ Len(d) <= 1
    BY <1>3, <1>6
  <2>8. ma = mapped \o a
    OBVIOUS
  <2>9. mab = ma \o b
    OBVIOUS
  <2> HIDE DEF ma, mab
  <2>10. /\ ma \in Seq(Candidate)
         /\ Len(ma) = Len(mapped) + Len(a)
         /\ \A i \in 1 .. Len(mapped) : \E k \in 1 .. Len(ma) : ma[k] = mapped[i]
         /\ \A i \in 1 .. Len(a) : \E k \in 1 .. Len(ma) : ma[k] = a[i]
    <3>1. mapped \in Seq(Candidate) /\ a \in Seq(Candidate)
      BY <2>6
    <3>3. ma \in Seq(Candidate) /\ Len(ma) = Len(mapped) + Len(a)
      BY <2>8, <3>1, Joined
    <3>4. \A i \in 1 .. Len(mapped) : \E k \in 1 .. Len(ma) : ma[k] = mapped[i]
      BY <2>8, <3>1, Joined
    <3>5. \A i \in 1 .. Len(a) : \E k \in 1 .. Len(ma) : ma[k] = a[i]
      BY <2>8, <3>1, Joined
    <3> QED
      BY <3>3, <3>4, <3>5
  <2>11. /\ mab \in Seq(Candidate)
         /\ Len(mab) = Len(ma) + Len(b)
         /\ \A i \in 1 .. Len(ma) : \E k \in 1 .. Len(mab) : mab[k] = ma[i]
         /\ \A i \in 1 .. Len(b) : \E k \in 1 .. Len(mab) : mab[k] = b[i]
    <3>1. ma \in Seq(Candidate) /\ b \in Seq(Candidate)
      BY <2>6, <2>10
    <3>3. mab \in Seq(Candidate) /\ Len(mab) = Len(ma) + Len(b)
      BY <2>9, <3>1, Joined
    <3>4. \A i \in 1 .. Len(ma) : \E k \in 1 .. Len(mab) : mab[k] = ma[i]
      BY <2>9, <3>1, Joined
    <3>5. \A i \in 1 .. Len(b) : \E k \in 1 .. Len(mab) : mab[k] = b[i]
      BY <2>9, <3>1, Joined
    <3> QED
      BY <3>3, <3>4, <3>5
  <2>12. /\ c \in Seq(Candidate)
         /\ Len(c) = Len(mab) + Len(d)
         /\ \A i \in 1 .. Len(mab) : \E k \in 1 .. Len(c) : c[k] = mab[i]
         /\ \A i \in 1 .. Len(d) : \E k \in 1 .. Len(c) : c[k] = d[i]
    <3>1. mab \in Seq(Candidate) /\ d \in Seq(Candidate)
      BY <2>6, <2>11
    <3>2. c = mab \o d
      BY <2>6
    <3>3. c \in Seq(Candidate) /\ Len(c) = Len(mab) + Len(d)
      BY <3>1, <3>2, Joined
    <3>4. \A i \in 1 .. Len(mab) : \E k \in 1 .. Len(c) : c[k] = mab[i]
      BY <3>1, <3>2, Joined
    <3>5. \A i \in 1 .. Len(d) : \E k \in 1 .. Len(c) : c[k] = d[i]
      BY <3>1, <3>2, Joined
    <3> QED
      BY <3>3, <3>4, <3>5
  <2>13. Len(c) <= 4
    <3>1. Len(ma) <= 2
      BY <2>6, <2>7, <2>10
    <3>2. Len(mab) <= 3
      BY <2>6, <2>7, <2>10, <2>11, <3>1
    <3> QED
      BY <2>6, <2>7, <2>11, <2>12, <3>2
  <2>2. /\ c \in Seq(Candidate) /\ Len(c) <= 4
        /\ \A i \in 1 .. Len(mapped) : \E k \in 1 .. Len(c) : c[k] = mapped[i]
        /\ \A i \in 1 .. Len(d) : \E k \in 1 .. Len(c) : c[k] = d[i]
    <3>1. ASSUME NEW i \in 1 .. Len(mapped)
          PROVE  \E k \in 1 .. Len(c) : c[k] = mapped[i]
      <4>1. PICK k \in 1 .. Len(ma) : ma[k] = mapped[i]
        BY <2>10
      <4>2. PICK m \in 1 .. Len(mab) : mab[m] = ma[k]
        BY <2>11
      <4>3. PICK n \in 1 .. Len(c) : c[n] = mab[m]
        BY <2>12
      <4> QED
        BY <4>1, <4>2, <4>3
    <3> QED
      BY <2>12, <2>13, <3>1
  <2>3. r.txn \in DOMAIN TxnEvent => \E i \in 1 .. Len(c) : c[i].txn = r.txn
    BY <1>3, <2>2
  <2>4. over => \E i \in 1 .. Len(c) : c[i].txn = "D"
    BY <1>6, <2>2
  <2>5. config.limit # None /\ r.speed > config.limit
          => \E i \in 1 .. Len(c) : c[i].txn \in {"B", "D"}
    BY <1>2, <2>3, <2>4
  <2> QED
    BY <2>2, <2>3, <2>5 DEF c
<1> QED
  BY <1>7, <1>8

\* The decoder leaves a row of every alert it asks for, its own or an earlier.
LEMMA DecodedRows ==
  ASSUME AlertsIInv, NEW j \in Jobs
  PROVE  LET c == Candidates(j)
         IN  /\ Decoded(j) \subseteq RowType
             /\ \A e \in Decoded(j) : SignedRow(e) /\ e.by = "decoder"
             /\ \A i \in 1 .. Len(c) : \E e \in events \cup Decoded(j) :
                  e.by = "decoder" /\ e.msgid = job[j].msgid /\ e.txn = c[i].txn
<1> DEFINE c == Candidates(j)
           m == job[j].msgid
           taken(i) == /\ m # None
                       /\ \/ \E e \in events : e.txn = c[i].txn /\ e.msgid = m
                          \/ \E k \in 1 .. i - 1 : c[k].txn = c[i].txn
           put(i) == Event(j, c[i].type, c[i].txn, m, now, "decoder")
<1>1. c \in Seq(Candidate) /\ Len(c) <= 4
  BY CandidateFacts
<1>2. Decoded(j) = {put(i) : i \in {k \in DOMAIN c : ~taken(k)}}
  BY DEF Decoded
<1>3. /\ job[j] \in JobType /\ now \in Nat /\ events \subseteq RowType
      /\ \A e \in events : SignedRow(e)
  BY AlertConstants DEF AlertsIInv, AlertsTyped, RowsSigned
<1>4. m \in MsgIds
  BY <1>3 DEF JobType
<1> HIDE DEF c, m
<1>5. DOMAIN c = 1 .. Len(c) /\ \A i \in 1 .. Len(c) : c[i] \in Candidate
  BY <1>1
<1>6. ASSUME NEW i \in 1 .. Len(c)
      PROVE  /\ put(i) \in RowType /\ SignedRow(put(i))
             /\ put(i).by = "decoder" /\ put(i).msgid = m /\ put(i).txn = c[i].txn
  <2>1. c[i] \in Candidate
    BY <1>5
  <2>2. c[i].txn \in DOMAIN TxnEvent /\ c[i].type \in DecoderTypes
    BY <2>1 DEF Candidate
  <2>3. put(i) = [job |-> j, type |-> c[i].type, txn |-> c[i].txn, msgid |-> m,
                  at |-> now, by |-> "decoder"]
    BY DEF Event
  <2> HIDE DEF put
  <2> QED
    BY <1>3, <1>4, <2>2, <2>3 DEF RowType, SignedRow
<1>7. ASSUME NEW i \in 1 .. Len(c)
      PROVE  \E e \in events \cup Decoded(j) :
               e.by = "decoder" /\ e.msgid = m /\ e.txn = c[i].txn
  <2> DEFINE T == {k \in 1 .. Len(c) : c[k].txn = c[i].txn}
  <2>1. T \subseteq 1 .. 4 /\ i \in T
    BY <1>1
  <2>2. PICK k \in T : \A n \in T : k <= n
    BY <2>1, LeastOfFour
  <2>3. CASE \E e \in events : e.txn = c[k].txn /\ e.msgid = m /\ m # None
    <3>1. PICK e \in events : e.txn = c[k].txn /\ e.msgid = m /\ m # None
      BY <2>3
    <3>2. e.by = "decoder"
      BY <1>3, <3>1 DEF SignedRow, RowType
    <3> QED
      BY <2>2, <3>1, <3>2
  <2>4. CASE ~\E e \in events : e.txn = c[k].txn /\ e.msgid = m /\ m # None
    <3>1. ~\E n \in 1 .. k - 1 : c[n].txn = c[k].txn
      <4> SUFFICES ASSUME NEW n \in 1 .. k - 1, c[n].txn = c[k].txn
                   PROVE  FALSE
        OBVIOUS
      <4>1. k \in 1 .. Len(c) /\ Len(c) \in Nat
        BY <1>1, <2>2
      <4>2. n \in 1 .. Len(c) /\ n < k
        BY <4>1
      <4>3. n \in T
        BY <2>2, <4>2
      <4> QED
        BY <2>2, <4>1, <4>2, <4>3
    <3>2. k \in {n \in DOMAIN c : ~taken(n)}
      BY <1>5, <2>2, <2>4, <3>1
    <3>3. put(k) \in Decoded(j)
      BY <1>2, <3>2
    <3> HIDE DEF put
    <3> QED
      BY <1>6, <2>2, <3>3
  <2> QED
    BY <2>3, <2>4
<1>8. \A e \in Decoded(j) : e \in RowType /\ SignedRow(e) /\ e.by = "decoder"
  <2> SUFFICES ASSUME NEW e \in Decoded(j)
               PROVE  e \in RowType /\ SignedRow(e) /\ e.by = "decoder"
    OBVIOUS
  <2>1. PICK i \in DOMAIN c : e = put(i)
    BY <1>2
  <2> HIDE DEF put
  <2> QED
    BY <1>5, <1>6, <2>1
<1> QED
  BY <1>7, <1>8 DEF c, m

\* The engine leaves a row close to every transition its rules saw.
LEMMA DetectedRows ==
  ASSUME AlertsIInv, NEW j \in Jobs
  PROVE  /\ \A e \in Detected(j) :
              /\ e \in RowType /\ SignedRow(e) /\ e.by = "engine" /\ e.at = job[j].at
              /\ ~Repeats(OfType(events \cup job[j].rows, e.type), job[j].at)
         /\ \A e, f \in Detected(j) : e.type = f.type => e = f
         /\ \A t \in Firings(job[j].prev, job[j].reading) :
              \E e \in events \cup (job[j].rows \cup Detected(j)) :
                e.type = t /\ Near(e.at, job[j].at)
<1> DEFINE F == Firings(job[j].prev, job[j].reading)
           a == job[j].at
           rows == events \cup job[j].rows
           put(t) == Event(j, t, "-", None, a, "engine")
<1>1. Detected(j) = {put(t) : t \in {u \in F : ~Repeats(OfType(rows, u), a)}}
  BY DEF Detected
<1>2. F \subseteq EngineTypes
  BY FiringTypes
<1>3. a \in Nat /\ rows \subseteq RowType
  BY DEF AlertsIInv, AlertsTyped, JobType
<1> HIDE DEF F, a, rows
<1>4. ASSUME NEW t \in F
      PROVE  /\ put(t) \in RowType /\ SignedRow(put(t))
             /\ put(t).by = "engine" /\ put(t).at = a /\ put(t).type = t
  <2>1. put(t) = [job |-> j, type |-> t, txn |-> "-", msgid |-> None,
                  at |-> a, by |-> "engine"]
    BY DEF Event
  <2> HIDE DEF put
  <2> QED
    BY <1>2, <1>3, <2>1 DEF RowType, SignedRow, MsgIds
<1>5. ASSUME NEW e \in Detected(j)
      PROVE  /\ e \in RowType /\ SignedRow(e) /\ e.by = "engine" /\ e.at = a
             /\ e = put(e.type) /\ ~Repeats(OfType(rows, e.type), a)
  <2>1. PICK t \in F : e = put(t) /\ ~Repeats(OfType(rows, t), a)
    BY <1>1
  <2> HIDE DEF put
  <2> QED
    BY <1>4, <2>1
<1>6. ASSUME NEW t \in F
      PROVE  \E e \in rows \cup Detected(j) : e.type = t /\ Near(e.at, a)
  <2>1. CASE Repeats(OfType(rows, t), a)
    <3>1. PICK e \in rows : e.type = t /\ Near(a, e.at)
      BY <2>1 DEF Repeats, OfType
    <3>2. e.at \in Nat
      BY <1>3 DEF RowType
    <3> QED
      BY <1>3, <3>1, <3>2, NearFacts
  <2>2. CASE ~Repeats(OfType(rows, t), a)
    <3>1. put(t) \in Detected(j)
      BY <1>1, <2>2
    <3> HIDE DEF put
    <3> QED
      BY <1>3, <1>4, <3>1, NearFacts
  <2> QED
    BY <2>1, <2>2
<1> HIDE DEF put
<1> QED
  BY <1>5, <1>6 DEF F, a, rows

\* A notification rule leaves an alert close to every row of the engine that it
\* matches.
LEMMA AlertedNotes ==
  ASSUME AlertsIInv, NEW j \in Jobs
  PROVE  /\ Alerted(j) \subseteq NoteType
         /\ \A e \in job[j].rows : e.by = "engine" /\ e.type \in Notified =>
              \E n \in notes \cup Alerted(j) : n.type = e.type /\ Near(n.at, e.at)
<1> DEFINE note(e) == [job |-> j, type |-> e.type, at |-> e.at, flags |-> {}]
           rows == {x \in job[j].rows : /\ x.by = "engine"
                                       /\ x.type \in Notified
                                       /\ ~Repeats(OfType(notes, x.type), x.at)}
<1>1. Alerted(j) = {note(e) : e \in rows}
  BY DEF Alerted
<1>2. job[j].rows \subseteq RowType /\ notes \subseteq NoteType
  BY DEF AlertsIInv, AlertsTyped, JobType
<1>3. ASSUME NEW e \in RowType, e.type \in Notified
      PROVE  note(e) \in NoteType /\ note(e).type = e.type /\ note(e).at = e.at
  BY <1>3 DEF NoteType, RowType
<1>4. Alerted(j) \subseteq NoteType
  <2> SUFFICES ASSUME NEW n \in Alerted(j)
               PROVE  n \in NoteType
    OBVIOUS
  <2>1. PICK e \in rows : n = note(e)
    BY <1>1
  <2>2. e \in RowType /\ e.type \in Notified
    BY <1>2
  <2> HIDE DEF note
  <2> QED
    BY <1>3, <2>1, <2>2
<1>5. ASSUME NEW e \in job[j].rows, e.by = "engine", e.type \in Notified
      PROVE  \E n \in notes \cup Alerted(j) : n.type = e.type /\ Near(n.at, e.at)
  <2>1. e \in RowType /\ e.at \in Nat
    BY <1>2 DEF RowType
  <2>2. CASE Repeats(OfType(notes, e.type), e.at)
    <3>1. PICK n \in notes : n.type = e.type /\ Near(e.at, n.at)
      BY <2>2 DEF Repeats, OfType
    <3>2. n.at \in Nat
      BY <1>2 DEF NoteType
    <3> QED
      BY <2>1, <3>1, <3>2, NearFacts
  <2>3. CASE ~Repeats(OfType(notes, e.type), e.at)
    <3>1. e \in rows
      BY <1>5, <2>3
    <3>2. note(e) \in Alerted(j)
      BY <1>1, <3>1
    <3>3. note(e).type = e.type /\ note(e).at = e.at
      BY <1>3, <1>5, <2>1
    <3> HIDE DEF note, rows
    <3> QED
      BY <2>1, <3>2, <3>3, NearFacts
  <2> QED
    BY <2>2, <2>3
<1> QED
  BY <1>4, <1>5

\* A row of the engine far from the latest of its type is far from all of them,
\* when none is later than it.
LEMMA FarFromAll ==
  ASSUME NEW a \in Nat, NEW rows, \A e \in rows : e.at \in Nat /\ e.at <= a,
         rows # {} => \E e \in rows : \A f \in rows : f.at <= e.at,
         ~Repeats(rows, a)
  PROVE  \A f \in rows : ~Near(a, f.at)
<1> SUFFICES ASSUME NEW f \in rows
             PROVE  ~Near(a, f.at)
  OBVIOUS
<1>1. PICK e \in rows : \A g \in rows : g.at <= e.at
  OBVIOUS
<1>2. ~Near(a, e.at)
  BY <1>1 DEF Repeats
<1>3. f.at <= e.at /\ e.at <= a /\ f.at \in Nat /\ e.at \in Nat
  BY <1>1
<1> QED
  BY <1>2, <1>3 DEF Near, Gap

-----------------------------------------------------------------------------
(***************************************************************************)
(* Every step of the alerts keeps the invariant.                           *)
(***************************************************************************)
LEMMA InitKeepsAlerts == Init => AlertsIInv
<1> SUFFICES ASSUME Init
             PROVE  AlertsIInv
  OBVIOUS
<1> USE AlertConstants DEF Init, Idle
<1>1. AlertsTyped
  <2>1. Idle \in JobType
    BY DEF JobType, MsgIds, Open
  <2>2. job \in [Jobs -> JobType] /\ \A j \in Jobs : job[j].pc \notin Open
    BY <2>1 DEF Open
  <2>3. now \in Times /\ ops \in 0 .. MaxOps /\ config \in Configs /\ orderly \in BOOLEAN
    OBVIOUS
  <2>4. /\ locations \subseteq LocationType /\ events \subseteq RowType
        /\ notes \subseteq NoteType
    OBVIOUS
  <2> QED
    BY <2>2, <2>3, <2>4 DEF AlertsTyped
<1>2. RowsSigned
  BY DEF RowsSigned
<1>3. JobsKeepUp
  BY DEF JobsKeepUp
<1>4. Orderly
  BY DEF Orderly, Running, Open, OfType
<1>5. EverythingReported /\ EngineEventsAreNotified /\ SpacedWhenOrderly
  BY DEF EverythingReported, FiringsAreReported, DeviceReportsKept,
         EngineEventsAreNotified, SpacedWhenOrderly
<1> QED
  BY <1>1, <1>2, <1>3, <1>4, <1>5 DEF AlertsIInv

\* Rows never go away, so that a job that stands still keeps up.
LEMMA StandingKeepsUp ==
  ASSUME NEW k \in Jobs, job'[k] = job[k], events \subseteq events',
         \A n \in notes : \E m \in notes' : m.type = n.type /\ m.at = n.at
  PROVE  /\ JobDecoded(k) => JobDecoded(k)'
         /\ JobDetected(k) => JobDetected(k)'
         /\ JobNotified(k) => JobNotified(k)'
<1>1. JobDecoded(k) => JobDecoded(k)'
  BY DEF JobDecoded
<1>2. JobDetected(k) => JobDetected(k)'
  BY DEF JobDetected
<1>3. JobNotified(k) => JobNotified(k)'
  BY DEF JobNotified
<1> QED
  BY <1>1, <1>2, <1>3

\* What a job does by itself between its start and its end.
LEMMA JobStep ==
  ASSUME AlertsIInv, NEW j \in Jobs,
         UNCHANGED <<now, config, locations, events, notes, orderly, ops>>,
         job' \in [Jobs -> JobType], \A k \in Jobs \ {j} : job'[k] = job[k],
         job'[j].pc \in Open =>
           job[j].pc \in Open /\ job'[j].at = job[j].at /\ job'[j].reading \in Readings,
         \A e \in job'[j].rows :
           /\ SignedRow(e)
           /\ e.by = "engine" => /\ e.at = job'[j].at
                                 /\ job'[j].pc \in {"detected", "notified"},
         job'[j].pc \in {"decoded", "detected", "notified"} => JobDecoded(j)',
         job'[j].pc \in {"detected", "notified"} => JobDetected(j)',
         job'[j].pc = "notified" => JobNotified(j)',
         orderly => \A e \in job'[j].rows : Spaced(e) =>
                      \A f \in events \cup job'[j].rows :
                        f.type = e.type /\ f # e => ~Near(e.at, f.at)
  PROVE  AlertsIInv'
<1>1. AlertsTyped'
  BY DEF AlertsIInv, AlertsTyped
<1>2. RowsSigned'
  BY DEF AlertsIInv, RowsSigned
<1>3. JobsKeepUp'
  <2> SUFFICES ASSUME NEW k \in Jobs
               PROVE  /\ job'[k].pc \in {"decoded", "detected", "notified"} => JobDecoded(k)'
                      /\ job'[k].pc \in {"detected", "notified"} => JobDetected(k)'
                      /\ job'[k].pc = "notified" => JobNotified(k)'
    BY DEF JobsKeepUp
  <2>1. CASE k # j
    <3>1. /\ job[k].pc \in {"decoded", "detected", "notified"} => JobDecoded(k)
          /\ job[k].pc \in {"detected", "notified"} => JobDetected(k)
          /\ job[k].pc = "notified" => JobNotified(k)
      BY DEF AlertsIInv, JobsKeepUp
    <3>2. job'[k] = job[k] /\ events' = events /\ notes' = notes
      BY <2>1
    <3>3. /\ JobDecoded(k) => JobDecoded(k)'
          /\ JobDetected(k) => JobDetected(k)'
          /\ JobNotified(k) => JobNotified(k)'
      BY <3>2, StandingKeepsUp
    <3> QED
      BY <3>1, <3>2, <3>3
  <2> QED
    BY <2>1
<1>4. Orderly'
  <2>1. \A e \in events : e.by = "engine" => \E l \in locations : l.at = e.at
    BY DEF AlertsIInv, Orderly
  <2>2. ASSUME orderly
        PROVE  /\ \A i, k \in Jobs : job'[i].pc \in Open /\ job'[k].pc \in Open => i = k
               /\ \A k \in Jobs : job'[k].pc \in Open =>
                    \A l \in locations : l.at <= job'[k].at
               /\ \A e \in events : Spaced(e) =>
                    \E f \in OfType(events, e.type) :
                      \A g \in OfType(events, e.type) : g.at <= f.at
               /\ \A k \in Jobs : \A e \in job'[k].rows : Spaced(e) =>
                    \A f \in events \cup job'[k].rows :
                      f.type = e.type /\ f # e => ~Near(e.at, f.at)
    BY <2>2 DEF AlertsIInv, Orderly, Running
  <2> QED
    BY <2>1, <2>2 DEF Orderly, Running, OfType
<1>5. EverythingReported' /\ EngineEventsAreNotified' /\ SpacedWhenOrderly'
  BY DEF AlertsIInv, EverythingReported, FiringsAreReported, DeviceReportsKept,
         EngineEventsAreNotified, SpacedWhenOrderly
<1> QED
  BY <1>1, <1>2, <1>3, <1>4, <1>5 DEF AlertsIInv

LEMMA FetchKeeps ==
  ASSUME AlertsIInv, NEW j \in Jobs, Fetch(j)
  PROVE  AlertsIInv'
<1>1. PICK k \in Packets,
           p \in IF locations = {} THEN {NoReading} ELSE {l.reading : l \in Latest} :
        /\ job' = [job EXCEPT ![j] = [Idle EXCEPT !.pc = "fetched", !.prev = p, !.at = k.at,
                                          !.msgid = k.msgid, !.reading = k.reading]]
        /\ orderly' = (orderly /\ Running = {} /\ \A l \in locations : l.at <= k.at)
  BY DEF Fetch
<1>2. /\ now' \in Times /\ UNCHANGED <<config, locations, events, notes, ops>>
  BY DEF Fetch
<1>3. /\ job \in [Jobs -> JobType] /\ locations \subseteq LocationType
      /\ orderly \in BOOLEAN
  BY DEF AlertsIInv, AlertsTyped
<1>4. k.reading \in Readings /\ k.at \in Nat /\ k.msgid \in MsgIds
  BY AlertConstants DEF Readings, MsgIds
<1>5. p \in Readings \cup {NoReading}
  BY <1>3 DEF Latest, LocationType
<1> DEFINE new == [Idle EXCEPT !.pc = "fetched", !.prev = p, !.at = k.at,
                               !.msgid = k.msgid, !.reading = k.reading]
<1>6. /\ new \in JobType /\ new.pc = "fetched" /\ new.at = k.at /\ new.rows = {}
      /\ new.reading \in Readings
  BY <1>4, <1>5 DEF Idle, JobType, Open
<1>7. job' = [job EXCEPT ![j] = new]
  BY <1>1
<1> HIDE DEF new
<1>8. /\ job' \in [Jobs -> JobType] /\ job'[j] = new
      /\ \A i \in Jobs \ {j} : job'[i] = job[i]
  BY <1>3, <1>6, <1>7
<1>9. AlertsTyped'
  <2>1. orderly' \in BOOLEAN
    BY <1>1
  <2> QED
    BY <1>2, <1>6, <1>8, <2>1 DEF AlertsIInv, AlertsTyped
<1>10. RowsSigned'
  BY <1>2, <1>6, <1>8 DEF AlertsIInv, RowsSigned
<1>11. JobsKeepUp'
  <2> SUFFICES ASSUME NEW i \in Jobs
               PROVE  /\ job'[i].pc \in {"decoded", "detected", "notified"} => JobDecoded(i)'
                      /\ job'[i].pc \in {"detected", "notified"} => JobDetected(i)'
                      /\ job'[i].pc = "notified" => JobNotified(i)'
    BY DEF JobsKeepUp
  <2>1. CASE i # j
    BY <1>2, <1>8, <2>1, StandingKeepsUp DEF AlertsIInv, JobsKeepUp
  <2> QED
    BY <1>6, <1>8, <2>1
<1>12. Orderly'
  <2>1. \A e \in events : e.by = "engine" => \E l \in locations : l.at = e.at
    BY DEF AlertsIInv, Orderly
  <2>2. ASSUME orderly'
        PROVE  /\ \A i, m \in Jobs : job'[i].pc \in Open /\ job'[m].pc \in Open => i = m
               /\ \A i \in Jobs : job'[i].pc \in Open =>
                    \A l \in locations : l.at <= job'[i].at
               /\ \A e \in events : Spaced(e) =>
                    \E f \in OfType(events, e.type) :
                      \A g \in OfType(events, e.type) : g.at <= f.at
               /\ \A i \in Jobs : \A e \in job'[i].rows : Spaced(e) =>
                    \A f \in events \cup job'[i].rows :
                      f.type = e.type /\ f # e => ~Near(e.at, f.at)
    <3>1. orderly /\ Running = {} /\ \A l \in locations : l.at <= k.at
      BY <1>1, <2>2
    <3>2. \A i \in Jobs : job'[i].pc \in Open => i = j
      BY <1>8, <3>1 DEF Running
    <3>3. \A i \in Jobs : job'[i].pc \in Open => \A l \in locations : l.at <= job'[i].at
      BY <1>6, <1>8, <3>1, <3>2
    <3>4. \A e \in events : Spaced(e) =>
            \E f \in OfType(events, e.type) :
              \A g \in OfType(events, e.type) : g.at <= f.at
      BY <3>1 DEF AlertsIInv, Orderly
    <3>5. \A i \in Jobs : \A e \in job'[i].rows : Spaced(e) =>
            \A f \in events \cup job'[i].rows :
              f.type = e.type /\ f # e => ~Near(e.at, f.at)
      BY <1>6, <1>8, <3>1 DEF AlertsIInv, Orderly
    <3> QED
      BY <3>2, <3>3, <3>4, <3>5
  <2> QED
    BY <1>2, <2>1, <2>2 DEF Orderly, Running, OfType
<1>13. EverythingReported' /\ EngineEventsAreNotified' /\ SpacedWhenOrderly'
  <2>1. orderly' => orderly
    BY <1>1
  <2> QED
    BY <1>2, <2>1 DEF AlertsIInv, EverythingReported, FiringsAreReported, DeviceReportsKept,
         EngineEventsAreNotified, SpacedWhenOrderly
<1> QED
  BY <1>9, <1>10, <1>11, <1>12, <1>13 DEF AlertsIInv

LEMMA DecodeKeeps ==
  ASSUME AlertsIInv, NEW j \in Jobs, Decode(j)
  PROVE  AlertsIInv'
<1> DEFINE over == /\ config # NoConfig
                   /\ config.limit # None
                   /\ job[j].reading.speed > config.limit
           c == Candidates(j)
<1>1. /\ job[j].pc = "fetched"
      /\ job' = [job EXCEPT ![j].pc = "decoded", ![j].rows = Decoded(j), ![j].over = over]
      /\ UNCHANGED <<now, config, locations, events, notes, orderly, ops>>
  BY DEF Decode
<1>2. job \in [Jobs -> JobType] /\ job[j].reading \in Readings
  BY <1>1 DEF AlertsIInv, AlertsTyped, Open
<1>3. /\ Decoded(j) \subseteq RowType
      /\ \A e \in Decoded(j) : SignedRow(e) /\ e.by = "decoder"
      /\ \A i \in 1 .. Len(c) : \E e \in events \cup Decoded(j) :
           e.by = "decoder" /\ e.msgid = job[j].msgid /\ e.txn = c[i].txn
  BY DecodedRows
<1>4. /\ job[j].reading.txn \in DOMAIN TxnEvent
           => \E i \in 1 .. Len(c) : c[i].txn = job[j].reading.txn
      /\ over => \E i \in 1 .. Len(c) : c[i].txn \in {"B", "D"}
  BY CandidateFacts
<1>5. over \in BOOLEAN
  OBVIOUS
<1> HIDE DEF over, c
<1>6. /\ job' \in [Jobs -> JobType] /\ \A k \in Jobs \ {j} : job'[k] = job[k]
      /\ job'[j].pc = "decoded" /\ job'[j].rows = Decoded(j) /\ job'[j].over = over
      /\ job'[j].at = job[j].at /\ job'[j].reading = job[j].reading
      /\ job'[j].msgid = job[j].msgid
  <2> DEFINE new == [job[j] EXCEPT !.pc = "decoded", !.rows = Decoded(j), !.over = over]
  <2>1. job[j] \in JobType
    BY <1>2
  <2>2. new \in JobType
    BY <1>3, <1>5, <2>1 DEF JobType, Open
  <2>3. /\ new.pc = "decoded" /\ new.rows = Decoded(j) /\ new.over = over
        /\ new.at = job[j].at /\ new.reading = job[j].reading
        /\ new.msgid = job[j].msgid
    BY <2>1 DEF JobType
  <2>4. job' = [job EXCEPT ![j] = new]
    BY <1>1, <1>2
  <2> HIDE DEF new
  <2> QED
    BY <1>2, <2>2, <2>3, <2>4
<1>7. JobDecoded(j)'
  BY <1>1, <1>3, <1>4, <1>6 DEF JobDecoded
<1>8. \A e \in job'[j].rows : ~Spaced(e)
  BY <1>3, <1>6 DEF Spaced
<1> QED
  BY <1>1, <1>2, <1>3, <1>6, <1>7, <1>8, JobStep DEF Open

LEMMA DetectKeeps ==
  ASSUME AlertsIInv, NEW j \in Jobs, Detect(j)
  PROVE  AlertsIInv'
<1> DEFINE new == job[j].rows \cup Detected(j)
<1>1. /\ job[j].pc = "decoded"
      /\ job' = [job EXCEPT ![j].pc = "detected", ![j].rows = new]
      /\ UNCHANGED <<now, config, locations, events, notes, orderly, ops>>
  BY DEF Detect
<1>2. /\ job \in [Jobs -> JobType] /\ job[j].reading \in Readings
      /\ job[j].rows \subseteq RowType /\ events \subseteq RowType
      /\ locations \subseteq LocationType /\ job[j].at \in Nat
  BY <1>1 DEF AlertsIInv, AlertsTyped, JobType, Open
<1>3. \A e \in Detected(j) :
        /\ e \in RowType /\ SignedRow(e) /\ e.by = "engine" /\ e.at = job[j].at
        /\ ~Repeats(OfType(events \cup job[j].rows, e.type), job[j].at)
  BY DetectedRows
<1>4. \A e, f \in Detected(j) : e.type = f.type => e = f
  BY DetectedRows
<1>5. \A t \in Firings(job[j].prev, job[j].reading) :
        \E e \in events \cup new : e.type = t /\ Near(e.at, job[j].at)
  BY DetectedRows
<1>6. \A e \in job[j].rows : SignedRow(e) /\ e.by = "decoder"
  BY <1>1, <1>2 DEF AlertsIInv, RowsSigned, RowType
<1> HIDE DEF new
<1>7. /\ job' \in [Jobs -> JobType] /\ \A k \in Jobs \ {j} : job'[k] = job[k]
      /\ job'[j].pc = "detected" /\ job'[j].rows = new
      /\ job'[j].at = job[j].at /\ job'[j].reading = job[j].reading
      /\ job'[j].prev = job[j].prev /\ job'[j].msgid = job[j].msgid
      /\ job'[j].over = job[j].over
  <2>1. new \subseteq RowType
    BY <1>2, <1>3 DEF new
  <2> QED
    BY <1>1, <1>2, <2>1, ZenonT(30) DEF JobType, Open
<1>8. JobDecoded(j)'
  <2>1. JobDecoded(j)
    BY <1>1 DEF AlertsIInv, JobsKeepUp
  <2> QED
    BY <1>1, <1>7, <2>1 DEF JobDecoded, new
<1>9. JobDetected(j)'
  BY <1>1, <1>5, <1>7 DEF JobDetected
<1>10. ASSUME orderly, NEW e \in new, Spaced(e), NEW f \in events \cup new,
              f.type = e.type, f # e
       PROVE  ~Near(e.at, f.at)
  <2> DEFINE rows == OfType(events \cup job[j].rows, e.type)
  <2>1. e \in Detected(j)
    BY <1>6, <1>10 DEF new, Spaced
  <2>2. f \notin Detected(j)
    BY <1>4, <1>10, <2>1
  <2>3. \A g \in rows : g \in events /\ g.by = "engine" /\ g.at \in Nat /\ g.at <= e.at
    <3> SUFFICES ASSUME NEW g \in events \cup job[j].rows, g.type = e.type
                 PROVE  g \in events /\ g.by = "engine" /\ g.at \in Nat /\ g.at <= e.at
      BY DEF OfType
    <3>1. g \in RowType /\ SignedRow(g) /\ e \in RowType /\ SignedRow(e)
      BY <1>2, <1>3, <1>6, <2>1 DEF AlertsIInv, RowsSigned
    <3>2. g.by = "engine"
      BY <1>10, <3>1, SpacedTypes DEF RowType
    <3>3. g \in events
      BY <1>6, <3>2
    <3>4. PICK l \in locations : l.at = g.at
      BY <3>2, <3>3 DEF AlertsIInv, Orderly
    <3>5. l.at <= job[j].at
      BY <1>1, <1>10 DEF AlertsIInv, Orderly, Running, Open
    <3> QED
      BY <1>3, <2>1, <3>1, <3>2, <3>3, <3>4, <3>5 DEF RowType
  <2>4. rows # {} => \E g \in rows : \A h \in rows : h.at <= g.at
    <3> SUFFICES ASSUME NEW g \in rows
                 PROVE  \E h \in rows : \A i \in rows : i.at <= h.at
      OBVIOUS
    <3>1. g \in events /\ g.type = e.type /\ Spaced(g)
      BY <1>10, <2>3 DEF OfType, Spaced
    <3>2. PICK h \in OfType(events, g.type) : \A i \in OfType(events, g.type) : i.at <= h.at
      BY <1>10, <3>1 DEF AlertsIInv, Orderly
    <3>3. rows = OfType(events, g.type)
      BY <2>3, <3>1 DEF OfType
    <3> QED
      BY <3>2, <3>3
  <2>5. ~Repeats(rows, e.at) /\ e.at \in Nat
    BY <1>2, <1>3, <2>1
  <2>6. f \in rows
    BY <1>10, <2>2 DEF OfType, new
  <2> HIDE DEF rows
  <2>7. \A g \in rows : ~Near(e.at, g.at)
    BY <2>3, <2>4, <2>5, FarFromAll
  <2> QED
    BY <2>6, <2>7
<1>11. \A e \in new : SignedRow(e) /\ (e.by = "engine" => e.at = job[j].at)
  BY <1>3, <1>6 DEF new
<1> QED
  BY <1>1, <1>2, <1>7, <1>8, <1>9, <1>10, <1>11, JobStep DEF Open

LEMMA NotifyKeeps ==
  ASSUME AlertsIInv, NEW j \in Jobs, Notify(j)
  PROVE  AlertsIInv'
<1>1. /\ job[j].pc = "detected"
      /\ job' = [job EXCEPT ![j].pc = "notified", ![j].alerts = Alerted(j)]
      /\ UNCHANGED <<now, config, locations, events, notes, orderly, ops>>
  BY DEF Notify
<1>2. job \in [Jobs -> JobType] /\ job[j].reading \in Readings
  BY <1>1 DEF AlertsIInv, AlertsTyped, Open
<1>3. /\ Alerted(j) \subseteq NoteType
      /\ \A e \in job[j].rows : e.by = "engine" /\ e.type \in Notified =>
           \E n \in notes \cup Alerted(j) : n.type = e.type /\ Near(n.at, e.at)
  BY AlertedNotes
<1>4. /\ job' \in [Jobs -> JobType] /\ \A k \in Jobs \ {j} : job'[k] = job[k]
      /\ job'[j].pc = "notified" /\ job'[j].rows = job[j].rows
      /\ job'[j].alerts = Alerted(j)
      /\ job'[j].at = job[j].at /\ job'[j].reading = job[j].reading
      /\ job'[j].prev = job[j].prev /\ job'[j].msgid = job[j].msgid
      /\ job'[j].over = job[j].over
  BY <1>1, <1>2, <1>3 DEF JobType, Open
<1>5. JobDecoded(j)'
  <2>1. JobDecoded(j)
    BY <1>1 DEF AlertsIInv, JobsKeepUp
  <2> QED
    BY <1>1, <1>4, <2>1 DEF JobDecoded
<1>6. JobDetected(j)'
  <2>1. JobDetected(j)
    BY <1>1 DEF AlertsIInv, JobsKeepUp
  <2> QED
    BY <1>1, <1>4, <2>1 DEF JobDetected
<1>7. JobNotified(j)'
  BY <1>1, <1>3, <1>4 DEF JobNotified
<1>8. \A e \in job'[j].rows : SignedRow(e) /\ (e.by = "engine" => e.at = job'[j].at)
  BY <1>4 DEF AlertsIInv, RowsSigned
<1>9. orderly => \A e \in job'[j].rows : Spaced(e) =>
                   \A f \in events \cup job'[j].rows :
                     f.type = e.type /\ f # e => ~Near(e.at, f.at)
  BY <1>4 DEF AlertsIInv, Orderly
<1> QED
  BY <1>1, <1>2, <1>4, <1>5, <1>6, <1>7, <1>8, <1>9, JobStep DEF Open

LEMMA AbortKeeps ==
  ASSUME AlertsIInv, NEW j \in Jobs, Abort(j)
  PROVE  AlertsIInv'
<1> DEFINE new == [Idle EXCEPT !.pc = "done"]
<1>1. /\ job' = [job EXCEPT ![j] = new]
      /\ UNCHANGED <<now, config, locations, events, notes, orderly, ops>>
  BY DEF Abort
<1>2. new \in JobType /\ new.pc = "done" /\ new.rows = {}
  BY DEF Idle, JobType, MsgIds
<1> HIDE DEF new
<1>3. job \in [Jobs -> JobType]
  BY DEF AlertsIInv, AlertsTyped
<1>4. /\ job' \in [Jobs -> JobType] /\ \A k \in Jobs \ {j} : job'[k] = job[k]
      /\ job'[j].pc = "done" /\ job'[j].rows = {}
  BY <1>1, <1>2, <1>3
<1> QED
  BY <1>1, <1>4, JobStep DEF Open

\* A step that touches neither jobs nor the tables the jobs read.
LEMMA QuietStep ==
  ASSUME AlertsIInv, UNCHANGED <<now, locations, events, job, orderly>>,
         ops' \in 0 .. MaxOps, config' \in Configs, notes' \subseteq NoteType,
         \A n \in notes : \E m \in notes' : m.type = n.type /\ m.at = n.at
  PROVE  AlertsIInv'
<1>1. AlertsTyped'
  BY DEF AlertsIInv, AlertsTyped
<1>2. RowsSigned'
  BY DEF AlertsIInv, RowsSigned
<1>3. JobsKeepUp'
  <2> SUFFICES ASSUME NEW k \in Jobs
               PROVE  /\ job[k].pc \in {"decoded", "detected", "notified"} => JobDecoded(k)'
                      /\ job[k].pc \in {"detected", "notified"} => JobDetected(k)'
                      /\ job[k].pc = "notified" => JobNotified(k)'
    BY DEF JobsKeepUp
  <2>1. job'[k] = job[k] /\ events \subseteq events'
    OBVIOUS
  <2> QED
    BY <2>1, StandingKeepsUp DEF AlertsIInv, JobsKeepUp
<1>4. Orderly'
  BY DEF AlertsIInv, Orderly, Running, OfType
<1>5. EverythingReported' /\ SpacedWhenOrderly'
  BY DEF AlertsIInv, EverythingReported, FiringsAreReported, DeviceReportsKept,
         SpacedWhenOrderly
<1>6. EngineEventsAreNotified'
  BY DEF AlertsIInv, EngineEventsAreNotified
<1> QED
  BY <1>1, <1>2, <1>3, <1>4, <1>5, <1>6 DEF AlertsIInv

LEMMA HandleKeeps ==
  ASSUME AlertsIInv, NEW n \in notes, NEW flag \in {"acknowledged", "resolved"},
         Handle(n, flag)
  PROVE  AlertsIInv'
<1> DEFINE m == [n EXCEPT !.flags = @ \cup {flag}]
<1>1. /\ notes' = (notes \ {n}) \cup {m} /\ ops < MaxOps /\ ops' = ops + 1
      /\ UNCHANGED <<now, config, locations, events, job, orderly>>
  BY DEF Handle, Operator
<1>2. /\ ops \in 0 .. MaxOps /\ config \in Configs /\ notes \subseteq NoteType
  BY DEF AlertsIInv, AlertsTyped
<1>3. m \in NoteType /\ m.type = n.type /\ m.at = n.at
  <2>1. n \in NoteType
    BY <1>2
  <2> QED
    BY <2>1 DEF NoteType
<1> HIDE DEF m
<1>4. notes' \subseteq NoteType
  BY <1>1, <1>2, <1>3
<1>5. \A k \in notes : \E l \in notes' : l.type = k.type /\ l.at = k.at
  BY <1>1, <1>3
<1>6. ops' \in 0 .. MaxOps
  BY <1>1, <1>2, AlertConstants
<1> QED
  BY <1>1, <1>2, <1>4, <1>5, <1>6, QuietStep

LEMMA ConfigureKeeps ==
  ASSUME AlertsIInv, NEW c \in Configs, Configure(c)
  PROVE  AlertsIInv'
<1>1. /\ config' = c /\ ops < MaxOps /\ ops' = ops + 1
      /\ UNCHANGED <<now, locations, events, notes, job, orderly>>
  BY DEF Configure, Operator
<1>2. ops \in 0 .. MaxOps /\ notes \subseteq NoteType
  BY DEF AlertsIInv, AlertsTyped
<1>3. ops' \in 0 .. MaxOps
  BY <1>1, <1>2, AlertConstants
<1> QED
  BY <1>1, <1>2, <1>3, QuietStep

\* While jobs are orderly, a row of a job is as late as any row of its type.
LEMMA RowsAreLatest ==
  ASSUME AlertsIInv, orderly, NEW j \in Jobs, job[j].pc \in Open,
         NEW e \in job[j].rows, Spaced(e), NEW g \in events \cup job[j].rows, g.type = e.type
  PROVE  e.at \in Nat /\ g.at \in Nat /\ g.at <= e.at /\ Spaced(g)
<1>1. /\ events \subseteq RowType /\ locations \subseteq LocationType
      /\ job[j].rows \subseteq RowType
  BY DEF AlertsIInv, AlertsTyped, JobType
<1>2. e \in RowType /\ g \in RowType /\ SignedRow(e) /\ SignedRow(g)
  BY <1>1 DEF AlertsIInv, RowsSigned
<1>3. g.by = "engine" /\ Spaced(g) /\ e.by = "engine"
  BY <1>2, SpacedTypes DEF RowType, Spaced
<1>4. e.at = job[j].at
  BY <1>3 DEF AlertsIInv, RowsSigned
<1>5. CASE g \in job[j].rows
  <2>1. g.at = job[j].at
    BY <1>3, <1>5 DEF AlertsIInv, RowsSigned
  <2> QED
    BY <1>2, <1>3, <1>4, <2>1 DEF RowType
<1>6. CASE g \in events
  <2>1. PICK l \in locations : l.at = g.at
    BY <1>3, <1>6 DEF AlertsIInv, Orderly
  <2>2. l.at <= job[j].at
    BY DEF AlertsIInv, Orderly, Running
  <2> QED
    BY <1>2, <1>3, <1>4, <2>1, <2>2 DEF RowType
<1> QED
  BY <1>5, <1>6

LEMMA CommitKeeps ==
  ASSUME AlertsIInv, NEW j \in Jobs, Commit(j)
  PROVE  AlertsIInv'
<1> DEFINE loc == [job |-> j, at |-> job[j].at, prev |-> job[j].prev, over |-> job[j].over,
                   msgid |-> job[j].msgid, reading |-> job[j].reading]
           rows == job[j].rows
           alerts == job[j].alerts
           done == [Idle EXCEPT !.pc = "done"]
<1>1. /\ job[j].pc = "notified"
      /\ locations' = locations \cup {loc} /\ events' = events \cup rows
      /\ notes' = notes \cup alerts /\ job' = [job EXCEPT ![j] = done]
      /\ UNCHANGED <<now, config, orderly, ops>>
  BY DEF Commit
<1>2. /\ job \in [Jobs -> JobType] /\ job[j] \in JobType /\ job[j].reading \in Readings
      /\ locations \subseteq LocationType /\ events \subseteq RowType /\ notes \subseteq NoteType
  BY <1>1 DEF AlertsIInv, AlertsTyped, Open
<1>3. /\ rows \subseteq RowType /\ alerts \subseteq NoteType /\ loc \in LocationType
      /\ loc.at = job[j].at /\ loc.prev = job[j].prev /\ loc.over = job[j].over
      /\ loc.msgid = job[j].msgid /\ loc.reading = job[j].reading
  BY <1>2 DEF JobType, LocationType
<1>4. done \in JobType /\ done.pc = "done" /\ done.rows = {}
  BY DEF Idle, JobType, MsgIds
<1>5. JobDecoded(j) /\ JobDetected(j) /\ JobNotified(j)
  BY <1>1 DEF AlertsIInv, JobsKeepUp
<1> HIDE DEF loc, done
<1>6. /\ job' \in [Jobs -> JobType] /\ \A k \in Jobs \ {j} : job'[k] = job[k]
      /\ job'[j] = done
  BY <1>1, <1>2, <1>4
<1>7. /\ events \subseteq events'
      /\ \A n \in notes : \E m \in notes' : m.type = n.type /\ m.at = n.at
  BY <1>1
<1>8. AlertsTyped'
  BY <1>1, <1>2, <1>3, <1>4, <1>6 DEF AlertsIInv, AlertsTyped, Open
<1>9. RowsSigned'
  <2>1. \A e \in events' : SignedRow(e)
    BY <1>1 DEF AlertsIInv, RowsSigned
  <2>2. \A k \in Jobs : \A e \in job'[k].rows :
          /\ SignedRow(e)
          /\ e.by = "engine" => /\ e.at = job'[k].at
                                /\ job'[k].pc \in {"detected", "notified"}
    BY <1>4, <1>6 DEF AlertsIInv, RowsSigned
  <2> QED
    BY <2>1, <2>2 DEF RowsSigned
<1>10. JobsKeepUp'
  <2> SUFFICES ASSUME NEW i \in Jobs
               PROVE  /\ job'[i].pc \in {"decoded", "detected", "notified"} => JobDecoded(i)'
                      /\ job'[i].pc \in {"detected", "notified"} => JobDetected(i)'
                      /\ job'[i].pc = "notified" => JobNotified(i)'
    BY DEF JobsKeepUp
  <2>1. CASE i # j
    BY <1>6, <1>7, <2>1, StandingKeepsUp DEF AlertsIInv, JobsKeepUp
  <2> QED
    BY <1>4, <1>6, <2>1
<1>11. EverythingReported'
  <2>1. FiringsAreReported'
    <3> SUFFICES ASSUME NEW l \in locations', NEW t \in Firings(l.prev, l.reading)
                 PROVE  \E e \in events' : e.type = t /\ Near(e.at, l.at)
      BY DEF FiringsAreReported
    <3>1. CASE l = loc
      BY <1>1, <1>3, <1>5, <3>1 DEF JobDetected
    <3>2. CASE l \in locations
      BY <1>7, <3>2 DEF AlertsIInv, EverythingReported, FiringsAreReported
    <3> QED
      BY <1>1, <3>1, <3>2
  <2>2. DeviceReportsKept'
    <3> SUFFICES ASSUME NEW l \in locations'
                 PROVE  /\ l.reading.txn \in DOMAIN TxnEvent =>
                             \E e \in events' : /\ e.by = "decoder" /\ e.msgid = l.msgid
                                                /\ e.txn = l.reading.txn
                        /\ l.over => \E e \in events' : /\ e.by = "decoder"
                                                        /\ e.msgid = l.msgid
                                                        /\ e.txn \in {"B", "D"}
      BY DEF DeviceReportsKept
    <3>1. CASE l = loc
      BY <1>1, <1>3, <1>5, <3>1 DEF JobDecoded
    <3>2. CASE l \in locations
      BY <1>7, <3>2 DEF AlertsIInv, EverythingReported, DeviceReportsKept
    <3> QED
      BY <1>1, <3>1, <3>2
  <2> QED
    BY <2>1, <2>2 DEF EverythingReported
<1>12. EngineEventsAreNotified'
  <2> SUFFICES ASSUME NEW e \in events', e.by = "engine", e.type \in Notified
               PROVE  \E n \in notes' : n.type = e.type /\ Near(n.at, e.at)
    BY DEF EngineEventsAreNotified
  <2>1. CASE e \in rows
    BY <1>1, <1>5, <2>1 DEF JobNotified
  <2>2. CASE e \in events
    BY <1>1, <2>2 DEF AlertsIInv, EngineEventsAreNotified
  <2> QED
    BY <1>1, <2>1, <2>2
<1>13. SpacedWhenOrderly'
  <2> SUFFICES ASSUME orderly, NEW e \in events', NEW f \in events',
                      Spaced(e), f.by = "engine", e # f, e.type = f.type
               PROVE  ~Near(e.at, f.at)
    BY <1>1 DEF SpacedWhenOrderly, Spaced
  <2>1. CASE e \in rows
    BY <1>1, <2>1 DEF AlertsIInv, Orderly
  <2>2. CASE f \in rows
    <3>1. Spaced(f)
      BY DEF Spaced
    <3>2. ~Near(f.at, e.at)
      BY <1>1, <2>2, <3>1 DEF AlertsIInv, Orderly
    <3>3. e.at \in Nat /\ f.at \in Nat
      BY <1>1, <1>2, <1>3 DEF RowType
    <3> QED
      BY <3>2, <3>3, NearFacts
  <2>3. CASE e \in events /\ f \in events
    BY <2>3 DEF AlertsIInv, SpacedWhenOrderly, Spaced
  <2> QED
    BY <1>1, <2>1, <2>2, <2>3
<1>14. Orderly'
  <2>1. ASSUME NEW e \in events', e.by = "engine"
        PROVE  \E l \in locations' : l.at = e.at
    <3>1. CASE e \in rows
      BY <1>1, <1>3, <2>1, <3>1 DEF AlertsIInv, RowsSigned
    <3>2. CASE e \in events
      BY <1>1, <2>1, <3>2 DEF AlertsIInv, Orderly
    <3> QED
      BY <1>1, <3>1, <3>2
  <2>2. ASSUME orderly, NEW k \in Jobs
        PROVE  job'[k].pc \notin Open
    <3>1. CASE k = j
      BY <1>4, <1>6, <3>1 DEF Open
    <3>2. CASE k # j
      BY <1>1, <1>6, <2>2, <3>2 DEF AlertsIInv, Orderly, Running, Open
    <3> QED
      BY <3>1, <3>2
  <2>3. ASSUME orderly, NEW e \in events', Spaced(e)
        PROVE  \E f \in OfType(events', e.type) :
                 \A g \in OfType(events', e.type) : g.at <= f.at
    <3>1. CASE \E f \in rows : f.type = e.type
      <4>1. PICK f \in rows : f.type = e.type
        BY <3>1
      <4>2. Spaced(f)
        <5>1. f \in RowType /\ e \in RowType /\ SignedRow(f) /\ SignedRow(e)
          BY <1>1, <1>2, <1>3, <4>1 DEF AlertsIInv, RowsSigned
        <5> QED
          BY <2>3, <4>1, <5>1, SpacedTypes DEF RowType
      <4>3. \A g \in events \cup rows : g.type = f.type => g.at <= f.at
        BY <1>1, <2>3, <4>2, RowsAreLatest DEF Open
      <4> QED
        BY <1>1, <4>1, <4>3 DEF OfType
    <3>2. CASE ~\E f \in rows : f.type = e.type
      <4>1. e \in events /\ OfType(events', e.type) = OfType(events, e.type)
        BY <1>1, <3>2 DEF OfType
      <4> QED
        BY <2>3, <4>1 DEF AlertsIInv, Orderly
    <3> QED
      BY <3>1, <3>2
  <2>4. ASSUME orderly, NEW k \in Jobs, NEW e \in job'[k].rows
        PROVE  ~Spaced(e)
    BY <2>2, <2>4, <1>9 DEF RowsSigned, Spaced, Open
  <2> QED
    BY <1>1, <2>1, <2>2, <2>3, <2>4 DEF Orderly, Running, OfType
<1> QED
  BY <1>8, <1>9, <1>10, <1>11, <1>12, <1>13, <1>14 DEF AlertsIInv

LEMMA AlertsStutterKeeps ==
  ASSUME AlertsIInv, UNCHANGED vars
  PROVE  AlertsIInv'
<1>1. /\ UNCHANGED <<now, locations, events, job, orderly>>
      /\ ops' \in 0 .. MaxOps /\ config' \in Configs /\ notes' \subseteq NoteType
      /\ \A n \in notes : \E m \in notes' : m.type = n.type /\ m.at = n.at
  BY DEF vars, AlertsIInv, AlertsTyped
<1> QED
  BY <1>1, QuietStep

\* Events and notifications: what the tables and the sessions of the jobs hold.
THEOREM AlertsInvariant == Spec => []AlertsIInv
<1>1. AlertsIInv /\ [Next]_vars => AlertsIInv'
  <2> SUFFICES ASSUME AlertsIInv, [Next]_vars
               PROVE  AlertsIInv'
    OBVIOUS
  <2>1. CASE \E j \in Jobs : \/ Fetch(j) \/ Decode(j) \/ Detect(j)
                             \/ Notify(j) \/ Commit(j) \/ Abort(j)
    BY <2>1, FetchKeeps, DecodeKeeps, DetectKeeps, NotifyKeeps, CommitKeeps, AbortKeeps
  <2>2. CASE \E n \in notes, flag \in {"acknowledged", "resolved"} : Handle(n, flag)
    BY <2>2, HandleKeeps
  <2>3. CASE \E c \in Configs : Configure(c)
    BY <2>3, ConfigureKeeps
  <2>4. CASE UNCHANGED vars
    BY <2>4, AlertsStutterKeeps
  <2> QED
    BY <2>1, <2>2, <2>3, <2>4 DEF Next
<1> QED
  BY <1>1, InitKeepsAlerts, PTL DEF Spec

\* Every reachable state of the alerts has the types declared.
THEOREM AlertsTypes == Spec => []TypeOK
<1>1. AlertsIInv => TypeOK
  BY DEF AlertsIInv, AlertsTyped, TypeOK, RowType, NoteType, JobType
<1> QED
  BY <1>1, AlertsInvariant, PTL

\* Whatever jobs of the vehicle overlap and in whatever order packets come, no
\* transition that a rule saw between two stored locations, and nothing that
\* the device reported itself, is missing from the events (packet_processor).
THEOREM NothingGoesUnreported == Spec => []EverythingReported
BY AlertsInvariant, PTL DEF AlertsIInv

\* The duplicate check of the events and the one of the notifications never
\* disagree: no stored event with a notification rule lacks its alert.
THEOREM NoEventWithoutAlert == Spec => []EngineEventsAreNotified
BY AlertsInvariant, PTL DEF AlertsIInv

\* While no job overlaps another or is out of order, _is_duplicate keeps the
\* engine's rows of one type five seconds apart.
THEOREM EventsAreSpaced == Spec => []SpacedWhenOrderly
BY AlertsInvariant, PTL DEF AlertsIInv

-----------------------------------------------------------------------------
(***************************************************************************)
(* The route cache.  NoStampede is not inductive: that a request is alone  *)
(* with its key follows from the lock it holds being the one of the        *)
(* registry, and that from the registry never forgetting a lock somebody   *)
(* still holds.                                                            *)
(***************************************************************************)
Answers == {"none", "success", "failed", "not found", "error", "disabled", "lost"}

RequestsTyped ==
  /\ req \in [Requests -> [pc : Waiting \cup {"idle", "locking", "done"},
                           ask : Asks \cup {NoAsk},
                           lock : Requests \cup {NoLock},
                           tries : 0 .. MaxAttempts - 1,
                           got : Answers]]
  /\ \A r \in Requests :
       /\ req[r].pc # "idle" => req[r].ask \in Asks
       /\ req[r].pc \in {"saving", "auditing"} => req[r].got \in {"success", "failed"}

TablesTyped ==
  /\ enabled \in BOOLEAN
  /\ row \in [Keys -> {"none", "success", "failed"}]
  /\ link \subseteq trips /\ trips \subseteq Trips
  /\ registry \in [Keys -> Requests \cup {NoLock}]
  /\ queue \in [Requests -> Seq(Requests)]

\* A call is logged when it failed, and when it was saved: twice at most.
UsageBounded ==
  /\ usage \in [Requests -> Nat]
  /\ \A r \in Requests :
       usage[r] <= CASE req[r].pc = "done" -> 2
                     [] req[r].pc = "failing" -> 1
                     [] OTHER -> 0

\* The queue of a lock holds the requests that have it, each once; behind the
\* head they have done nothing yet.
QueuesInOrder ==
  \A q \in Requests : \A i \in 1 .. Len(queue[q]) :
    /\ req[queue[q][i]].lock = q
    /\ i > 1 => req[queue[q][i]].pc = "looking"
    /\ \A j \in 1 .. Len(queue[q]) : queue[q][i] = queue[q][j] => i = j

\* A request under a lock is in the queue of the lock that the registry has for
\* its key; the others have none.
LocksRegistered ==
  \A r \in Requests :
    IF req[r].pc \in Waiting
    THEN /\ req[r].lock \in Requests
         /\ registry[Key(r)] = req[r].lock
         /\ \E i \in 1 .. Len(queue[req[r].lock]) : queue[req[r].lock][i] = r
    ELSE req[r].lock = NoLock

\* What a call relies on: the second look still tells the truth.
LookStillTrue ==
  \A r \in Requests :
    req[r].pc \in {"calling", "saving"} =>
      /\ row[Key(r)] # "success"
      /\ OfTrip(r) => row[Key(r)] = "none"

RouteIInv ==
  /\ RequestsTyped
  /\ TablesTyped
  /\ UsageBounded
  /\ QueuesInOrder
  /\ LocksRegistered
  /\ LookStillTrue

-----------------------------------------------------------------------------
(***************************************************************************)
(* What the queues say about one request.                                  *)
(***************************************************************************)
RequestType == [pc : Waiting \cup {"idle", "locking", "done"},
                ask : Asks \cup {NoAsk},
                lock : Requests \cup {NoLock},
                tries : 0 .. MaxAttempts - 1,
                got : Answers]

\* r is at the head of the queue of its lock.
HasLock(r) ==
  /\ req[r].lock \in Requests
  /\ Len(queue[req[r].lock]) > 0
  /\ queue[req[r].lock][1] = r

\* Only r moved, and kept its question.
OnlyMoved(r) ==
  /\ \A q \in Requests \ {r} : req'[q] = req[q]
  /\ req'[r].ask = req[r].ask

\* A queue without its head.
LEMMA WithoutHead ==
  ASSUME NEW S, NEW s \in Seq(S), NEW t, Len(s) > 0, t = Tail(s)
  PROVE  /\ t \in Seq(S)
         /\ \A i \in 1 .. Len(t) : /\ i + 1 \in 1 .. Len(s) /\ i + 1 # 1
                                  /\ i + 1 > 1 /\ t[i] = s[i + 1]
         /\ \A i \in 1 .. Len(s) : i # 1 => /\ i - 1 \in 1 .. Len(t)
                                           /\ t[i - 1] = s[i]
<1>1. /\ s # <<>> /\ Len(s) \in Nat
      /\ Tail(s) \in Seq(S) /\ Len(Tail(s)) = Len(s) - 1
      /\ \A i \in 1 .. Len(Tail(s)) : Tail(s)[i] = s[i + 1]
  BY HeadTailProperties, LenProperties
<1> QED
  BY <1>1

\* Holds reads the head of a queue that exists.
LEMMA HoldsMeansHead ==
  ASSUME RouteIInv, NEW r \in Requests, Holds(r)
  PROVE  HasLock(r)
<1>1. req[r].lock \in Requests /\ queue[req[r].lock] \in Seq(Requests)
  BY DEF RouteIInv, RequestsTyped, TablesTyped, Holds
<1> QED
  BY <1>1 DEF Holds, HasLock

\* Past the second look a request has its lock.
LEMMA WorkingMeansHead ==
  ASSUME RouteIInv, NEW r \in Requests, req[r].pc \in Waiting \ {"looking"}
  PROVE  HasLock(r)
<1> DEFINE L == req[r].lock
<1>1. L \in Requests /\ queue[L] \in Seq(Requests)
  BY DEF RouteIInv, LocksRegistered, TablesTyped
<1>2. PICK i \in 1 .. Len(queue[L]) : queue[L][i] = r
  BY DEF RouteIInv, LocksRegistered
<1>3. i = 1
  BY <1>1, <1>2 DEF RouteIInv, QueuesInOrder
<1> QED
  BY <1>1, <1>2, <1>3 DEF HasLock

\* Two requests past the second look have different keys.
LEMMA AloneWithTheKey ==
  ASSUME RouteIInv, NEW q \in Requests, NEW r \in Requests,
         req[q].pc \in Waiting \ {"looking"}, req[r].pc \in Waiting \ {"looking"},
         Key(q) = Key(r)
  PROVE  q = r
<1>1. HasLock(q) /\ HasLock(r)
  BY WorkingMeansHead
<1>2. req[q].lock = req[r].lock
  BY DEF RouteIInv, LocksRegistered
<1> QED
  BY <1>1, <1>2 DEF HasLock

\* remove_lock finds the lock of its caller locked, and leaves it.
LEMMA RemoveLockWaits ==
  ASSUME RouteIInv, NEW r \in Requests, req[r].pc \in Waiting \ {"looking"},
         RemoveLock(Key(r))
  PROVE  registry' = registry
<1>1. HasLock(r) /\ registry[Key(r)] = req[r].lock
  BY WorkingMeansHead DEF RouteIInv, LocksRegistered
<1>2. queue[registry[Key(r)]] # <<>>
  BY <1>1 DEF HasLock
<1> QED
  BY <1>2 DEF RemoveLock, RouteIInv, TablesTyped

\* A request that has its lock and goes on under it disturbs no queue.
LEMMA WorkKeepsLocks ==
  ASSUME RouteIInv, NEW r \in Requests, HasLock(r),
         req[r].pc \in Waiting, req'[r].pc \in Waiting, req'[r].lock = req[r].lock,
         OnlyMoved(r), UNCHANGED <<queue, registry>>
  PROVE  QueuesInOrder' /\ LocksRegistered'
<1>1. \A q \in Requests : req'[q].lock = req[q].lock /\ req'[q].ask = req[q].ask
  BY DEF OnlyMoved
<1>2. QueuesInOrder'
  <2> SUFFICES ASSUME NEW q \in Requests, NEW i \in 1 .. Len(queue[q])
               PROVE  /\ req'[queue[q][i]].lock = q
                      /\ i > 1 => req'[queue[q][i]].pc = "looking"
                      /\ \A j \in 1 .. Len(queue[q]) : queue[q][i] = queue[q][j] => i = j
    BY DEF QueuesInOrder
  <2>1. queue[q] \in Seq(Requests) /\ queue[q][i] \in Requests
    BY DEF RouteIInv, TablesTyped
  <2>2. i > 1 => queue[q][i] # r
    BY <2>1 DEF RouteIInv, QueuesInOrder, HasLock
  <2> QED
    BY <1>1, <2>1, <2>2 DEF RouteIInv, QueuesInOrder, OnlyMoved
<1>3. LocksRegistered'
  BY <1>1 DEF RouteIInv, LocksRegistered, OnlyMoved, Key
<1> QED
  BY <1>2, <1>3

\* A request that leaves its lock hands it to the next in the queue.
LEMMA FinishKeepsLocks ==
  ASSUME RouteIInv, NEW r \in Requests, HasLock(r), req[r].pc \in Waiting,
         req'[r].pc = "done", req'[r].lock = NoLock, OnlyMoved(r),
         queue' = [queue EXCEPT ![req[r].lock] = Tail(@)], registry' = registry
  PROVE  /\ QueuesInOrder' /\ LocksRegistered'
         /\ queue' \in [Requests -> Seq(Requests)]
<1> DEFINE L == req[r].lock
<1>1. /\ L \in Requests /\ queue[L] \in Seq(Requests) /\ Len(queue[L]) > 0
      /\ queue \in [Requests -> Seq(Requests)]
  BY DEF HasLock, RouteIInv, TablesTyped
<1>2. queue'[L] = Tail(queue[L])
  BY <1>1
<1>3. queue' \in [Requests -> Seq(Requests)]
  <2>1. Tail(queue[L]) \in Seq(Requests)
    BY <1>1, WithoutHead
  <2> QED
    BY <1>1, <2>1
<1> HIDE DEF L
<1>0. queue \in [Requests -> Seq(Requests)]
  BY <1>1
<1>7. \A q \in Requests : \A i, j \in 1 .. Len(queue[q]) :
        /\ req[queue[q][i]].lock = q
        /\ i > 1 => req[queue[q][i]].pc = "looking"
        /\ queue[q][i] = queue[q][j] => i = j
  BY <1>0 DEF RouteIInv, QueuesInOrder
<1>4. ASSUME NEW q \in Requests, NEW i \in 1 .. Len(queue'[q])
      PROVE  /\ queue'[q][i] \in Requests \ {r}
             /\ req[queue'[q][i]].lock = q
             /\ i > 1 => req[queue'[q][i]].pc = "looking"
             /\ \A j \in 1 .. Len(queue'[q]) : queue'[q][i] = queue'[q][j] => i = j
  <2>1. CASE q = L
    <3>1. \A k \in 1 .. Len(queue'[q]) :
            /\ k + 1 \in 1 .. Len(queue[q]) /\ k + 1 # 1 /\ k + 1 > 1
            /\ queue'[q][k] = queue[q][k + 1]
      BY <1>1, <1>2, <2>1, WithoutHead
    <3>2. /\ req[queue[q][i + 1]].lock = q
          /\ req[queue[q][i + 1]].pc = "looking"
          /\ queue[q][i + 1] \in Requests
      <4>1. i + 1 \in 1 .. Len(queue[q]) /\ i + 1 > 1
        BY <1>3, <3>1
      <4>2. queue[q][i + 1] \in Requests
        BY <1>0, <4>1
      <4> QED
        BY <1>0, <1>7, <4>1, <4>2
    <3>3. queue[q][i + 1] # r
      <4>1. queue[q][1] = r /\ 1 \in 1 .. Len(queue[q])
        BY <2>1, <1>1 DEF HasLock, L
      <4> QED
        BY <1>0, <1>3, <1>7, <4>1, <3>1
    <3>4. ASSUME NEW j \in 1 .. Len(queue'[q]), queue'[q][i] = queue'[q][j]
          PROVE  i = j
      <4>1. i + 1 = j + 1
        <5>1. /\ i + 1 \in 1 .. Len(queue[q]) /\ j + 1 \in 1 .. Len(queue[q])
              /\ queue[q][i + 1] = queue[q][j + 1]
          BY <1>3, <3>1, <3>4
        <5> QED
          BY <1>0, <1>7, <5>1
      <4>2. i \in Nat /\ j \in Nat
        OBVIOUS
      <4> QED
        BY <4>1, <4>2
    <3>5. queue'[q][i] = queue[q][i + 1]
      BY <1>3, <3>1
    <3>6. \A j \in 1 .. Len(queue'[q]) : queue'[q][i] = queue'[q][j] => i = j
      BY <1>3, <3>4
    <3>7. /\ queue'[q][i] \in Requests /\ queue'[q][i] # r
          /\ req[queue'[q][i]].lock = q /\ req[queue'[q][i]].pc = "looking"
      BY <3>2, <3>3, <3>5
    <3> QED
      BY <1>3, <3>6, <3>7
  <2>2. CASE q # L
    <3>1. queue'[q] = queue[q] /\ queue[q] \in Seq(Requests)
      BY <1>1, <2>2 DEF L
    <3>2. i \in 1 .. Len(queue[q])
      BY <3>1
    <3>3. queue[q][i] \in Requests
      BY <1>0, <3>2
    <3>4. queue[q][i] # r
      BY <1>0, <1>7, <2>2, <3>2 DEF L
    <3>5. /\ req[queue[q][i]].lock = q
          /\ i > 1 => req[queue[q][i]].pc = "looking"
          /\ \A j \in 1 .. Len(queue[q]) : queue[q][i] = queue[q][j] => i = j
      BY <1>0, <1>7, <3>2
    <3> QED
      BY <3>1, <3>3, <3>4, <3>5
  <2> QED
    BY <2>1, <2>2
<1>5. QueuesInOrder'
  <2> SUFFICES ASSUME NEW q \in Requests, NEW i \in 1 .. Len(queue'[q])
               PROVE  /\ req'[queue'[q][i]].lock = q
                      /\ i > 1 => req'[queue'[q][i]].pc = "looking"
                      /\ \A j \in 1 .. Len(queue'[q]) :
                           queue'[q][i] = queue'[q][j] => i = j
    BY DEF QueuesInOrder
  <2>1. req'[queue'[q][i]] = req[queue'[q][i]]
    BY <1>3, <1>4 DEF OnlyMoved
  <2>2. /\ req[queue'[q][i]].lock = q
        /\ i > 1 => req[queue'[q][i]].pc = "looking"
        /\ \A j \in 1 .. Len(queue'[q]) : queue'[q][i] = queue'[q][j] => i = j
    BY ONLY <1>4, Zenon
  <2> QED
    BY <1>3, <2>1, <2>2
<1>6. LocksRegistered'
  <2> SUFFICES ASSUME NEW q \in Requests
               PROVE  IF req'[q].pc \in Waiting
                      THEN /\ req'[q].lock \in Requests
                           /\ registry[req'[q].ask.key] = req'[q].lock
                           /\ \E i \in 1 .. Len(queue'[req'[q].lock]) :
                                queue'[req'[q].lock][i] = q
                      ELSE req'[q].lock = NoLock
    BY DEF LocksRegistered, Key
  <2>1. CASE q = r
    BY <2>1 DEF Waiting
  <2>2. CASE q # r /\ req[q].pc \notin Waiting
    BY <2>2 DEF RouteIInv, LocksRegistered, OnlyMoved
  <2>3. CASE q # r /\ req[q].pc \in Waiting
    <3>1. /\ req'[q] = req[q] /\ req[q].lock \in Requests
          /\ registry[req[q].ask.key] = req[q].lock
      BY <2>3 DEF RouteIInv, LocksRegistered, OnlyMoved, Key
    <3>2. PICK i \in 1 .. Len(queue[req[q].lock]) : queue[req[q].lock][i] = q
      BY <2>3 DEF RouteIInv, LocksRegistered
    <3>3. CASE req[q].lock = L
      <4>1. i # 1
        BY <2>3, <3>2, <3>3 DEF HasLock, L
      <4>2. i - 1 \in 1 .. Len(queue'[L]) /\ queue'[L][i - 1] = q
        <5>1. i \in 1 .. Len(queue[L]) /\ queue[L][i] = q
          BY <3>2, <3>3
        <5>2. i - 1 \in 1 .. Len(queue[L]) - 1 /\ (i - 1) + 1 = i
          BY <1>1, <4>1, <5>1
        <5> QED
          BY <1>1, <1>2, <5>1, <5>2, WithoutHead
      <4> QED
        BY <2>3, <3>1, <3>3, <4>2
    <3>4. CASE req[q].lock # L
      BY <1>1, <2>3, <3>1, <3>2, <3>4 DEF L
    <3> QED
      BY <3>3, <3>4
  <2> QED
    BY <2>1, <2>2, <2>3
<1> QED
  BY <1>3, <1>5, <1>6

\* A queue with one more at its end.
LEMMA WithLast ==
  ASSUME NEW S, NEW s \in Seq(S), NEW x \in S, NEW t, t = Append(s, x)
  PROVE  /\ t \in Seq(S)
         /\ \A i \in 1 .. Len(t) : \/ i \in 1 .. Len(s) /\ t[i] = s[i]
                                   \/ i = Len(s) + 1 /\ t[i] = x
         /\ \A i \in 1 .. Len(s) : i \in 1 .. Len(t) /\ t[i] = s[i]
         /\ \E i \in 1 .. Len(t) : t[i] = x
<1>1. /\ Len(s) \in Nat
      /\ Append(s, x) \in Seq(S) /\ Len(Append(s, x)) = Len(s) + 1
      /\ \A i \in 1 .. Len(s) : Append(s, x)[i] = s[i]
      /\ Append(s, x)[Len(s) + 1] = x
  BY AppendProperties, LenProperties
<1>2. Len(s) + 1 \in 1 .. Len(t) /\ t[Len(s) + 1] = x
  BY <1>1
<1> QED
  BY <1>1, <1>2

\* A request joins the queue of the lock that the registry has, or makes it.
LEMMA JoinKeepsLocks ==
  ASSUME RouteIInv, NEW r \in Requests, GetLock(r)
  PROVE  /\ QueuesInOrder' /\ LocksRegistered'
         /\ queue' \in [Requests -> Seq(Requests)]
         /\ registry' \in [Keys -> Requests \cup {NoLock}]
<1> DEFINE L == IF registry[Key(r)] = NoLock THEN r ELSE registry[Key(r)]
<1>0. queue \in [Requests -> Seq(Requests)]
  BY DEF RouteIInv, TablesTyped
<1>1. /\ queue \in [Requests -> Seq(Requests)]
      /\ registry \in [Keys -> Requests \cup {NoLock}]
      /\ req[r].pc = "locking" /\ req[r].lock = NoLock
      /\ NoLock \notin Requests
  BY RouteConstants DEF RouteIInv, TablesTyped, GetLock, At, LocksRegistered, Waiting, NoLock
<1>2. Key(r) \in Keys
  BY <1>1 DEF RouteIInv, RequestsTyped, Keys, Key
<1>3. L \in Requests
  BY <1>1, <1>2
<1>4. /\ registry' = [registry EXCEPT ![Key(r)] = L]
      /\ queue' = [queue EXCEPT ![L] = Append(@, r)]
      /\ req' = [req EXCEPT ![r].pc = "looking", ![r].lock = L]
  BY DEF GetLock
<1> HIDE DEF L
<1>5. /\ req'[r].pc = "looking" /\ req'[r].lock = L /\ req'[r].ask = req[r].ask
      /\ \A q \in Requests \ {r} : req'[q] = req[q]
  BY <1>4 DEF RouteIInv, RequestsTyped
<1>6. queue' \in [Requests -> Seq(Requests)]
  <2>1. Append(queue[L], r) \in Seq(Requests)
    BY <1>1, <1>3, WithLast
  <2> QED
    BY <1>1, <1>4, <2>1
<1>7. registry' \in [Keys -> Requests \cup {NoLock}]
  BY <1>1, <1>3, <1>4
<1>8. queue'[L] = Append(queue[L], r)
  BY <1>1, <1>3, <1>4
<1>12. /\ \A k \in 1 .. Len(queue'[L]) :
            \/ k \in 1 .. Len(queue[L]) /\ queue'[L][k] = queue[L][k]
            \/ k = Len(queue[L]) + 1 /\ queue'[L][k] = r
       /\ \A k \in 1 .. Len(queue[L]) : k \in 1 .. Len(queue'[L]) /\ queue'[L][k] = queue[L][k]
       /\ \E k \in 1 .. Len(queue'[L]) : queue'[L][k] = r
  <2>1. queue[L] \in Seq(Requests)
    BY <1>1, <1>3
  <2> QED
    BY <1>8, <2>1, WithLast
<1>13. \A q \in Requests : \A i, j \in 1 .. Len(queue[q]) :
         /\ req[queue[q][i]].lock = q
         /\ i > 1 => req[queue[q][i]].pc = "looking"
         /\ queue[q][i] = queue[q][j] => i = j
  BY <1>1 DEF RouteIInv, QueuesInOrder
<1>9. ASSUME NEW q \in Requests, NEW i \in 1 .. Len(queue[q])
      PROVE  queue[q][i] \in Requests /\ queue[q][i] # r
  <2>1. queue[q][i] \in Requests
    BY <1>1
  <2>2. req[queue[q][i]].lock = q
    BY <1>1 DEF RouteIInv, QueuesInOrder
  <2> QED
    BY <1>1, <2>1, <2>2
<1>10. QueuesInOrder'
  <2> SUFFICES ASSUME NEW q \in Requests, NEW i \in 1 .. Len(queue'[q])
               PROVE  /\ req'[queue'[q][i]].lock = q
                      /\ i > 1 => req'[queue'[q][i]].pc = "looking"
                      /\ \A j \in 1 .. Len(queue'[q]) :
                           queue'[q][i] = queue'[q][j] => i = j
    BY <1>6 DEF QueuesInOrder
  <2>1. CASE q = L
    <3>1. \A k \in 1 .. Len(queue'[q]) :
            \/ k \in 1 .. Len(queue[q]) /\ queue'[q][k] = queue[q][k]
            \/ k = Len(queue[q]) + 1 /\ queue'[q][k] = r
      BY <1>12, <2>1
    <3>2. ASSUME NEW k \in 1 .. Len(queue[q])
          PROVE  /\ req'[queue[q][k]].lock = q
                 /\ k > 1 => req'[queue[q][k]].pc = "looking"
      <4>1. req'[queue[q][k]] = req[queue[q][k]]
        BY <1>5, <1>9
      <4>2. /\ req[queue[q][k]].lock = q
            /\ k > 1 => req[queue[q][k]].pc = "looking"
        BY <1>0, <1>13
      <4> QED
        BY <4>1, <4>2
    <3>3. /\ req'[queue'[q][i]].lock = q
          /\ i > 1 => req'[queue'[q][i]].pc = "looking"
      BY <1>1, <1>5, <1>6, <2>1, <3>1, <3>2, ZenonT(30)
    <3>4. ASSUME NEW j \in 1 .. Len(queue'[q]), queue'[q][i] = queue'[q][j]
          PROVE  i = j
      <4>1. CASE i \in 1 .. Len(queue[q]) /\ queue'[q][i] = queue[q][i]
        <5>1. queue[q][i] # r
          BY <1>9, <4>1
        <5>2. j \in 1 .. Len(queue[q]) /\ queue'[q][j] = queue[q][j]
          BY <1>6, <3>1, <3>4, <4>1, <5>1
        <5>3. queue[q][i] = queue[q][j]
          BY <3>4, <4>1, <5>2
        <5>4. \A m, n \in 1 .. Len(queue[q]) : queue[q][m] = queue[q][n] => m = n
          BY <1>0, <1>13
        <5> QED
          BY <1>0, <4>1, <5>2, <5>3, <5>4
      <4>2. CASE i = Len(queue[q]) + 1 /\ queue'[q][i] = r
        BY <1>6, <1>9, <3>1, <3>4, <4>2
      <4> QED
        BY <1>6, <3>1, <4>1, <4>2
    <3> QED
      BY <1>6, <3>3, <3>4
  <2>2. CASE q # L
    <3>1. queue'[q] = queue[q]
      BY <1>1, <1>4, <2>2
    <3>2. ASSUME NEW k \in 1 .. Len(queue[q])
          PROVE  /\ req'[queue[q][k]].lock = q
                 /\ k > 1 => req'[queue[q][k]].pc = "looking"
                 /\ \A j \in 1 .. Len(queue[q]) : queue[q][k] = queue[q][j] => k = j
      <4>1. req'[queue[q][k]] = req[queue[q][k]]
        BY <1>5, <1>9
      <4>2. /\ req[queue[q][k]].lock = q
            /\ k > 1 => req[queue[q][k]].pc = "looking"
            /\ \A j \in 1 .. Len(queue[q]) : queue[q][k] = queue[q][j] => k = j
        BY <1>0, <1>13
      <4> QED
        BY <4>1, <4>2
    <3> QED
      BY <1>0, <1>6, <3>1, <3>2

  <2> QED
    BY <2>1, <2>2
<1>11. LocksRegistered'
  <2> SUFFICES ASSUME NEW q \in Requests
               PROVE  IF req'[q].pc \in Waiting
                      THEN /\ req'[q].lock \in Requests
                           /\ registry'[req'[q].ask.key] = req'[q].lock
                           /\ \E i \in 1 .. Len(queue'[req'[q].lock]) :
                                queue'[req'[q].lock][i] = q
                      ELSE req'[q].lock = NoLock
    BY DEF LocksRegistered, Key
  <2>1. CASE q = r
    <3>1. registry'[req[r].ask.key] = L
      BY <1>1, <1>2, <1>4 DEF Key
    <3>2. \E i \in 1 .. Len(queue'[L]) : queue'[L][i] = r
      BY <1>12
    <3> QED
      BY <1>3, <1>5, <2>1, <3>1, <3>2 DEF Waiting
  <2>2. CASE q # r /\ req[q].pc \notin Waiting
    BY <1>5, <2>2 DEF RouteIInv, LocksRegistered
  <2>3. CASE q # r /\ req[q].pc \in Waiting
    <3>1. /\ req'[q] = req[q] /\ req[q].lock \in Requests
          /\ registry[req[q].ask.key] = req[q].lock
      BY <1>5, <2>3 DEF RouteIInv, LocksRegistered, Key
    <3>2. registry'[req[q].ask.key] = req[q].lock
      <4>1. req[q].ask.key \in Keys
        BY <2>3 DEF RouteIInv, RequestsTyped, Keys, Waiting
      <4> QED
        BY <1>1, <1>2, <1>4, <3>1, <4>1 DEF L, Key
    <3>3. PICK i \in 1 .. Len(queue[req[q].lock]) : queue[req[q].lock][i] = q
      BY <2>3 DEF RouteIInv, LocksRegistered
    <3>4. \E k \in 1 .. Len(queue'[req[q].lock]) : queue'[req[q].lock][k] = q
      <4>1. CASE req[q].lock = L
        BY <1>1, <1>3, <1>6, <1>12, <3>3, <4>1
      <4>2. CASE req[q].lock # L
        BY <1>1, <1>4, <1>3, <3>1, <3>3, <4>2
      <4> QED
        BY <4>1, <4>2
    <3> QED
      BY <2>3, <3>1, <3>2, <3>4
  <2> QED
    BY <2>1, <2>2, <2>3
<1> QED
  BY <1>6, <1>7, <1>10, <1>11

-----------------------------------------------------------------------------
(***************************************************************************)
(* Every step of the route cache keeps the invariant.                      *)
(***************************************************************************)
\* What a step leaves untouched but for the request r: the rest of the
\* invariant follows from what it does to r.
LEMMA MovedRequest ==
  ASSUME RouteIInv, NEW r \in Requests, OnlyMoved(r),
         req' \in [Requests -> RequestType],
         req'[r].pc # "idle" => req'[r].ask \in Asks,
         req'[r].pc \in {"saving", "auditing"} => req'[r].got \in {"success", "failed"}
  PROVE  RequestsTyped'
BY DEF RouteIInv, RequestsTyped, OnlyMoved, RequestType

\* Usage events: the step of r logs none, or the one that its step allows.
LEMMA MovedUsage ==
  ASSUME RouteIInv, NEW r \in Requests, OnlyMoved(r),
         usage' \in [Requests -> Nat],
         \A q \in Requests \ {r} : usage'[q] = usage[q],
         \/ req'[r].pc = "done" /\ usage'[r] <= 2
         \/ req'[r].pc = "failing" /\ usage'[r] <= 1
         \/ usage'[r] = 0
  PROVE  UsageBounded'
BY DEF RouteIInv, UsageBounded, OnlyMoved

\* The row of a key only changes under the request that is alone with it.
LEMMA MovedLook ==
  ASSUME RouteIInv, NEW r \in Requests, OnlyMoved(r),
         req'[r].pc \in {"calling", "saving"} =>
           row'[Key(r)] # "success" /\ (OfTrip(r) => row'[Key(r)] = "none"),
         \A q \in Requests \ {r} :
           req[q].pc \in {"calling", "saving"} => row'[Key(q)] = row[Key(q)]
  PROVE  LookStillTrue'
BY DEF RouteIInv, LookStillTrue, OnlyMoved, Key, OfTrip

\* Leaving the lock.
LEMMA FinishKeeps ==
  ASSUME RouteIInv, NEW r \in Requests, HasLock(r), req[r].pc \in Waiting,
         NEW answer \in Answers, Finish(r, answer), registry' = registry
  PROVE  /\ OnlyMoved(r) /\ RequestsTyped' /\ req'[r].pc = "done"
         /\ QueuesInOrder' /\ LocksRegistered'
         /\ queue' \in [Requests -> Seq(Requests)]
<1>1. /\ req \in [Requests -> RequestType] /\ req[r].ask \in Asks
  BY DEF RouteIInv, RequestsTyped, RequestType, Waiting
<1>2. /\ req' = [req EXCEPT ![r].pc = "done", ![r].got = answer, ![r].lock = NoLock]
      /\ queue' = [queue EXCEPT ![req[r].lock] = Tail(@)]
  BY DEF Finish
<1>3. /\ req' \in [Requests -> RequestType]
      /\ req'[r].pc = "done" /\ req'[r].lock = NoLock /\ req'[r].ask = req[r].ask
      /\ \A q \in Requests \ {r} : req'[q] = req[q]
  BY <1>1, <1>2, ZenonT(30) DEF RequestType
<1>4. OnlyMoved(r)
  BY <1>3 DEF OnlyMoved
<1>5. RequestsTyped'
  BY <1>1, <1>3, <1>4, MovedRequest
<1> QED
  BY <1>2, <1>3, <1>4, <1>5, FinishKeepsLocks

\* A request goes on under its lock.
LEMMA GoKeeps ==
  ASSUME RouteIInv, NEW r \in Requests, HasLock(r), req[r].pc \in Waiting,
         NEW pc \in Waiting, Go(r, pc), UNCHANGED <<queue, registry>>,
         pc \in {"saving", "auditing"} => req[r].got \in {"success", "failed"}
  PROVE  /\ OnlyMoved(r) /\ RequestsTyped' /\ req'[r].pc = pc
         /\ QueuesInOrder' /\ LocksRegistered'
<1>1. /\ req \in [Requests -> RequestType] /\ req[r].ask \in Asks
  BY DEF RouteIInv, RequestsTyped, RequestType, Waiting
<1>2. /\ req' \in [Requests -> RequestType]
      /\ req'[r].pc = pc /\ req'[r].lock = req[r].lock
      /\ req'[r].ask = req[r].ask /\ req'[r].got = req[r].got
      /\ \A q \in Requests \ {r} : req'[q] = req[q]
  BY <1>1 DEF RequestType, Go
<1>3. OnlyMoved(r)
  BY <1>2 DEF OnlyMoved
<1>4. RequestsTyped'
  BY <1>1, <1>2, <1>3, MovedRequest
<1> QED
  BY <1>2, <1>3, <1>4, WorkKeepsLocks

LEMMA InitKeepsRoutes == RouteInit => RouteIInv
<1> SUFFICES ASSUME RouteInit
             PROVE  RouteIInv
  OBVIOUS
<1> USE RouteConstants DEF RouteInit
<1>1. RequestsTyped
  BY DEF RequestsTyped, Answers
<1>2. TablesTyped
  BY DEF TablesTyped
<1>3. UsageBounded
  BY DEF UsageBounded
<1>4. QueuesInOrder
  BY DEF QueuesInOrder
<1>5. LocksRegistered /\ LookStillTrue
  BY DEF LocksRegistered, LookStillTrue, Waiting
<1> QED
  BY <1>1, <1>2, <1>3, <1>4, <1>5 DEF RouteIInv

\* Before its lock a request is in no queue.
LEMMA OutsideKeepsLocks ==
  ASSUME RouteIInv, NEW r \in Requests,
         \A q \in Requests \ {r} : req'[q] = req[q],
         req[r].pc \notin Waiting, req'[r].pc \notin Waiting, req'[r].lock = NoLock,
         UNCHANGED <<queue, registry>>
  PROVE  QueuesInOrder' /\ LocksRegistered'
<1>1. NoLock \notin Requests /\ req[r].lock = NoLock
  BY RouteConstants DEF NoLock, RouteIInv, LocksRegistered
<1>2. queue \in [Requests -> Seq(Requests)]
  BY DEF RouteIInv, TablesTyped
<1>3. QueuesInOrder'
  <2> SUFFICES ASSUME NEW q \in Requests, NEW i \in 1 .. Len(queue[q])
               PROVE  /\ req'[queue[q][i]].lock = q
                      /\ i > 1 => req'[queue[q][i]].pc = "looking"
                      /\ \A j \in 1 .. Len(queue[q]) : queue[q][i] = queue[q][j] => i = j
    BY <1>2 DEF QueuesInOrder
  <2>1. /\ req[queue[q][i]].lock = q
        /\ i > 1 => req[queue[q][i]].pc = "looking"
        /\ \A j \in 1 .. Len(queue[q]) : queue[q][i] = queue[q][j] => i = j
    BY <1>2 DEF RouteIInv, QueuesInOrder
  <2>2. queue[q][i] \in Requests \ {r}
    BY <1>1, <1>2, <2>1
  <2>3. req'[queue[q][i]] = req[queue[q][i]]
    BY <2>2
  <2> QED
    BY <2>1, <2>3
<1>4. LocksRegistered'
  BY DEF RouteIInv, LocksRegistered, Key
<1> QED
  BY <1>3, <1>4

LEMMA ArriveTripKeeps ==
  ASSUME RouteIInv, NEW r \in Requests, ArriveTrip(r)
  PROVE  RouteIInv'
<1>1. PICK a \in Asks :
        /\ a.kind = "trip"
        /\ req' = [req EXCEPT ![r] =
             [@ EXCEPT !.ask = a,
                       !.pc = IF a.trip \in trips /\ a.trip \notin link
                              THEN "locking" ELSE "done",
                       !.got = CASE a.trip \notin trips -> "not found"
                                 [] a.trip \in link -> row[a.key]
                                 [] OTHER -> "none"]]
  BY DEF ArriveTrip
<1> DEFINE pc == IF a.trip \in trips /\ a.trip \notin link THEN "locking" ELSE "done"
           got == CASE a.trip \notin trips -> "not found"
                    [] a.trip \in link -> row[a.key]
                    [] OTHER -> "none"
<1>2. /\ req \in [Requests -> RequestType] /\ req[r].pc = "idle"
      /\ req[r].lock = NoLock
  BY DEF RouteIInv, RequestsTyped, RequestType, ArriveTrip, At, LocksRegistered, Waiting
<1>3. /\ req' \in [Requests -> RequestType]
      /\ req'[r].pc \in {"locking", "done"} /\ req'[r].ask = a
      /\ req'[r].lock = NoLock
      /\ \A q \in Requests \ {r} : req'[q] = req[q]
  <2>1. got \in Answers
    <3>1. row[a.key] \in {"none", "success", "failed"}
      BY DEF RouteIInv, TablesTyped, Keys
    <3> QED
      BY <3>1 DEF Answers
  <2>2. pc \in {"locking", "done"}
    OBVIOUS
  <2>3. req' = [req EXCEPT ![r] = [req[r] EXCEPT !.ask = a, !.pc = pc, !.got = got]]
    BY <1>1
  <2> HIDE DEF pc, got
  <2>4. [req[r] EXCEPT !.ask = a, !.pc = pc, !.got = got] \in RequestType
    BY <1>2, <2>1, <2>2 DEF RequestType
  <2> QED
    BY <1>2, <2>2, <2>3, <2>4 DEF RequestType
<1>4. RequestsTyped'
  BY <1>3 DEF RouteIInv, RequestsTyped, RequestType
<1>5. UNCHANGED <<enabled, row, link, trips, registry, queue, usage, restarts>>
  BY DEF ArriveTrip
<1>6. QueuesInOrder' /\ LocksRegistered'
  BY <1>2, <1>3, <1>5, OutsideKeepsLocks DEF Waiting
<1>7. UsageBounded'
  BY <1>2, <1>3, <1>5 DEF RouteIInv, UsageBounded
<1>8. TablesTyped' /\ LookStillTrue'
  BY <1>3, <1>5 DEF RouteIInv, TablesTyped, LookStillTrue, Key, OfTrip
<1> QED
  BY <1>4, <1>6, <1>7, <1>8 DEF RouteIInv

LEMMA ArriveSnapKeeps ==
  ASSUME RouteIInv, NEW r \in Requests, ArriveSnap(r)
  PROVE  RouteIInv'
<1>1. PICK a \in Asks :
        /\ a.kind = "snap"
        /\ req' = [req EXCEPT ![r] =
             IF row[a.key] = "success"
             THEN [@ EXCEPT !.ask = a, !.pc = "done", !.got = "success"]
             ELSE [@ EXCEPT !.ask = a, !.pc = "locking"]]
  BY DEF ArriveSnap
<1>2. /\ req \in [Requests -> RequestType] /\ req[r].pc = "idle"
      /\ req[r].lock = NoLock
  BY DEF RouteIInv, RequestsTyped, RequestType, ArriveSnap, At, LocksRegistered, Waiting
<1>3. /\ req' \in [Requests -> RequestType]
      /\ req'[r].pc \in {"locking", "done"} /\ req'[r].ask = a
      /\ req'[r].lock = NoLock
      /\ \A q \in Requests \ {r} : req'[q] = req[q]
  <2>1. CASE row[a.key] = "success"
    <3>1. req' = [req EXCEPT ![r] = [req[r] EXCEPT !.ask = a, !.pc = "done", !.got = "success"]]
      BY <1>1, <2>1
    <3>2. [req[r] EXCEPT !.ask = a, !.pc = "done", !.got = "success"] \in RequestType
      BY <1>2 DEF RequestType, Answers
    <3> QED
      BY <1>2, <3>1, <3>2 DEF RequestType
  <2>2. CASE row[a.key] # "success"
    <3>1. req' = [req EXCEPT ![r] = [req[r] EXCEPT !.ask = a, !.pc = "locking"]]
      BY <1>1, <2>2
    <3>2. [req[r] EXCEPT !.ask = a, !.pc = "locking"] \in RequestType
      BY <1>2 DEF RequestType
    <3> QED
      BY <1>2, <3>1, <3>2 DEF RequestType
  <2> QED
    BY <2>1, <2>2
<1>4. RequestsTyped'
  BY <1>3 DEF RouteIInv, RequestsTyped, RequestType
<1>5. UNCHANGED <<enabled, row, link, trips, registry, queue, usage, restarts>>
  BY DEF ArriveSnap
<1>6. QueuesInOrder' /\ LocksRegistered'
  BY <1>2, <1>3, <1>5, OutsideKeepsLocks DEF Waiting
<1>7. UsageBounded'
  BY <1>2, <1>3, <1>5 DEF RouteIInv, UsageBounded
<1>8. TablesTyped' /\ LookStillTrue'
  BY <1>3, <1>5 DEF RouteIInv, TablesTyped, LookStillTrue, Key, OfTrip
<1> QED
  BY <1>4, <1>6, <1>7, <1>8 DEF RouteIInv

LEMMA GetLockKeeps ==
  ASSUME RouteIInv, NEW r \in Requests, GetLock(r)
  PROVE  RouteIInv'
<1> DEFINE L == IF registry[Key(r)] = NoLock THEN r ELSE registry[Key(r)]
<1>1. /\ req \in [Requests -> RequestType] /\ req[r].pc = "locking"
      /\ req[r].ask \in Asks /\ usage[r] = 0
  BY DEF RouteIInv, RequestsTyped, RequestType, GetLock, At, UsageBounded
<1>2. L \in Requests
  BY <1>1 DEF RouteIInv, TablesTyped, Keys, Key
<1>3. req' = [req EXCEPT ![r].pc = "looking", ![r].lock = L]
  BY DEF GetLock
<1> HIDE DEF L
<1>4. /\ req' \in [Requests -> RequestType]
      /\ req'[r].pc = "looking" /\ req'[r].ask = req[r].ask
      /\ \A q \in Requests \ {r} : req'[q] = req[q]
  <2>1. [req[r] EXCEPT !.pc = "looking", !.lock = L] \in RequestType
    BY <1>1, <1>2 DEF RequestType, Waiting
  <2>2. req' = [req EXCEPT ![r] = [req[r] EXCEPT !.pc = "looking", !.lock = L]]
    BY <1>1, <1>3 DEF RequestType
  <2> QED
    BY <1>1, <2>1, <2>2 DEF RequestType
<1>5. OnlyMoved(r)
  BY <1>4 DEF OnlyMoved
<1>6. UNCHANGED <<enabled, row, link, trips, usage, restarts>>
  BY DEF GetLock
<1>7. RequestsTyped'
  BY <1>1, <1>4, <1>5, MovedRequest
<1>8. UsageBounded' /\ LookStillTrue'
  BY <1>1, <1>4, <1>5, <1>6, MovedUsage, MovedLook DEF RouteIInv, UsageBounded
<1>9. TablesTyped'
  BY <1>6, JoinKeepsLocks DEF RouteIInv, TablesTyped
<1> QED
  BY <1>7, <1>8, <1>9, JoinKeepsLocks DEF RouteIInv

LEMMA HitKeeps ==
  ASSUME RouteIInv, NEW r \in Requests, HitInLock(r)
  PROVE  RouteIInv'
<1>1. /\ HasLock(r) /\ req[r].pc = "looking" /\ req[r].ask \in Asks
      /\ UNCHANGED <<enabled, row, trips, registry, usage, restarts>>
  BY HoldsMeansHead DEF HitInLock, At, RouteIInv, RequestsTyped
<1>2. /\ link' \subseteq trips
      /\ \E answer \in Answers : Finish(r, answer)
  <2>1. row[Key(r)] \in Answers
    <3>1. row[Key(r)] \in {"none", "success", "failed"}
      BY <1>1 DEF RouteIInv, TablesTyped, Keys, Key
    <3> QED
      BY <3>1 DEF Answers
  <2>2. "error" \in Answers
    BY DEF Answers
  <2> QED
    BY <2>1, <2>2 DEF HitInLock, RouteIInv, TablesTyped
<1>3. PICK answer \in Answers : Finish(r, answer)
  BY <1>2
<1>4. /\ OnlyMoved(r) /\ RequestsTyped' /\ req'[r].pc = "done"
      /\ QueuesInOrder' /\ LocksRegistered'
      /\ queue' \in [Requests -> Seq(Requests)]
  BY <1>1, <1>3, FinishKeeps DEF Waiting
<1>5. UsageBounded' /\ LookStillTrue'
  <2>1. usage[r] = 0 /\ usage \in [Requests -> Nat]
    BY <1>1 DEF RouteIInv, UsageBounded
  <2> QED
    BY <1>1, <1>4, <2>1, MovedUsage, MovedLook
<1>6. TablesTyped'
  BY <1>1, <1>2, <1>4 DEF RouteIInv, TablesTyped
<1> QED
  BY <1>4, <1>5, <1>6 DEF RouteIInv

LEMMA MissKeeps ==
  ASSUME RouteIInv, NEW r \in Requests, Miss(r)
  PROVE  RouteIInv'
<1>1. /\ HasLock(r) /\ req[r].pc = "looking" /\ req[r].ask \in Asks
      /\ UNCHANGED <<enabled, row, link, trips, registry, usage, restarts>>
  BY HoldsMeansHead DEF Miss, At, RouteIInv, RequestsTyped
<1>2. usage[r] = 0 /\ usage \in [Requests -> Nat]
  BY <1>1 DEF RouteIInv, UsageBounded
<1>3. row[Key(r)] # "success" /\ (OfTrip(r) => row[Key(r)] = "none")
  BY DEF Miss, Cached
<1>4. /\ OnlyMoved(r) /\ RequestsTyped'
      /\ QueuesInOrder' /\ LocksRegistered'
      /\ queue' \in [Requests -> Seq(Requests)]
  <2>1. CASE enabled
    <3>1. Go(r, "calling") /\ UNCHANGED <<queue, registry>>
      BY <1>1, <2>1 DEF Miss
    <3>2. OnlyMoved(r) /\ RequestsTyped' /\ QueuesInOrder' /\ LocksRegistered'
      BY <1>1, <3>1, GoKeeps DEF Waiting
    <3> QED
      BY <3>1, <3>2 DEF RouteIInv, TablesTyped
  <2>2. CASE ~enabled
    <3>1. Finish(r, "disabled") /\ "disabled" \in Answers
      BY <2>2 DEF Miss, Answers
    <3> QED
      BY <1>1, <3>1, FinishKeeps DEF Waiting
  <2> QED
    BY <2>1, <2>2
<1>5. UsageBounded'
  BY <1>1, <1>2, <1>4, MovedUsage
<1>6. LookStillTrue'
  BY <1>1, <1>3, <1>4, MovedLook
<1>7. TablesTyped'
  BY <1>1, <1>4 DEF RouteIInv, TablesTyped
<1> QED
  BY <1>4, <1>5, <1>6, <1>7 DEF RouteIInv

LEMMA AttemptKeeps ==
  ASSUME RouteIInv, NEW r \in Requests, Attempt(r)
  PROVE  RouteIInv'
<1>1. /\ req \in [Requests -> RequestType] /\ req[r].pc = "calling"
      /\ req[r].ask \in Asks
      /\ UNCHANGED <<enabled, row, link, trips, registry, queue, usage, restarts>>
  BY DEF Attempt, At, RouteIInv, RequestsTyped, RequestType
<1>2. HasLock(r)
  BY <1>1, WorkingMeansHead DEF Waiting
<1>3. /\ usage[r] = 0 /\ usage \in [Requests -> Nat]
      /\ row[Key(r)] # "success" /\ (OfTrip(r) => row[Key(r)] = "none")
  BY <1>1 DEF RouteIInv, UsageBounded, LookStillTrue
<1>4. /\ req' \in [Requests -> RequestType]
      /\ req'[r].pc \in {"calling", "saving", "failing"}
      /\ req'[r].pc = "saving" => req'[r].got \in {"success", "failed"}
      /\ req'[r].ask = req[r].ask /\ req'[r].lock = req[r].lock
      /\ \A q \in Requests \ {r} : req'[q] = req[q]
  <2>1. CASE \E status \in {"success", "failed"} :
               req' = [req EXCEPT ![r].pc = "saving", ![r].got = status]
    <3>1. PICK status \in {"success", "failed"} :
            req' = [req EXCEPT ![r].pc = "saving", ![r].got = status]
      BY <2>1
    <3>2. status \in Answers
      BY DEF Answers
    <3> QED
      BY <1>1, <3>1, <3>2 DEF RequestType, Waiting
  <2>2. CASE Go(r, "failing")
    BY <1>1, <2>2 DEF RequestType, Waiting, Go
  <2>3. CASE MayRetry(r) /\ req' = [req EXCEPT ![r].tries = @ + 1]
    <3>1. req[r].tries + 1 \in 0 .. MaxAttempts - 1
      BY <1>1, <2>3, RouteConstants DEF MayRetry, RequestType
    <3> QED
      BY <1>1, <2>3, <3>1 DEF RequestType
  <2> QED
    BY <2>1, <2>2, <2>3 DEF Attempt
<1>5. OnlyMoved(r)
  BY <1>4 DEF OnlyMoved
<1>6. RequestsTyped'
  BY <1>1, <1>4, <1>5, MovedRequest
<1>7. QueuesInOrder' /\ LocksRegistered'
  BY <1>1, <1>2, <1>4, <1>5, WorkKeepsLocks DEF Waiting
<1>8. UsageBounded' /\ LookStillTrue'
  BY <1>1, <1>3, <1>5, MovedUsage, MovedLook
<1>9. TablesTyped'
  BY <1>1 DEF RouteIInv, TablesTyped
<1> QED
  BY <1>6, <1>7, <1>8, <1>9 DEF RouteIInv

LEMMA SaveKeeps ==
  ASSUME RouteIInv, NEW r \in Requests, Save(r)
  PROVE  RouteIInv'
<1>1. /\ req[r].pc = "saving" /\ req[r].ask \in Asks
      /\ req[r].got \in {"success", "failed"} /\ usage[r] = 0
      /\ usage \in [Requests -> Nat] /\ row \in [Keys -> {"none", "success", "failed"}]
      /\ UNCHANGED <<enabled, trips, registry, queue, usage, restarts>>
  <2>1. /\ req[r].pc = "saving"
        /\ UNCHANGED <<enabled, trips, registry, queue, usage, restarts>>
    BY DEF Save, At
  <2>2. req[r].ask \in Asks /\ req[r].got \in {"success", "failed"}
    BY <2>1 DEF RouteIInv, RequestsTyped
  <2>3. usage[r] = 0 /\ usage \in [Requests -> Nat]
    BY <2>1 DEF RouteIInv, UsageBounded
  <2> QED
    BY <2>1, <2>2, <2>3 DEF RouteIInv, TablesTyped
<1>2. HasLock(r)
  BY <1>1, WorkingMeansHead DEF Waiting
<1>3. /\ OnlyMoved(r) /\ RequestsTyped' /\ req'[r].pc = "auditing"
      /\ QueuesInOrder' /\ LocksRegistered'
  BY <1>1, <1>2, GoKeeps DEF Waiting, Save
<1>4. Key(r) \in Keys /\ row' = [row EXCEPT ![Key(r)] = req[r].got]
  BY <1>1 DEF Save, Keys, Key
<1>5. TablesTyped'
  BY <1>1, <1>4 DEF RouteIInv, TablesTyped, Save
<1>6. ASSUME NEW q \in Requests \ {r}, req[q].pc \in {"calling", "saving"}
      PROVE  row'[Key(q)] = row[Key(q)]
  <2>1. Key(q) # Key(r)
    BY <1>1, <1>6, AloneWithTheKey DEF Waiting
  <2>2. Key(q) \in Keys
    BY <1>6 DEF RouteIInv, RequestsTyped, Keys, Key
  <2> QED
    BY <1>1, <1>4, <2>1, <2>2
<1>7. UsageBounded' /\ LookStillTrue'
  BY <1>1, <1>3, <1>6, MovedUsage, MovedLook
<1> QED
  BY <1>3, <1>5, <1>7 DEF RouteIInv

LEMMA SaveFailsKeeps ==
  ASSUME RouteIInv, NEW r \in Requests, SaveFails(r)
  PROVE  RouteIInv'
<1>1. /\ req[r].pc = "saving" /\ usage[r] = 0 /\ usage \in [Requests -> Nat]
      /\ UNCHANGED <<enabled, row, link, trips, usage, restarts>>
  BY DEF SaveFails, At, RouteIInv, UsageBounded
<1>2. HasLock(r)
  BY <1>1, WorkingMeansHead DEF Waiting
<1>3. registry' = registry
  BY <1>1, RemoveLockWaits DEF SaveFails, Waiting
<1>4. /\ OnlyMoved(r) /\ RequestsTyped' /\ req'[r].pc \in {"failing", "done"}
      /\ QueuesInOrder' /\ LocksRegistered'
      /\ queue' \in [Requests -> Seq(Requests)]
  <2>1. CASE OfTrip(r)
    <3>1. Finish(r, "error") /\ "error" \in Answers
      BY <2>1 DEF SaveFails, Answers
    <3> QED
      BY <1>1, <1>2, <1>3, <3>1, FinishKeeps DEF Waiting
  <2>2. CASE ~OfTrip(r)
    <3>1. Go(r, "failing") /\ UNCHANGED <<queue, registry>>
      BY <2>2 DEF SaveFails
    <3>2. OnlyMoved(r) /\ RequestsTyped' /\ req'[r].pc = "failing"
          /\ QueuesInOrder' /\ LocksRegistered'
      BY <1>1, <1>2, <3>1, GoKeeps DEF Waiting
    <3> QED
      BY <3>1, <3>2 DEF RouteIInv, TablesTyped
  <2> QED
    BY <2>1, <2>2
<1>5. UsageBounded' /\ LookStillTrue'
  BY <1>1, <1>4, MovedUsage, MovedLook
<1>6. TablesTyped'
  BY <1>1, <1>3, <1>4 DEF RouteIInv, TablesTyped
<1> QED
  BY <1>4, <1>5, <1>6 DEF RouteIInv

LEMMA AuditKeeps ==
  ASSUME RouteIInv, NEW r \in Requests, Audit(r)
  PROVE  RouteIInv'
<1>1. /\ req[r].pc = "auditing" /\ req[r].got \in {"success", "failed"}
      /\ usage \in [Requests -> Nat] /\ usage[r] = 0
      /\ usage' = [usage EXCEPT ![r] = @ + 1]
      /\ UNCHANGED <<enabled, row, link, trips, restarts>>
  BY DEF Audit, At, RouteIInv, RequestsTyped, UsageBounded
<1>2. /\ usage' \in [Requests -> Nat] /\ usage'[r] = 1
      /\ \A q \in Requests \ {r} : usage'[q] = usage[q]
  BY <1>1
<1>3. HasLock(r)
  BY <1>1, WorkingMeansHead DEF Waiting
<1>4. registry' = registry
  BY <1>1, RemoveLockWaits DEF Audit, Waiting
<1>5. /\ OnlyMoved(r) /\ RequestsTyped' /\ req'[r].pc \in {"failing", "done"}
      /\ QueuesInOrder' /\ LocksRegistered'
      /\ queue' \in [Requests -> Seq(Requests)]
  <2>1. CASE ~OfTrip(r) /\ req[r].got = "failed"
    <3>1. Go(r, "failing") /\ UNCHANGED <<queue, registry>>
      BY <2>1 DEF Audit
    <3>2. OnlyMoved(r) /\ RequestsTyped' /\ req'[r].pc = "failing"
          /\ QueuesInOrder' /\ LocksRegistered'
      BY <1>1, <1>3, <3>1, GoKeeps DEF Waiting
    <3> QED
      BY <3>1, <3>2 DEF RouteIInv, TablesTyped
  <2>2. CASE ~(~OfTrip(r) /\ req[r].got = "failed")
    <3>1. Finish(r, req[r].got) /\ req[r].got \in Answers
      BY <1>1, <2>2 DEF Audit, Answers
    <3> QED
      BY <1>1, <1>3, <1>4, <3>1, FinishKeeps DEF Waiting
  <2> QED
    BY <2>1, <2>2
<1>6. UsageBounded' /\ LookStillTrue'
  BY <1>1, <1>2, <1>5, MovedUsage, MovedLook
<1>7. TablesTyped'
  BY <1>1, <1>4, <1>5 DEF RouteIInv, TablesTyped
<1> QED
  BY <1>5, <1>6, <1>7 DEF RouteIInv

LEMMA CallFailsKeeps ==
  ASSUME RouteIInv, NEW r \in Requests, CallFails(r)
  PROVE  RouteIInv'
<1>1. /\ req[r].pc = "failing" /\ usage \in [Requests -> Nat] /\ usage[r] <= 1
      /\ usage' = [usage EXCEPT ![r] = @ + 1]
      /\ UNCHANGED <<enabled, row, link, trips, restarts>>
  BY DEF CallFails, At, RouteIInv, UsageBounded
<1>2. /\ usage' \in [Requests -> Nat] /\ usage'[r] <= 2
      /\ \A q \in Requests \ {r} : usage'[q] = usage[q]
  BY <1>1
<1>3. HasLock(r)
  BY <1>1, WorkingMeansHead DEF Waiting
<1>4. registry' = registry
  BY <1>1, RemoveLockWaits DEF CallFails, Waiting
<1>5. /\ OnlyMoved(r) /\ RequestsTyped' /\ req'[r].pc = "done"
      /\ QueuesInOrder' /\ LocksRegistered'
      /\ queue' \in [Requests -> Seq(Requests)]
  <2>1. Finish(r, "error") /\ "error" \in Answers
    BY DEF CallFails, Answers
  <2> QED
    BY <1>1, <1>3, <1>4, <2>1, FinishKeeps DEF Waiting
<1>6. UsageBounded' /\ LookStillTrue'
  BY <1>1, <1>2, <1>5, MovedUsage, MovedLook
<1>7. TablesTyped'
  BY <1>1, <1>4, <1>5 DEF RouteIInv, TablesTyped
<1> QED
  BY <1>5, <1>6, <1>7 DEF RouteIInv

LEMMA DeleteTripKeeps ==
  ASSUME RouteIInv, NEW t \in Trips, DeleteTrip(t)
  PROVE  RouteIInv'
BY DEF DeleteTrip, RouteIInv, RequestsTyped, TablesTyped, UsageBounded, QueuesInOrder,
       LocksRegistered, LookStillTrue, Key, OfTrip

LEMMA RestartKeeps ==
  ASSUME RouteIInv, Restart
  PROVE  RouteIInv'
<1>1. /\ req \in [Requests -> RequestType] /\ UNCHANGED <<enabled, row, link, trips, usage>>
      /\ registry' = [k \in Keys |-> NoLock] /\ queue' = [r \in Requests |-> <<>>]
  BY DEF Restart, RouteIInv, RequestsTyped, RequestType
<1>2. ASSUME NEW r \in Requests
      PROVE  /\ req'[r] \in RequestType /\ req'[r].lock = NoLock
             /\ req'[r].ask = req[r].ask
             /\ \/ req'[r].pc = "done"
                \/ req'[r].pc = "idle" /\ req[r].pc = "idle"
             /\ req'[r].pc = "idle" \/ req[r].pc # "idle"
  <2>1. req'[r] = IF req[r].pc \in {"idle", "done"} THEN req[r]
                  ELSE [req[r] EXCEPT !.pc = "done", !.got = "lost", !.lock = NoLock]
    BY DEF Restart
  <2>2. CASE req[r].pc \in {"idle", "done"}
    BY <1>1, <2>1, <2>2 DEF RouteIInv, LocksRegistered, Waiting
  <2>3. CASE req[r].pc \notin {"idle", "done"}
    BY <1>1, <2>1, <2>3 DEF RequestType, Answers
  <2> QED
    BY <2>2, <2>3
<1>3. RequestsTyped'
  <2>1. req' \in [Requests -> RequestType]
    BY <1>2 DEF Restart
  <2> QED
    BY <1>2, <2>1 DEF RequestsTyped, RequestType, RouteIInv
<1>4. TablesTyped'
  BY <1>1 DEF RouteIInv, TablesTyped
<1>5. UsageBounded'
  BY <1>1, <1>2 DEF RouteIInv, UsageBounded
<1>6. QueuesInOrder'
  BY <1>1 DEF QueuesInOrder
<1>7. LocksRegistered' /\ LookStillTrue'
  BY <1>2 DEF LocksRegistered, LookStillTrue, Waiting
<1> QED
  BY <1>3, <1>4, <1>5, <1>6, <1>7 DEF RouteIInv

LEMMA RouteStutterKeeps ==
  ASSUME RouteIInv, UNCHANGED routeVars
  PROVE  RouteIInv'
BY DEF routeVars, RouteIInv, RequestsTyped, TablesTyped, UsageBounded, QueuesInOrder,
       LocksRegistered, LookStillTrue, Key, OfTrip

\* The route cache: what the tables, the registry and a request can hold.
\* In particular a request logs two usage events at most.
THEOREM RouteInvariant == RouteSpec => []RouteIInv
<1>1. RouteIInv /\ [RouteNext]_routeVars => RouteIInv'
  <2> SUFFICES ASSUME RouteIInv, [RouteNext]_routeVars
               PROVE  RouteIInv'
    OBVIOUS
  <2>1. CASE \E r \in Requests : ArriveTrip(r) \/ ArriveSnap(r) \/ Serve(r)
    BY <2>1, ArriveTripKeeps, ArriveSnapKeeps, GetLockKeeps, HitKeeps, MissKeeps,
       AttemptKeeps, SaveKeeps, SaveFailsKeeps, AuditKeeps, CallFailsKeeps DEF Serve
  <2>2. CASE \E t \in Trips : DeleteTrip(t)
    BY <2>2, DeleteTripKeeps
  <2>3. CASE Restart
    BY <2>3, RestartKeeps
  <2>4. CASE UNCHANGED routeVars
    BY <2>4, RouteStutterKeeps
  <2> QED
    BY <2>1, <2>2, <2>3, <2>4 DEF RouteNext
<1> QED
  BY <1>1, InitKeepsRoutes, PTL DEF RouteSpec

\* Every reachable state of the route cache has the types declared.
THEOREM RouteTypes == RouteSpec => []RouteTypeOK
<1>1. RouteIInv => RouteTypeOK
  <2> SUFFICES ASSUME RouteIInv
               PROVE  RouteTypeOK
    OBVIOUS
  <2>1. usage \in [Requests -> 0 .. 2]
    <3>1. ASSUME NEW r \in Requests
          PROVE  usage[r] \in 0 .. 2
      BY DEF RouteIInv, UsageBounded
    <3> QED
      BY <3>1 DEF RouteIInv, UsageBounded
  <2>2. \A r \in Requests : /\ req[r].pc \in Waiting \cup {"idle", "locking", "done"}
                            /\ req[r].tries < MaxAttempts
    BY RouteConstants DEF RouteIInv, RequestsTyped
  <2> QED
    BY <2>1, <2>2 DEF RouteTypeOK, RouteIInv, TablesTyped
<1> QED
  BY <1>1, RouteInvariant, PTL

\* Whatever requests run and restart, a route is asked of Google by one request
\* at a time and never when it is stored, and no lock is left behind or doubled
\* (get_or_compute_trip_route, snap_path and LockRegistry).
THEOREM RoutesAreAskedOnce == RouteSpec => []NoStampede
<1>1. RouteIInv => OneCallPerKey
  <2> SUFFICES ASSUME RouteIInv, NEW r \in Requests, req[r].pc \in {"calling", "saving"}
               PROVE  /\ row[Key(r)] # "success"
                      /\ OfTrip(r) => row[Key(r)] = "none"
                      /\ \A q \in Requests \ {r} :
                           Key(q) = Key(r) => req[q].pc \notin {"calling", "saving"}
    BY DEF OneCallPerKey, At
  <2>1. \A q \in Requests \ {r} : Key(q) = Key(r) => req[q].pc \notin {"calling", "saving"}
    BY AloneWithTheKey DEF Waiting
  <2> QED
    BY <2>1 DEF RouteIInv, LookStillTrue
<1>2. RouteIInv => LocksPassedOn
  <2> SUFFICES ASSUME RouteIInv
               PROVE  LocksPassedOn
    OBVIOUS
  <2>1. ASSUME NEW q \in Requests
        PROVE  queue[q] \in Seq(Requests) /\ DOMAIN queue[q] = 1 .. Len(queue[q])
    BY DEF RouteIInv, TablesTyped
  <2>2. \A q \in Requests : \A i \in DOMAIN queue[q] :
          /\ req[queue[q][i]].lock = q
          /\ i > 1 => At(queue[q][i], "looking")
    BY <2>1 DEF RouteIInv, QueuesInOrder, At
  <2>3. \A r \in Requests :
          req[r].pc \in Waiting => /\ \E i \in DOMAIN queue[req[r].lock] :
                                       queue[req[r].lock][i] = r
                                  /\ registry[Key(r)] = req[r].lock
    BY <2>1 DEF RouteIInv, LocksRegistered
  <2> QED
    BY <2>2, <2>3 DEF LocksPassedOn
<1> QED
  BY <1>1, <1>2, RouteInvariant, PTL DEF NoStampede

-----------------------------------------------------------------------------
(***************************************************************************)
(* Side by side.  The events and the routes share no variable, so that a   *)
(* step of one leaves the other as it is.                                  *)
(***************************************************************************)
LEMMA SideBySideAlerts == MCSpec => Spec
<1>1. MCInit => Init
  BY DEF MCInit
<1>2. [MCNext]_<<vars, routeVars, focus>> => [Next]_vars
  BY DEF MCNext
<1> QED  BY <1>1, <1>2, PTL DEF MCSpec, Spec

LEMMA SideBySideRoutes == MCSpec => RouteSpec
<1>1. MCInit => RouteInit
  BY DEF MCInit
<1>2. [MCNext]_<<vars, routeVars, focus>> => [RouteNext]_routeVars
  BY DEF MCNext
<1> QED  BY <1>1, <1>2, PTL DEF MCSpec, RouteSpec

\* Both are well typed in every behaviour of the two: what a request of the
\* cache does cannot spoil what a telemetry job reads, nor the other way round.
THEOREM AlertsAndRoutesTypes == MCSpec => []MCTypeOK
<1>1. TypeOK /\ RouteTypeOK => MCTypeOK
  BY DEF MCTypeOK
<1> QED  BY <1>1, SideBySideAlerts, SideBySideRoutes, AlertsTypes, RouteTypes, PTL
=============================================================================
