------------------------- MODULE AssignmentsProofs -------------------------
(***************************************************************************)
(* Who drove which vehicle where, for any number of vehicles, drivers,     *)
(* routes and requests that are served at the same time, and any paths and *)
(* speeds: the assignments of drivers (DriverDuty), those of planned       *)
(* routes (RouteDriving), and both beside the analytics pipeline, whose    *)
(* proofs are in DailyProofs (MCAssignments).                              *)
(***************************************************************************)
EXTENDS DailyProofs, MCAssignments, SequenceTheorems, WellFoundedInduction

-----------------------------------------------------------------------------
(***************************************************************************)
(* Assignments: the inductive invariant, and its parts.                    *)
(***************************************************************************)
Closing(s) == s.at \in {"driver duties", "commit", "release"}

\* What a request can be doing.
DeskOK(s) ==
  \/ s = NoRequest
  \/ /\ s.at \in {"driver", "vehicle duties"}
     /\ s \in [at : {"driver", "vehicle duties"}, vehicle : Cars, driver : Staff]
  \/ /\ s.at \in {"driver duties", "commit"}
     /\ s \in [at : {"driver duties", "commit"}, vehicle : Cars, driver : Staff,
               closing : {s.closing}]
  \/ /\ s.at = "release"
     /\ s \in [at : {"release"}, closing : {s.closing}]

DutyTyped ==
  /\ staff \in [Staff -> {"absent", "ACTIVE", "SUSPENDED", "deleted"}]
  /\ barred \subseteq Cars
  /\ clock \in Nat /\ inserts \in Nat /\ releases \in Nat
  /\ inserts <= MaxDuties /\ releases <= MaxReleases
  /\ overlapped \in BOOLEAN
  /\ DOMAIN desk = Desks
  /\ desk = [k \in Desks |-> desk[k]]
  /\ \A k \in Desks : DeskOK(desk[k])

\* A row was stamped when it was inserted, and once more when it was closed.
RowOK(a) ==
  /\ a \in [id : Nat, vehicle : Cars, driver : Staff, from : Nat,
            to : Nat \cup {NoTime}, status : {"Active", "Completed"}]
  /\ a.id = a.from /\ a.id <= clock
  /\ a.status = "Active" <=> a.to = NoTime
  /\ a.to # NoTime => a.from < a.to /\ a.to <= clock

RowsOK ==
  /\ \A a \in duties : RowOK(a) /\ Employed(a.driver)
  /\ \A a, b \in duties : a.id = b.id => a = b

\* The stamps a session is about to write are in the past, and later than the
\* insertion of the row they close.
StampsOK(c) ==
  \A i \in DOMAIN c : i \in Nat /\ c[i] \in Nat /\ i < c[i] /\ c[i] <= clock

ClosingsOK == \A k \in Desks : Closing(desk[k]) => StampsOK(desk[k].closing)

\* How many stamps the requests that are under way may still take.
Waiting(states) == {k \in Desks : desk[k].at \in states}
ClockCounted ==
  clock + 3 * Cardinality(Waiting({"driver", "vehicle duties"}))
        + 2 * Cardinality(Waiting({"driver duties"}))
        + Cardinality(Waiting({"commit"})) <= 3 * inserts + releases

Apart(a, b) ==
  a # b /\ (a.vehicle = b.vehicle \/ a.driver = b.driver) => Before(a, b) \/ Before(b, a)

\* What a session has read is still so, as long as it is alone: the rows it is
\* closing are active, and it has all those of its vehicle, then of its driver.
SessionOK(s) ==
  /\ Closing(s) => \A a \in duties : a.id \in DOMAIN s.closing => a.status = "Active"
  /\ s.at \in {"driver duties", "commit"} =>
       \A a \in OfVehicle(s.vehicle) : a.id \in DOMAIN s.closing
  /\ s.at = "commit" => \A a \in OfDriver(s.driver) : a.id \in DOMAIN s.closing

InTurn ==
  /\ \A j, k \in Desks : desk[j] # NoRequest /\ desk[k] # NoRequest => j = k
  /\ \A k \in Desks : SessionOK(desk[k])
  /\ \A a, b \in duties : Apart(a, b)

DutyIInv == DutyTyped /\ RowsOK /\ ClosingsOK /\ ClockCounted /\ (overlapped \/ InTurn)

-----------------------------------------------------------------------------
(***************************************************************************)
(* What a step of one request does to the desks, the rows and the stamps.  *)
(***************************************************************************)
\* The desks stay desks when one of them takes another state.
LEMMA DesksMove ==
  ASSUME DutyTyped, NEW k \in Desks, NEW s, DeskOK(s),
         desk' = [desk EXCEPT ![k] = s]
  PROVE  /\ DOMAIN desk' = Desks
         /\ desk' = [j \in Desks |-> desk'[j]]
         /\ \A j \in Desks : DeskOK(desk'[j])
         /\ \A j \in Desks : desk'[j] = IF j = k THEN s ELSE desk[j]
<1>1. DOMAIN desk = Desks /\ \A j \in Desks : DeskOK(desk[j])
  BY DEF DutyTyped
<1> QED  BY <1>1

\* The number of desks in some states changes by the desk that moves.
LEMMA WaitingMoves ==
  ASSUME DutyTyped, NEW k \in Desks, NEW s, NEW CONSTANT S,
         desk' = [desk EXCEPT ![k] = s]
  PROVE  /\ Cardinality(Waiting(S)) \in Nat
         /\ Cardinality(Waiting(S))' \in Nat
         /\ Cardinality(Waiting(S))' =
              Cardinality(Waiting(S)) - (IF desk[k].at \in S THEN 1 ELSE 0)
                                      + (IF s.at \in S THEN 1 ELSE 0)
<1>1. DOMAIN desk = Desks
  BY DEF DutyTyped
<1> DEFINE W == Waiting(S)
           V == W \ {k}
<1>2. IsFiniteSet(W) /\ W \subseteq Desks
  <2>1. W \subseteq Desks
    BY DEF Waiting
  <2> QED  BY <2>1, FS_Subset, DutyConstants
<1>3. W' = IF s.at \in S THEN V \cup {k} ELSE V
  BY <1>1 DEF Waiting
<1>4. k \in W <=> desk[k].at \in S
  BY DEF Waiting
<1>5. IsFiniteSet(V) /\ Cardinality(V) = IF k \in W THEN Cardinality(W) - 1 ELSE Cardinality(W)
  BY <1>2, FS_RemoveElement
<1>6. Cardinality(V \cup {k}) = Cardinality(V) + 1
  BY <1>5, FS_AddElement
<1>7. Cardinality(W) \in Nat /\ Cardinality(V) \in Nat
  BY <1>2, <1>5, FS_CardinalityType
<1>8. Cardinality(W)' = IF s.at \in S THEN Cardinality(V) + 1 ELSE Cardinality(V)
  BY <1>3, <1>6
<1> QED  BY <1>4, <1>5, <1>7, <1>8

\* A step that takes no stamp but what its request was entitled to.
Owed(s) == IF s.at \in {"driver", "vehicle duties"} THEN 3
          ELSE IF s.at = "driver duties" THEN 2
          ELSE IF s.at = "commit" THEN 1 ELSE 0

One(s, S) == IF s.at \in S THEN 1 ELSE 0

LEMMA DueInOnes ==
  ASSUME NEW s
  PROVE  Owed(s) = 3 * One(s, {"driver", "vehicle duties"}) + 2 * One(s, {"driver duties"})
                    + One(s, {"commit"})
<1> DEFINE S3 == {"driver", "vehicle duties"}
           S2 == {"driver duties"}
           S1 == {"commit"}
<1> SUFFICES Owed(s) = 3 * One(s, S3) + 2 * One(s, S2) + One(s, S1)
  OBVIOUS
<1>1. CASE s.at \in S3
  <2>1. Owed(s) = 3
    BY <1>1, Zenon DEF Owed
  <2>2. One(s, S3) = 1 /\ One(s, S2) = 0 /\ One(s, S1) = 0
    BY <1>1, Zenon DEF One
  <2> HIDE DEF S3, S2, S1
  <2> QED  BY <2>1, <2>2
<1>2. CASE s.at = "driver duties"
  <2>1. Owed(s) = 2
    BY <1>2, Zenon DEF Owed
  <2>2. One(s, S3) = 0 /\ One(s, S2) = 1 /\ One(s, S1) = 0
    BY <1>2, Zenon DEF One
  <2> HIDE DEF S3, S2, S1
  <2> QED  BY <2>1, <2>2
<1>3. CASE s.at = "commit"
  <2>1. Owed(s) = 1
    BY <1>3, Zenon DEF Owed
  <2>2. One(s, S3) = 0 /\ One(s, S2) = 0 /\ One(s, S1) = 1
    BY <1>3, Zenon DEF One
  <2> HIDE DEF S3, S2, S1
  <2> QED  BY <2>1, <2>2
<1>4. CASE s.at \notin S3 /\ s.at # "driver duties" /\ s.at # "commit"
  <2>1. Owed(s) = 0
    BY <1>4, Zenon DEF Owed
  <2>2. One(s, S3) = 0 /\ One(s, S2) = 0 /\ One(s, S1) = 0
    BY <1>4, Zenon DEF One
  <2> HIDE DEF S3, S2, S1
  <2> QED  BY <2>1, <2>2
<1> QED  BY <1>1, <1>2, <1>3, <1>4

LEMMA StampsMove ==
  ASSUME DutyTyped, ClockCounted, NEW k \in Desks, NEW s,
         desk' = [desk EXCEPT ![k] = s],
         clock' \in Nat, inserts' \in Nat, releases' \in Nat,
         clock' - clock + Owed(s) - Owed(desk[k])
           <= 3 * (inserts' - inserts) + (releases' - releases)
  PROVE  ClockCounted'
<1> DEFINE S3 == {"driver", "vehicle duties"}
           S2 == {"driver duties"}
           S1 == {"commit"}
<1>1. clock \in Nat /\ inserts \in Nat /\ releases \in Nat
  BY DEF DutyTyped
<1>2. ASSUME NEW CONSTANT S
      PROVE  /\ Cardinality(Waiting(S)) \in Nat
             /\ Cardinality(Waiting(S))' = Cardinality(Waiting(S)) - One(desk[k], S) + One(s, S)
  BY WaitingMoves DEF One
<1>3. \A S : One(desk[k], S) \in 0..1 /\ One(s, S) \in 0..1
  BY DEF One
<1>4. clock + 3 * Cardinality(Waiting(S3)) + 2 * Cardinality(Waiting(S2))
        + Cardinality(Waiting(S1)) <= 3 * inserts + releases
  BY DEF ClockCounted
<1>5. /\ Owed(s) = 3 * One(s, S3) + 2 * One(s, S2) + One(s, S1)
      /\ Owed(desk[k]) = 3 * One(desk[k], S3) + 2 * One(desk[k], S2) + One(desk[k], S1)
  BY DueInOnes
<1>6. /\ Cardinality(Waiting(S3)) \in Nat /\ Cardinality(Waiting(S2)) \in Nat
      /\ Cardinality(Waiting(S1)) \in Nat
  BY <1>2
<1>7. clock' + 3 * (Cardinality(Waiting(S3)) - One(desk[k], S3) + One(s, S3))
        + 2 * (Cardinality(Waiting(S2)) - One(desk[k], S2) + One(s, S2))
        + (Cardinality(Waiting(S1)) - One(desk[k], S1) + One(s, S1))
        <= 3 * inserts' + releases'
  <2>1. clock' - clock + (3 * One(s, S3) + 2 * One(s, S2) + One(s, S1))
          - (3 * One(desk[k], S3) + 2 * One(desk[k], S2) + One(desk[k], S1))
          <= 3 * (inserts' - inserts) + (releases' - releases)
    BY <1>5
  <2>2. /\ One(s, S3) \in 0..1 /\ One(s, S2) \in 0..1 /\ One(s, S1) \in 0..1
        /\ One(desk[k], S3) \in 0..1 /\ One(desk[k], S2) \in 0..1 /\ One(desk[k], S1) \in 0..1
    BY <1>3
  <2> HIDE DEF S3, S2, S1
  <2> QED  BY <1>1, <1>4, <1>6, <2>1, <2>2
<1>8. /\ Cardinality(Waiting(S3))' = Cardinality(Waiting(S3)) - One(desk[k], S3) + One(s, S3)
      /\ Cardinality(Waiting(S2))' = Cardinality(Waiting(S2)) - One(desk[k], S2) + One(s, S2)
      /\ Cardinality(Waiting(S1))' = Cardinality(Waiting(S1)) - One(desk[k], S1) + One(s, S1)
  BY <1>2
<1> QED  BY <1>7, <1>8 DEF ClockCounted

\* Rows that nobody touches are as they were, however late it is.
LEMMA RowsStay ==
  ASSUME DutyTyped, RowsOK, UNCHANGED <<staff, duties>>, clock' \in Nat, clock <= clock'
  PROVE  RowsOK'
<1>1. clock \in Nat
  BY DEF DutyTyped
<1>2. ASSUME NEW a \in duties PROVE RowOK(a)' /\ Employed(a.driver)'
  <2>1. RowOK(a) /\ Employed(a.driver)
    BY DEF RowsOK
  <2>2. Employed(a.driver)'
    BY <2>1 DEF Employed
  <2>3. a.id \in Nat /\ (a.to # NoTime => a.to \in Nat)
    BY <2>1 DEF RowOK
  <2>4. RowOK(a)'
    BY <1>1, <2>1, <2>3 DEF RowOK
  <2> QED  BY <2>2, <2>4
<1>3. \A a, b \in duties : a.id = b.id => a = b
  BY DEF RowsOK
<1> QED  BY <1>2, <1>3 DEF RowsOK

LEMMA ClosingsMove ==
  ASSUME DutyTyped, ClosingsOK, NEW k \in Desks, NEW s,
         desk' = [desk EXCEPT ![k] = s], clock' \in Nat, clock <= clock',
         Closing(s) => StampsOK(s.closing)'
  PROVE  ClosingsOK'
<1>1. DOMAIN desk = Desks /\ clock \in Nat
  BY DEF DutyTyped
<1>2. ASSUME NEW j \in Desks, Closing(desk[j])' PROVE StampsOK(desk[j].closing)'
  <2>1. CASE j = k
    <3>1. desk'[j] = s
      BY <1>1, <2>1
    <3>2. Closing(s)
      BY <1>2, <3>1 DEF Closing
    <3> QED  BY <3>1, <3>2 DEF StampsOK
  <2>2. CASE j # k
    <3>1. desk'[j] = desk[j]
      BY <1>1, <2>2
    <3>2. StampsOK(desk[j].closing)
      BY <1>2, <3>1 DEF Closing, ClosingsOK
    <3> QED  BY <1>1, <3>1, <3>2 DEF StampsOK
  <2> QED  BY <2>1, <2>2
<1> QED  BY <1>2 DEF ClosingsOK

\* The only request there is goes on: nobody else is at a desk.
LEMMA TurnMoves ==
  ASSUME DutyTyped, InTurn, NEW k \in Desks, NEW s, desk' = [desk EXCEPT ![k] = s],
         UNCHANGED duties, SessionOK(s),
         \A j \in Desks : j # k => desk[j] = NoRequest
  PROVE  InTurn'
<1>1. \A j \in Desks : desk'[j] = IF j = k THEN s ELSE desk[j]
  BY DEF DutyTyped
<1>2. (\A i, j \in Desks : desk[i] # NoRequest /\ desk[j] # NoRequest => i = j)'
  BY <1>1
<1>3. ASSUME NEW j \in Desks PROVE SessionOK(desk[j])'
  <2>1. SessionOK(desk'[j])
    BY <1>1 DEF InTurn
  <2> QED  BY <2>1 DEF SessionOK, OfVehicle, OfDriver
<1>4. (\A a, b \in duties : Apart(a, b))'
  BY DEF InTurn, Apart, Before
<1> QED  BY <1>2, <1>3, <1>4 DEF InTurn

(***************************************************************************)
(* The invariant, action by action.  First a step that leaves the rows.    *)
(***************************************************************************)
LEMMA RequestMoves ==
  ASSUME DutyIInv, NEW k \in Desks, NEW s, DeskOK(s), desk' = [desk EXCEPT ![k] = s],
         UNCHANGED <<staff, barred, duties>>,
         clock' \in Nat, clock <= clock',
         inserts' \in Nat, inserts' <= MaxDuties,
         releases' \in Nat, releases' <= MaxReleases,
         clock' - clock + Owed(s) - Owed(desk[k])
           <= 3 * (inserts' - inserts) + (releases' - releases),
         overlapped' \in BOOLEAN,
         Closing(s) => StampsOK(s.closing)',
         overlapped' \/ (/\ ~overlapped
                         /\ \A j \in Desks : j # k => desk[j] = NoRequest
                         /\ InTurn => SessionOK(s))
  PROVE  DutyIInv'
<1> USE DEF DutyIInv
<1>1. DutyTyped'
  BY DesksMove DEF DutyTyped
<1>2. RowsOK'
  BY RowsStay
<1>3. ClosingsOK'
  BY ClosingsMove
<1>4. ClockCounted'
  BY StampsMove
<1>5. (overlapped \/ InTurn)'
  BY TurnMoves
<1> QED  BY <1>1, <1>2, <1>3, <1>4, <1>5

\* While nothing overlaps, a request that is under way is the only one.
LEMMA Alone ==
  ASSUME DutyTyped, InTurn, NEW k \in Desks, desk[k] # NoRequest
  PROVE  \A j \in Desks : j # k => desk[j] = NoRequest
BY DEF InTurn

LEMMA CheckVehicleKeeps ==
  ASSUME DutyIInv, NEW k \in Desks, NEW v \in Cars, NEW d \in Staff, CheckVehicle(k, v, d)
  PROVE  DutyIInv'
<1> DEFINE s == [at |-> "driver", vehicle |-> v, driver |-> d]
<1>1. DutyTyped
  BY DEF DutyIInv
<1>2. /\ clock' = clock /\ inserts' = inserts + 1 /\ releases' = releases
      /\ inserts < MaxDuties
      /\ UNCHANGED <<staff, barred, duties>>
      /\ desk[k] = NoRequest
      /\ desk' = [desk EXCEPT ![k] = s]
      /\ overlapped' = (overlapped \/ \E j \in Desks \ {k} : desk[j] # NoRequest)
  BY DEF CheckVehicle, Take
<1>3. /\ clock \in Nat /\ inserts \in Nat /\ releases \in Nat /\ releases <= MaxReleases
      /\ MaxDuties \in Nat /\ overlapped \in BOOLEAN
  BY <1>1, DutyConstants DEF DutyTyped
<1>4. DeskOK(s)
  BY DEF DeskOK
<1>5. Owed(s) = 3 /\ Owed(desk[k]) = 0
  BY <1>2 DEF Owed, NoRequest
<1>6. ~Closing(s) /\ SessionOK(s)
  BY DEF Closing, SessionOK
<1>7. overlapped' \in BOOLEAN
  BY <1>2, <1>3
<1>8. overlapped' \/ (/\ ~overlapped
                      /\ \A j \in Desks : j # k => desk[j] = NoRequest
                      /\ InTurn => SessionOK(s))
  BY <1>2, <1>3, <1>6
<1>9. /\ clock' \in Nat /\ clock <= clock'
      /\ inserts' \in Nat /\ inserts' <= MaxDuties
      /\ releases' \in Nat /\ releases' <= MaxReleases
      /\ clock' - clock + Owed(s) - Owed(desk[k])
           <= 3 * (inserts' - inserts) + (releases' - releases)
  BY <1>2, <1>3, <1>5
<1> HIDE DEF s
<1> QED  BY <1>2, <1>4, <1>6, <1>7, <1>8, <1>9, RequestMoves

LEMMA CheckDriverKeeps ==
  ASSUME DutyIInv, NEW k \in Desks, CheckDriver(k)
  PROVE  DutyIInv'
<1>1. DutyTyped
  BY DEF DutyIInv
<1>2. /\ UNCHANGED <<clock, inserts, releases, overlapped, staff, barred, duties>>
      /\ desk[k].at = "driver"
  BY DEF CheckDriver
<1>3. /\ clock \in Nat /\ inserts \in Nat /\ releases \in Nat
      /\ inserts <= MaxDuties /\ releases <= MaxReleases /\ overlapped \in BOOLEAN
  BY <1>1 DEF DutyTyped
<1>4. desk[k] # NoRequest /\ DeskOK(desk[k])
  BY <1>1, <1>2 DEF NoRequest, DutyTyped
<1>5. PICK s : /\ desk' = [desk EXCEPT ![k] = s]
               /\ DeskOK(s) /\ s.at \in {"idle", "vehicle duties"}
  <2>1. CASE desk' = [desk EXCEPT ![k] = NoRequest]
    <3>1. DeskOK(NoRequest) /\ NoRequest.at = "idle"
      BY DEF DeskOK, NoRequest
    <3> QED  BY <2>1, <3>1
  <2>2. CASE desk' = [desk EXCEPT ![k].at = "vehicle duties"]
    <3> DEFINE s == [desk[k] EXCEPT !.at = "vehicle duties"]
    <3>1. desk' = [desk EXCEPT ![k] = s]
      BY <2>2
    <3>2. desk[k] \in [at : {"driver", "vehicle duties"}, vehicle : Cars, driver : Staff]
      BY <1>2, <1>4 DEF DeskOK, NoRequest
    <3>3. /\ s \in [at : {"driver", "vehicle duties"}, vehicle : Cars, driver : Staff]
          /\ s.at = "vehicle duties"
      BY <3>2
    <3> QED  BY <3>1, <3>3 DEF DeskOK
  <2> QED  BY <2>1, <2>2 DEF CheckDriver, End
<1>6. Owed(s) <= 3 /\ Owed(s) \in Nat /\ Owed(desk[k]) = 3
  BY <1>2 DEF Owed
<1>7. ~Closing(s) /\ SessionOK(s)
  BY <1>5 DEF Closing, SessionOK
<1>8. overlapped' \/ (/\ ~overlapped
                      /\ \A j \in Desks : j # k => desk[j] = NoRequest
                      /\ InTurn => SessionOK(s))
  BY <1>1, <1>2, <1>3, <1>4, <1>7, Alone DEF DutyIInv
<1>9. /\ clock' \in Nat /\ clock <= clock'
      /\ inserts' \in Nat /\ inserts' <= MaxDuties
      /\ releases' \in Nat /\ releases' <= MaxReleases
      /\ clock' - clock + Owed(s) - Owed(desk[k])
           <= 3 * (inserts' - inserts) + (releases' - releases)
      /\ overlapped' \in BOOLEAN
  BY <1>2, <1>3, <1>6
<1>10. Closing(s) => StampsOK(s.closing)'
  BY <1>7
<1> QED  BY <1>2, <1>5, <1>8, <1>9, <1>10, RequestMoves

LEMMA CloseForVehicleKeeps ==
  ASSUME DutyIInv, NEW k \in Desks, CloseForVehicle(k)
  PROVE  DutyIInv'
<1>v. PICK v : v = desk[k].vehicle
  OBVIOUS
<1>h. PICK held : held = [i \in Ids(OfVehicle(v)) |-> clock + 1]
  OBVIOUS
<1>s. PICK s : s = [at |-> "driver duties", vehicle |-> v, driver |-> desk[k].driver,
                  closing |-> held]
  OBVIOUS
<1>0. desk[k].at = "vehicle duties" /\ NoRequest.at = "idle"
  BY DEF CloseForVehicle, NoRequest
<1>1. DutyTyped /\ RowsOK
  BY DEF DutyIInv
<1>2. /\ clock' = clock + 1
      /\ UNCHANGED <<inserts, releases, overlapped, staff, barred, duties>>
      /\ desk[k].at = "vehicle duties"
      /\ desk' = [desk EXCEPT ![k] = s]
  BY <1>v, <1>h, <1>s DEF CloseForVehicle
<1>3. /\ clock \in Nat /\ inserts \in Nat /\ releases \in Nat
      /\ inserts <= MaxDuties /\ releases <= MaxReleases /\ overlapped \in BOOLEAN
  BY <1>1 DEF DutyTyped
<1>4. desk[k] # NoRequest /\ DeskOK(desk[k])
  BY <1>0, <1>1 DEF DutyTyped
<1>5. desk[k] \in [at : {"driver", "vehicle duties"}, vehicle : Cars, driver : Staff]
  BY <1>2, <1>4 DEF DeskOK, NoRequest
<1>6. DeskOK(s)
  BY <1>v, <1>s, <1>5 DEF DeskOK
<1>7. Owed(s) = 2 /\ Owed(desk[k]) = 3
  BY <1>0, <1>s DEF Owed
<1>8. \A a \in duties : a.id \in Nat /\ a.id <= clock
  BY <1>1 DEF RowsOK, RowOK
<1>9. StampsOK(held)'
  <2>1. \A i \in DOMAIN held : i \in Nat /\ i <= clock /\ held[i] = clock + 1
    BY <1>h, <1>8 DEF Ids, OfVehicle
  <2>2. clock' = clock + 1
    BY <1>2
  <2>3. ASSUME NEW i \in DOMAIN held
        PROVE  i \in Nat /\ held[i] \in Nat /\ i < held[i] /\ held[i] <= clock'
    BY <1>3, <2>1, <2>2
  <2> QED  BY <2>3 DEF StampsOK
<1>10. SessionOK(s)
  <2>1. \A a \in duties : a.id \in Ids(OfVehicle(v)) => a.status = "Active"
    BY <1>1 DEF Ids, OfVehicle, RowsOK
  <2>2. \A a \in OfVehicle(v) : a.id \in Ids(OfVehicle(v))
    BY DEF Ids
  <2>3. DOMAIN s.closing = Ids(OfVehicle(v)) /\ s.vehicle = v /\ s.at = "driver duties"
    BY <1>h, <1>s
  <2> QED  BY <2>1, <2>2, <2>3 DEF SessionOK
<1>11. overlapped' \/ (/\ ~overlapped
                       /\ \A j \in Desks : j # k => desk[j] = NoRequest
                       /\ InTurn => SessionOK(s))
  BY <1>1, <1>2, <1>3, <1>4, <1>10, Alone DEF DutyIInv
<1>12. /\ clock' \in Nat /\ clock <= clock'
       /\ inserts' \in Nat /\ inserts' <= MaxDuties
       /\ releases' \in Nat /\ releases' <= MaxReleases
       /\ clock' - clock + Owed(s) - Owed(desk[k])
            <= 3 * (inserts' - inserts) + (releases' - releases)
       /\ overlapped' \in BOOLEAN
  <2>1. clock' = clock + 1 /\ UNCHANGED <<inserts, releases, overlapped>>
    BY DEF CloseForVehicle
  <2> QED  BY <1>3, <1>7, <2>1
<1>13. Closing(s) => StampsOK(s.closing)'
  BY <1>s, <1>9
<1> QED  BY <1>2, <1>6, <1>11, <1>12, <1>13, RequestMoves

LEMMA CloseForDriverKeeps ==
  ASSUME DutyIInv, NEW k \in Desks, CloseForDriver(k)
  PROVE  DutyIInv'
<1>d. PICK d : d = desk[k].driver
  OBVIOUS
<1>f. PICK found : found = Ids(OfDriver(d))
  OBVIOUS
<1>o. PICK old : old = desk[k].closing
  OBVIOUS
<1>h. PICK held :
      held = [i \in DOMAIN old \cup found |-> IF i \in found THEN clock + 1 ELSE old[i]]
  OBVIOUS
<1>s. PICK s : s = [desk[k] EXCEPT !.at = "commit", !.closing = held]
  OBVIOUS
<1>0. desk[k].at = "driver duties" /\ NoRequest.at = "idle"
  BY DEF CloseForDriver, NoRequest
<1>1. DutyTyped /\ RowsOK /\ ClosingsOK
  BY DEF DutyIInv
<1>2. /\ clock' = clock + 1
      /\ UNCHANGED <<inserts, releases, overlapped, staff, barred, duties>>
      /\ desk[k].at = "driver duties"
      /\ desk' = [desk EXCEPT ![k] = s]
  BY <1>d, <1>f, <1>o, <1>h, <1>s DEF CloseForDriver
<1>3. /\ clock \in Nat /\ inserts \in Nat /\ releases \in Nat
      /\ inserts <= MaxDuties /\ releases <= MaxReleases /\ overlapped \in BOOLEAN
  BY <1>1 DEF DutyTyped
<1>4. desk[k] # NoRequest /\ DeskOK(desk[k])
  BY <1>0, <1>1 DEF DutyTyped
<1>5. desk[k] \in [at : {"driver duties", "commit"}, vehicle : Cars, driver : Staff,
                   closing : {old}]
  BY <1>o, <1>0, <1>4 DEF DeskOK, NoRequest
<1>6. /\ s \in [at : {"driver duties", "commit"}, vehicle : Cars, driver : Staff,
                 closing : {held}]
      /\ s.at = "commit" /\ s.closing = held /\ s.vehicle = desk[k].vehicle /\ s.driver = d
  BY <1>d, <1>s, <1>5
<1>7. DeskOK(s)
  BY <1>6 DEF DeskOK
<1>8. Owed(s) = 1 /\ Owed(desk[k]) = 2
  BY <1>0, <1>6 DEF Owed
<1>9. \A a \in duties : a.id \in Nat /\ a.id <= clock
  BY <1>1 DEF RowsOK, RowOK
<1>10. StampsOK(held)'
  <2>1. StampsOK(old)
    BY <1>o, <1>0, <1>1 DEF ClosingsOK, Closing
  <2>2. \A i \in found : i \in Nat /\ i <= clock
    BY <1>f, <1>9 DEF Ids, OfDriver
  <2>3. \A i \in DOMAIN old : i \in Nat /\ old[i] \in Nat /\ i < old[i] /\ old[i] <= clock
    BY <2>1 DEF StampsOK
  <2>4. DOMAIN held = DOMAIN old \cup found
    BY <1>h
  <2>5. ASSUME NEW i \in DOMAIN held
        PROVE  i \in Nat /\ held[i] \in Nat /\ i < held[i] /\ held[i] <= clock + 1
    <3>1. CASE i \in found
      <4>1. held[i] = clock + 1
        BY <1>h, <2>4, <3>1
      <4> QED  BY <1>3, <2>2, <3>1, <4>1
    <3>2. CASE i \notin found
      <4>1. held[i] = old[i] /\ i \in DOMAIN old
        BY <1>h, <2>4, <3>2
      <4> QED  BY <1>3, <2>3, <3>2, <4>1
    <3> QED  BY <3>1, <3>2
  <2>6. clock' = clock + 1
    BY <1>2
  <2> QED  BY <2>5, <2>6 DEF StampsOK
<1>11. ASSUME InTurn PROVE SessionOK(s)
  <2>1. SessionOK(desk[k])
    BY <1>11 DEF InTurn
  <2>2. /\ \A a \in duties : a.id \in DOMAIN old => a.status = "Active"
        /\ \A a \in OfVehicle(desk[k].vehicle) : a.id \in DOMAIN old
    BY <1>o, <1>0, <2>1 DEF SessionOK, Closing
  <2>3. \A a \in duties : a.id \in found => a.status = "Active"
    BY <1>f, <1>1 DEF Ids, OfDriver, RowsOK
  <2>4. \A a \in OfDriver(d) : a.id \in found
    BY <1>f DEF Ids
  <2>5. DOMAIN held = DOMAIN old \cup found
    BY <1>h
  <2> QED  BY <1>6, <2>2, <2>3, <2>4, <2>5 DEF SessionOK
<1>12. overlapped' \/ (/\ ~overlapped
                       /\ \A j \in Desks : j # k => desk[j] = NoRequest
                       /\ InTurn => SessionOK(s))
  BY <1>1, <1>2, <1>3, <1>4, <1>11, Alone DEF DutyIInv
<1>13. /\ clock' \in Nat /\ clock <= clock'
       /\ inserts' \in Nat /\ inserts' <= MaxDuties
       /\ releases' \in Nat /\ releases' <= MaxReleases
       /\ clock' - clock + Owed(s) - Owed(desk[k])
            <= 3 * (inserts' - inserts) + (releases' - releases)
       /\ overlapped' \in BOOLEAN
  <2>1. clock' = clock + 1 /\ UNCHANGED <<inserts, releases, overlapped>>
    BY DEF CloseForDriver
  <2> QED  BY <1>3, <1>8, <2>1
<1>14. Closing(s) => StampsOK(s.closing)'
  BY <1>6, <1>10
<1> QED  BY <1>2, <1>7, <1>12, <1>13, <1>14, RequestMoves

LEMMA FindDutyKeeps ==
  ASSUME DutyIInv, NEW k \in Desks, NEW v \in Cars, FindDuty(k, v)
  PROVE  DutyIInv'
<1>1. DutyTyped /\ RowsOK
  BY DEF DutyIInv
<1>2. PICK a \in OfVehicle(v) :
        /\ clock' = clock + 1
        /\ Take(k, [at |-> "release", closing |-> [i \in {a.id} |-> clock + 1]])
  BY DEF FindDuty
<1>h. PICK held : held = [i \in {a.id} |-> clock + 1]
  OBVIOUS
<1>s. PICK s : s = [at |-> "release", closing |-> held]
  OBVIOUS
<1>3. /\ desk' = [desk EXCEPT ![k] = s] /\ desk[k] = NoRequest
      /\ overlapped' = (overlapped \/ \E j \in Desks \ {k} : desk[j] # NoRequest)
  BY <1>2, <1>h, <1>s DEF Take
<1>4. /\ clock' = clock + 1 /\ releases' = releases + 1 /\ releases < MaxReleases
      /\ inserts' = inserts
  BY <1>2 DEF FindDuty
<1>5. UNCHANGED <<staff, barred, duties>>
  BY DEF FindDuty
<1>6. /\ clock \in Nat /\ inserts \in Nat /\ releases \in Nat
      /\ inserts <= MaxDuties /\ MaxReleases \in Nat /\ overlapped \in BOOLEAN
  BY <1>1, DutyConstants DEF DutyTyped
<1>7. a \in duties /\ a.id \in Nat /\ a.id <= clock /\ a.status = "Active"
  BY <1>1 DEF RowsOK, RowOK, OfVehicle
<1>8. DeskOK(s)
  BY <1>s DEF DeskOK
<1>9. Owed(s) = 0 /\ Owed(desk[k]) = 0
  BY <1>s, <1>3 DEF Owed, NoRequest
<1>10. DOMAIN held = {a.id} /\ held[a.id] = clock + 1
  BY <1>h
<1>11. StampsOK(held)'
  BY <1>4, <1>6, <1>7, <1>10 DEF StampsOK
<1>12. Closing(s) => StampsOK(s.closing)'
  BY <1>s, <1>11
<1>13. SessionOK(s)
  <2>1. \A b \in duties : b.id = a.id => b.status = "Active"
    BY <1>1, <1>7 DEF RowsOK
  <2>2. s.at = "release" /\ s.closing = held
    BY <1>s
  <2> QED  BY <1>10, <2>1, <2>2 DEF SessionOK
<1>14. overlapped' \/ (/\ ~overlapped
                       /\ \A j \in Desks : j # k => desk[j] = NoRequest
                       /\ InTurn => SessionOK(s))
  BY <1>3, <1>6, <1>13
<1>15. /\ clock' \in Nat /\ clock <= clock'
       /\ inserts' \in Nat /\ inserts' <= MaxDuties
       /\ releases' \in Nat /\ releases' <= MaxReleases
       /\ clock' - clock + Owed(s) - Owed(desk[k])
            <= 3 * (inserts' - inserts) + (releases' - releases)
  BY <1>4, <1>6, <1>9
<1>16. overlapped' \in BOOLEAN
  BY <1>3, <1>6
<1> QED  BY <1>3, <1>5, <1>8, <1>12, <1>14, <1>15, <1>16, RequestMoves

-----------------------------------------------------------------------------
(***************************************************************************)
(* A step that writes rows: a closed row is the row it was, with a release *)
(* that is later than its insertion.                                       *)
(***************************************************************************)
ClosedRow(a, c) ==
  IF a.id \in DOMAIN c THEN [a EXCEPT !.status = "Completed", !.to = c[a.id]] ELSE a

LEMMA RowIsClosed ==
  ASSUME DutyTyped, NEW a, RowOK(a), NEW c, StampsOK(c)
  PROVE  LET b == ClosedRow(a, c)
         IN  /\ RowOK(b)
             /\ b.id = a.id /\ b.vehicle = a.vehicle /\ b.driver = a.driver /\ b.from = a.from
             /\ a.id \notin DOMAIN c => b = a
             /\ a.id \in DOMAIN c => b.to = c[a.id] /\ b.status = "Completed"
<1>1. CASE a.id \notin DOMAIN c
  BY <1>1 DEF ClosedRow
<1>2. CASE a.id \in DOMAIN c
  <2> DEFINE b == [a EXCEPT !.status = "Completed", !.to = c[a.id]]
  <2>1. c[a.id] \in Nat /\ a.id < c[a.id] /\ c[a.id] <= clock
    BY <1>2 DEF StampsOK
  <2>2. /\ a \in [id : Nat, vehicle : Cars, driver : Staff, from : Nat,
                  to : Nat \cup {NoTime}, status : {"Active", "Completed"}]
        /\ a.id = a.from /\ a.id <= clock
    BY DEF RowOK
  <2>3. /\ b \in [id : Nat, vehicle : Cars, driver : Staff, from : Nat,
                  to : Nat \cup {NoTime}, status : {"Active", "Completed"}]
        /\ b.id = a.id /\ b.vehicle = a.vehicle /\ b.driver = a.driver /\ b.from = a.from
        /\ b.to = c[a.id] /\ b.status = "Completed"
    BY <2>1, <2>2
  <2>4. b.to # NoTime
    BY <2>1, <2>3, DutyConstants
  <2>5. ClosedRow(a, c) = b
    BY <1>2 DEF ClosedRow
  <2> HIDE DEF b
  <2>6. RowOK(b)
    BY <2>1, <2>2, <2>3, <2>4 DEF RowOK
  <2> QED  BY <1>2, <2>3, <2>5, <2>6
<1> QED  BY <1>1, <1>2

LEMMA RowsAreClosed ==
  ASSUME DutyTyped, RowsOK, NEW c, StampsOK(c)
  PROVE  /\ \A a \in Closed(duties, c) : RowOK(a) /\ Employed(a.driver)
         /\ \A a, b \in Closed(duties, c) : a.id = b.id => a = b
<1>1. Closed(duties, c) = {ClosedRow(a, c) : a \in duties}
  BY DEF Closed, ClosedRow
<1>2. \A a \in duties : /\ RowOK(ClosedRow(a, c)) /\ ClosedRow(a, c).driver = a.driver
                        /\ ClosedRow(a, c).id = a.id
  BY RowIsClosed DEF RowsOK
<1>3. \A a, b \in duties : a.id = b.id => a = b
  BY DEF RowsOK
<1>4. \A a \in duties : Employed(a.driver)
  BY DEF RowsOK
<1>5. \A a \in Closed(duties, c) : RowOK(a) /\ Employed(a.driver)
  BY <1>1, <1>2, <1>4
<1>6. \A a, b \in Closed(duties, c) : a.id = b.id => a = b
  BY <1>1, <1>2, <1>3
<1> QED  BY <1>5, <1>6

\* Closing active rows keeps the assignments apart: what has ended before one
\* of them began is not touched.
LEMMA ClosedStayApart ==
  ASSUME DutyTyped, RowsOK, NEW c, StampsOK(c),
         \A a, b \in duties : Apart(a, b),
         \A a \in duties : a.id \in DOMAIN c => a.status = "Active"
  PROVE  \A a, b \in Closed(duties, c) : Apart(a, b)
<1>1. Closed(duties, c) = {ClosedRow(a, c) : a \in duties}
  BY DEF Closed, ClosedRow
<1>2. ASSUME NEW a \in duties, NEW b \in duties
      PROVE  Apart(ClosedRow(a, c), ClosedRow(b, c))
  <2> DEFINE x == ClosedRow(a, c)
             y == ClosedRow(b, c)
  <2>1. /\ x.vehicle = a.vehicle /\ x.driver = a.driver /\ x.from = a.from
        /\ a.id \notin DOMAIN c => x = a
    BY RowIsClosed DEF RowsOK
  <2>2. /\ y.vehicle = b.vehicle /\ y.driver = b.driver /\ y.from = b.from
        /\ b.id \notin DOMAIN c => y = b
    BY RowIsClosed DEF RowsOK
  <2>3. a = b => x = y
    OBVIOUS
  <2>4. (a.to # NoTime => a.id \notin DOMAIN c) /\ (b.to # NoTime => b.id \notin DOMAIN c)
    BY DEF RowsOK, RowOK
  <2> HIDE DEF x, y
  <2>5. Apart(a, b)
    OBVIOUS
  <2>6. Apart(x, y)
    BY <2>1, <2>2, <2>3, <2>4, <2>5 DEF Apart, Before
  <2> QED  BY <2>6 DEF x, y
<1> QED  BY <1>1, <1>2

\* A request that has ended leaves its desk, and its stamps are used up.
LEMMA DeskLeft ==
  ASSUME DutyIInv, NEW k \in Desks, End(k), UNCHANGED <<inserts, releases>>,
         clock' \in Nat, clock <= clock', clock' - clock <= Owed(desk[k])
  PROVE  /\ DOMAIN desk' = Desks /\ desk' = [j \in Desks |-> desk'[j]]
         /\ \A j \in Desks : DeskOK(desk'[j])
         /\ \A j \in Desks : desk'[j] = IF j = k THEN NoRequest ELSE desk[j]
         /\ ClosingsOK' /\ ClockCounted'
<1>1. DutyTyped /\ ClosingsOK /\ ClockCounted
  BY DEF DutyIInv
<1>2. desk' = [desk EXCEPT ![k] = NoRequest]
  BY DEF End
<1>3. DeskOK(NoRequest) /\ ~Closing(NoRequest) /\ Owed(NoRequest) = 0
  BY DEF DeskOK, NoRequest, Closing, Owed
<1>4. Owed(desk[k]) \in Nat
  BY DEF Owed
<1>5. clock \in Nat /\ inserts \in Nat /\ releases \in Nat
  BY <1>1 DEF DutyTyped
<1>6. clock' - clock + Owed(NoRequest) - Owed(desk[k])
        <= 3 * (inserts' - inserts) + (releases' - releases)
  BY <1>3, <1>4, <1>5
<1>7. ClosingsOK'
  BY <1>1, <1>2, <1>3, ClosingsMove
<1>8. ClockCounted'
  BY <1>1, <1>2, <1>5, <1>6, StampsMove
<1>9. /\ DOMAIN desk' = Desks /\ desk' = [j \in Desks |-> desk'[j]]
      /\ \A j \in Desks : DeskOK(desk'[j])
      /\ \A j \in Desks : desk'[j] = IF j = k THEN NoRequest ELSE desk[j]
  BY <1>1, <1>2, <1>3, DesksMove
<1> QED  BY <1>7, <1>8, <1>9

\* Nobody is at a desk: all there is to say is that the rows are apart.
LEMMA NobodyLeft ==
  ASSUME DutyTyped, InTurn, NEW k \in Desks, desk[k] # NoRequest,
         \A j \in Desks : desk'[j] = IF j = k THEN NoRequest ELSE desk[j],
         (\A a, b \in duties : Apart(a, b))'
  PROVE  InTurn'
<1>1. \A j \in Desks : desk'[j] = NoRequest
  BY Alone
<1>2. \A j \in Desks : desk'[j].at = "idle"
  BY <1>1 DEF NoRequest
<1>3. \A j \in Desks : SessionOK(desk[j])'
  BY <1>2 DEF SessionOK, Closing
<1> QED  BY <1>1, <1>3 DEF InTurn

LEMMA ReleaseDutyKeeps ==
  ASSUME DutyIInv, NEW k \in Desks, ReleaseDuty(k)
  PROVE  DutyIInv'
<1>1. DutyTyped /\ RowsOK /\ ClosingsOK
  BY DEF DutyIInv
<1>c. PICK c : c = desk[k].closing
  OBVIOUS
<1>2. /\ desk[k].at = "release" /\ NoRequest.at = "idle"
      /\ duties' = Closed(duties, c) /\ End(k)
      /\ UNCHANGED <<staff, barred, clock, inserts, releases, overlapped>>
  BY <1>c DEF ReleaseDuty, NoRequest
<1>3. clock \in Nat /\ Owed(desk[k]) = 0 /\ desk[k] # NoRequest
  BY <1>1, <1>2 DEF DutyTyped, Owed
<1>4. StampsOK(c)
  BY <1>c, <1>1, <1>2 DEF ClosingsOK, Closing
<1>5. /\ DOMAIN desk' = Desks /\ desk' = [j \in Desks |-> desk'[j]]
      /\ \A j \in Desks : DeskOK(desk'[j])
      /\ \A j \in Desks : desk'[j] = IF j = k THEN NoRequest ELSE desk[j]
      /\ ClosingsOK' /\ ClockCounted'
  BY <1>2, <1>3, DeskLeft
<1>6. DutyTyped'
  BY <1>1, <1>2, <1>5 DEF DutyTyped
<1>7. RowsOK'
  <2>1. /\ \A a \in duties' : RowOK(a) /\ Employed(a.driver)
        /\ \A a, b \in duties' : a.id = b.id => a = b
    BY <1>1, <1>2, <1>4, RowsAreClosed
  <2> QED  BY <1>2, <2>1 DEF RowsOK, RowOK, Employed
<1>8. ASSUME ~overlapped PROVE InTurn'
  <2>1. InTurn /\ SessionOK(desk[k])
    BY <1>8 DEF DutyIInv, InTurn
  <2>2. \A a \in duties : a.id \in DOMAIN c => a.status = "Active"
    BY <1>c, <1>2, <2>1 DEF SessionOK, Closing
  <2>3. \A a, b \in duties' : Apart(a, b)
    BY <1>1, <1>2, <1>4, <2>1, <2>2, ClosedStayApart DEF InTurn
  <2>4. (\A a, b \in duties : Apart(a, b))'
    BY <2>3 DEF Apart, Before
  <2> QED  BY <1>1, <1>3, <1>5, <2>1, <2>4, NobodyLeft
<1> QED  BY <1>2, <1>5, <1>6, <1>7, <1>8 DEF DutyIInv

LEMMA CommitDutyKeeps ==
  ASSUME DutyIInv, NEW k \in Desks, CommitDuty(k)
  PROVE  DutyIInv'
<1>1. DutyTyped /\ RowsOK /\ ClosingsOK
  BY DEF DutyIInv
<1>c. PICK c : c = desk[k].closing
  OBVIOUS
<1>n. PICK new : new = [id |-> clock + 1, vehicle |-> desk[k].vehicle,
                        driver |-> desk[k].driver, from |-> clock + 1, to |-> NoTime,
                        status |-> "Active"]
  OBVIOUS
<1>2. desk[k].at = "commit" /\ NoRequest.at = "idle" /\ End(k)
  BY DEF CommitDuty, NoRequest
<1>3. clock' = clock + 1 /\ UNCHANGED <<staff, barred, inserts, releases, overlapped>>
  BY DEF CommitDuty
<1>4. \/ duties' = duties
      \/ Employed(new.driver) /\ duties' = Closed(duties, c) \cup {new}
  BY <1>c, <1>n, <1>3 DEF CommitDuty
<1>5. clock \in Nat /\ Owed(desk[k]) = 1 /\ desk[k] # NoRequest /\ DeskOK(desk[k])
  BY <1>1, <1>2 DEF DutyTyped, Owed
<1>6. StampsOK(c)
  BY <1>c, <1>1, <1>2 DEF ClosingsOK, Closing
<1>7. /\ DOMAIN desk' = Desks /\ desk' = [j \in Desks |-> desk'[j]]
      /\ \A j \in Desks : DeskOK(desk'[j])
      /\ \A j \in Desks : desk'[j] = IF j = k THEN NoRequest ELSE desk[j]
      /\ ClosingsOK' /\ ClockCounted'
  BY <1>2, <1>3, <1>5, DeskLeft
<1>8. DutyTyped'
  <2>1. clock' \in Nat
    BY <1>3, <1>5
  <2> QED  BY <1>1, <1>3, <1>7, <2>1 DEF DutyTyped
<1>9. CASE duties' = duties
  <2>1. RowsOK'
    BY <1>1, <1>3, <1>5, <1>9, RowsStay
  <2>2. ~overlapped => InTurn'
    <3> SUFFICES ASSUME ~overlapped PROVE InTurn'
      OBVIOUS
    <3>1. InTurn
      BY DEF DutyIInv
    <3>2. (\A a, b \in duties : Apart(a, b))'
      BY <1>9, <3>1 DEF InTurn, Apart, Before
    <3> QED  BY <1>1, <1>5, <1>7, <3>1, <3>2, NobodyLeft
  <2> QED  BY <1>3, <1>7, <1>8, <2>1, <2>2 DEF DutyIInv
<1>10. CASE Employed(new.driver) /\ duties' = Closed(duties, c) \cup {new}
  <2>1. /\ new.id = clock + 1 /\ new.from = clock + 1 /\ new.to = NoTime
        /\ new.status = "Active"
        /\ new.vehicle = desk[k].vehicle /\ new.driver = desk[k].driver
        /\ new \in [id : Nat, vehicle : Cars, driver : Staff, from : Nat,
                    to : Nat \cup {NoTime}, status : {"Active", "Completed"}]
    <3>1. desk[k].vehicle \in Cars /\ desk[k].driver \in Staff
      BY <1>2, <1>5 DEF DeskOK
    <3> QED  BY <1>n, <1>5, <3>1
  <2>2. /\ \A a \in Closed(duties, c) : RowOK(a) /\ Employed(a.driver)
        /\ \A a, b \in Closed(duties, c) : a.id = b.id => a = b
    BY <1>1, <1>6, RowsAreClosed
  <2>3. \A a \in Closed(duties, c) : /\ a.id \in Nat /\ a.id <= clock /\ a.id # clock + 1
                                     /\ a.to # NoTime => a.to \in Nat /\ a.to <= clock
                                     /\ a.status = "Active" <=> a.to = NoTime
    <3> SUFFICES ASSUME NEW a \in Closed(duties, c)
                 PROVE  /\ a.id \in Nat /\ a.id <= clock /\ a.id # clock + 1
                        /\ a.to # NoTime => a.to \in Nat /\ a.to <= clock
                        /\ a.status = "Active" <=> a.to = NoTime
      OBVIOUS
    <3>1. RowOK(a)
      BY <2>2
    <3>2. a.id \in Nat /\ a.id <= clock
      BY <3>1 DEF RowOK
    <3>3. (a.to # NoTime => a.to \in Nat /\ a.to <= clock) /\ (a.status = "Active" <=> a.to = NoTime)
      BY <3>1 DEF RowOK
    <3> QED  BY <1>5, <3>2, <3>3
  <2>4. RowsOK'
    <3>1. \A a \in Closed(duties, c) : RowOK(a)' /\ Employed(a.driver)'
      BY <1>3, <1>5, <2>2, <2>3 DEF RowOK, Employed
    <3>2. RowOK(new)' /\ Employed(new.driver)'
      BY <1>3, <1>5, <1>10, <2>1 DEF RowOK, Employed
    <3>3. \A a, b \in duties' : a.id = b.id => a = b
      BY <1>10, <2>1, <2>2, <2>3
    <3> QED  BY <1>10, <3>1, <3>2, <3>3 DEF RowsOK
  <2>5. ASSUME ~overlapped PROVE InTurn'
    <3>1. InTurn /\ SessionOK(desk[k])
      BY <2>5 DEF DutyIInv, InTurn
    <3>2. /\ \A a \in duties : a.id \in DOMAIN c => a.status = "Active"
          /\ \A a \in OfVehicle(new.vehicle) : a.id \in DOMAIN c
          /\ \A a \in OfDriver(new.driver) : a.id \in DOMAIN c
      BY <1>c, <1>2, <2>1, <3>1 DEF SessionOK, Closing
    <3>3. \A a, b \in Closed(duties, c) : Apart(a, b)
      BY <1>1, <1>6, <3>1, <3>2, ClosedStayApart DEF InTurn
    <3>4. ASSUME NEW x \in Closed(duties, c), x.vehicle = new.vehicle \/ x.driver = new.driver
          PROVE  x.to # NoTime /\ x.to <= new.from
      <4>1. PICK a \in duties : x = ClosedRow(a, c)
        BY DEF Closed, ClosedRow
      <4>2. /\ x.vehicle = a.vehicle /\ x.driver = a.driver
            /\ a.id \notin DOMAIN c => x = a
            /\ a.id \in DOMAIN c => x.status = "Completed"
        BY <1>1, <1>6, <4>1, RowIsClosed DEF RowsOK
      <4>3. a.status = "Active" => a.id \in DOMAIN c
        BY <3>2, <3>4, <4>2 DEF OfVehicle, OfDriver
      <4>4. x.status # "Active"
        BY <4>2, <4>3
      <4>5. x.to # NoTime /\ x.to \in Nat /\ x.to <= clock
        BY <2>3, <4>4
      <4> QED  BY <1>5, <2>1, <4>5
    <3>5. \A x \in Closed(duties, c) : Apart(x, new) /\ Apart(new, x)
      BY <3>4 DEF Apart, Before
    <3>6. Apart(new, new)
      BY DEF Apart
    <3>7. \A a, b \in duties' : Apart(a, b)
      BY <1>10, <3>3, <3>5, <3>6
    <3>8. (\A a, b \in duties : Apart(a, b))'
      BY <3>7 DEF Apart, Before
    <3> QED  BY <1>1, <1>5, <1>7, <3>1, <3>8, NobodyLeft
  <2> QED  BY <1>3, <1>7, <1>8, <2>4, <2>5 DEF DutyIInv
<1> QED  BY <1>4, <1>9, <1>10

-----------------------------------------------------------------------------
(***************************************************************************)
(* Drivers and vehicles change; the assignments of a driver go with him.   *)
(***************************************************************************)
LEMMA StaffKeeps ==
  ASSUME DutyIInv,
         staff' \in [Staff -> {"absent", "ACTIVE", "SUSPENDED", "deleted"}],
         barred' \subseteq Cars,
         duties' \subseteq duties,
         \A a \in duties' : Employed(a.driver)',
         UNCHANGED <<desk, clock, inserts, releases, overlapped>>
  PROVE  DutyIInv'
<1>1. DutyTyped'
  BY DEF DutyIInv, DutyTyped
<1>2. RowsOK'
  <2>1. \A a \in duties : RowOK(a)' <=> RowOK(a)
    BY DEF RowOK
  <2>2. \A a \in duties' : RowOK(a)'
    BY <2>1 DEF DutyIInv, RowsOK
  <2>3. \A a, b \in duties' : a.id = b.id => a = b
    BY DEF DutyIInv, RowsOK
  <2> QED  BY <2>2, <2>3 DEF RowsOK
<1>3. ClosingsOK'
  BY DEF DutyIInv, ClosingsOK, Closing, StampsOK
<1>4. ClockCounted'
  BY DEF DutyIInv, ClockCounted, Waiting
<1>5. ASSUME InTurn PROVE InTurn'
  <2>1. \A v : OfVehicle(v)' \subseteq OfVehicle(v) /\ OfDriver(v)' \subseteq OfDriver(v)
    BY DEF OfVehicle, OfDriver
  <2>2. ASSUME NEW j \in Desks PROVE SessionOK(desk[j])'
    <3> DEFINE s == desk[j]
    <3>1. SessionOK(s) /\ s' = s
      BY <1>5 DEF InTurn
    <3> QED  BY <2>1, <3>1 DEF SessionOK, Closing
  <2>3. (\A a, b \in duties : Apart(a, b))'
    BY <1>5 DEF InTurn, Apart, Before
  <2> QED  BY <1>5, <2>2, <2>3 DEF InTurn
<1> QED  BY <1>1, <1>2, <1>3, <1>4, <1>5 DEF DutyIInv

LEMMA StaffStepsKeep ==
  ASSUME DutyIInv,
         \/ \E d \in Staff : CreateDriver(d) \/ UpdateDriver(d) \/ DeleteDriver(d)
         \/ \E v \in Cars : SetStatus(v)
  PROVE  DutyIInv'
<1>1. DutyTyped /\ \A a \in duties : a.driver \in Staff /\ Employed(a.driver)
  BY DEF DutyIInv, RowsOK, RowOK
<1>2. /\ staff \in [Staff -> {"absent", "ACTIVE", "SUSPENDED", "deleted"}]
      /\ barred \subseteq Cars
  BY <1>1 DEF DutyTyped
<1>3. ASSUME NEW d \in Staff, CreateDriver(d) PROVE DutyIInv'
  <2>1. UNCHANGED <<barred, duties, desk, clock, inserts, releases, overlapped>>
    BY <1>3 DEF CreateDriver
  <2>2. PICK x \in {"ACTIVE", "SUSPENDED"} : staff' = [staff EXCEPT ![d] = x]
    BY <1>3 DEF CreateDriver
  <2>3. staff' \in [Staff -> {"absent", "ACTIVE", "SUSPENDED", "deleted"}]
    BY <1>2, <2>2
  <2>4. \A a \in duties : Employed(a.driver)'
    BY <1>1, <1>2, <2>2 DEF Employed
  <2> QED  BY <1>2, <2>1, <2>3, <2>4, StaffKeeps
<1>4. ASSUME NEW d \in Staff, UpdateDriver(d) PROVE DutyIInv'
  <2>1. UNCHANGED <<barred, duties, desk, clock, inserts, releases, overlapped>>
    BY <1>4 DEF UpdateDriver
  <2>2. PICK x \in {"ACTIVE", "SUSPENDED"} : staff' = [staff EXCEPT ![d] = x]
    BY <1>4 DEF UpdateDriver
  <2>3. staff' \in [Staff -> {"absent", "ACTIVE", "SUSPENDED", "deleted"}]
    BY <1>2, <2>2
  <2>4. \A a \in duties : Employed(a.driver)'
    BY <1>1, <1>2, <2>2 DEF Employed
  <2> QED  BY <1>2, <2>1, <2>3, <2>4, StaffKeeps
<1>5. ASSUME NEW d \in Staff, DeleteDriver(d) PROVE DutyIInv'
  <2>1. /\ UNCHANGED <<barred, desk, clock, inserts, releases, overlapped>>
        /\ staff' = [staff EXCEPT ![d] = "deleted"]
        /\ duties' = {a \in duties : a.driver # d}
    BY <1>5 DEF DeleteDriver
  <2>2. staff' \in [Staff -> {"absent", "ACTIVE", "SUSPENDED", "deleted"}]
    BY <1>2, <2>1
  <2>3. \A a \in duties' : Employed(a.driver)'
    BY <1>1, <1>2, <2>1 DEF Employed
  <2>4. duties' \subseteq duties
    BY <2>1
  <2> QED  BY <1>2, <2>1, <2>2, <2>3, <2>4, StaffKeeps
<1>6. ASSUME NEW v \in Cars, SetStatus(v) PROVE DutyIInv'
  <2>1. UNCHANGED <<staff, duties, desk, clock, inserts, releases, overlapped>>
    BY <1>6 DEF SetStatus
  <2>2. barred' \subseteq Cars
    BY <1>2, <1>6 DEF SetStatus
  <2>3. \A a \in duties : Employed(a.driver)'
    BY <1>1, <2>1 DEF Employed
  <2> QED  BY <1>2, <2>1, <2>2, <2>3, StaffKeeps
<1> QED  BY <1>3, <1>4, <1>5, <1>6

LEMMA DutyStarts ==
  ASSUME DutyInit
  PROVE  DutyIInv
<1> USE DEF DutyInit
<1>1. \A k \in Desks : desk[k] = NoRequest /\ desk[k].at = "idle"
  BY DEF NoRequest
<1>2. DutyTyped
  <2>1. \A k \in Desks : DeskOK(desk[k])
    BY <1>1 DEF DeskOK
  <2>2. DOMAIN desk = Desks /\ desk = [k \in Desks |-> desk[k]]
    OBVIOUS
  <2>3. clock = 0 /\ inserts = 0 /\ releases = 0 /\ overlapped = FALSE /\ barred = {}
    OBVIOUS
  <2>4. staff \in [Staff -> {"absent", "ACTIVE", "SUSPENDED", "deleted"}]
    OBVIOUS
  <2>5. /\ clock \in Nat /\ inserts \in Nat /\ releases \in Nat
        /\ inserts <= MaxDuties /\ releases <= MaxReleases
    <3> HIDE DEF DutyInit
    <3>1. clock = 0 /\ inserts = 0 /\ releases = 0
      BY <2>3
    <3> QED  BY <3>1, DutyConstants
  <2>6. overlapped \in BOOLEAN /\ barred \subseteq Cars
    BY <2>3
  <2> HIDE DEF DutyInit
  <2> QED  BY <2>1, <2>2, <2>4, <2>5, <2>6 DEF DutyTyped
<1>3. RowsOK
  BY DEF RowsOK
<1>4. ClosingsOK
  BY <1>1 DEF ClosingsOK, Closing
<1>5. ClockCounted
  <2>1. /\ Waiting({"driver", "vehicle duties"}) = {}
        /\ Waiting({"driver duties"}) = {} /\ Waiting({"commit"}) = {}
    BY <1>1 DEF Waiting
  <2>2. Cardinality({}) = 0
    BY FS_EmptySet
  <2>3. clock = 0 /\ inserts = 0 /\ releases = 0
    OBVIOUS
  <2>4. clock + 3 * Cardinality({}) + 2 * Cardinality({}) + Cardinality({}) <= 3 * inserts + releases
    BY <2>2, <2>3
  <2> QED  BY <2>1, <2>4 DEF ClockCounted
<1>6. InTurn
  BY <1>1 DEF InTurn, SessionOK, Closing
<1> QED  BY <1>2, <1>3, <1>4, <1>5, <1>6 DEF DutyIInv

-----------------------------------------------------------------------------
\* The inductive invariant of the assignments of drivers (app/crud/driver.py):
\* rows are stamped in order, a session closes rows with stamps that are later
\* than their insertion, and one that is alone has found every active row of
\* its vehicle and of its driver when it commits.
THEOREM DutyInvariant == DutySpec => []DutyIInv
<1>1. DutyInit => DutyIInv
  BY DutyStarts
<1>2. DutyIInv /\ [DutyNext]_dutyVars => DutyIInv'
  <2> SUFFICES ASSUME DutyIInv, [DutyNext]_dutyVars PROVE DutyIInv'
    OBVIOUS
  <2>1. CASE UNCHANGED dutyVars
    BY <2>1, ZenonT(30) DEF dutyVars, DutyIInv, DutyTyped, RowsOK, RowOK, Employed, ClosingsOK, Closing,
         StampsOK, ClockCounted, Waiting, InTurn, SessionOK, OfVehicle, OfDriver, Apart, Before
  <2>2. CASE \/ \E d \in Staff : CreateDriver(d) \/ UpdateDriver(d) \/ DeleteDriver(d)
             \/ \E v \in Cars : SetStatus(v)
    BY <2>2, StaffStepsKeep
  <2>3. ASSUME NEW k \in Desks,
               \/ \E v \in Cars, d \in Staff : CheckVehicle(k, v, d)
               \/ \E v \in Cars : FindDuty(k, v)
               \/ CheckDriver(k) \/ CloseForVehicle(k) \/ CloseForDriver(k)
               \/ CommitDuty(k) \/ ReleaseDuty(k)
        PROVE  DutyIInv'
    BY <2>3, CheckVehicleKeeps, FindDutyKeeps, CheckDriverKeeps, CloseForVehicleKeeps,
       CloseForDriverKeeps, CommitDutyKeeps, ReleaseDutyKeeps
  <2> QED  BY <2>1, <2>2, <2>3 DEF DutyNext
<1> QED  BY <1>1, <1>2, PTL DEF DutySpec

LEMMA DutyTypesFollow == DutyIInv => DutyTypeOK
<1> SUFFICES ASSUME DutyIInv PROVE DutyTypeOK
  OBVIOUS
<1>1. DutyTyped /\ RowsOK /\ ClockCounted
  BY DEF DutyIInv
<1>2. \A S : Cardinality(Waiting(S)) \in Nat
  <2> TAKE S
  <2>1. Waiting(S) \in SUBSET Desks
    BY DEF Waiting
  <2>2. IsFiniteSet(Waiting(S))
    BY <2>1, DutyConstants, FS_Subset
  <2> QED  BY <2>2, FS_CardinalityType
<1>3. clock \in Stamps
  <2>1. clock <= 3 * inserts + releases
    <3> DEFINE A == Cardinality(Waiting({"driver", "vehicle duties"}))
               B == Cardinality(Waiting({"driver duties"}))
               C == Cardinality(Waiting({"commit"}))
    <3>1. A \in Nat /\ B \in Nat /\ C \in Nat
      BY <1>2
    <3>2. clock \in Nat /\ inserts \in Nat /\ releases \in Nat
      BY <1>1 DEF DutyTyped
    <3>3. clock + 3 * A + 2 * B + C <= 3 * inserts + releases
      BY <1>1 DEF ClockCounted
    <3> HIDE DEF A, B, C
    <3> QED  BY <3>1, <3>2, <3>3
  <2> QED  BY <1>1, <2>1, DutyConstants DEF DutyTyped, Stamps
<1>4. \A a \in duties : a \in DutyRow
  <2> SUFFICES ASSUME NEW a \in duties PROVE a \in DutyRow
    OBVIOUS
  <2>1. /\ a \in [id : Nat, vehicle : Cars, driver : Staff, from : Nat,
                  to : Nat \cup {NoTime}, status : {"Active", "Completed"}]
        /\ a.id = a.from /\ a.id <= clock
        /\ a.to # NoTime => a.to <= clock
    BY <1>1 DEF RowsOK, RowOK
  <2>2. \A n \in Nat : n <= clock => n \in Stamps
    BY <1>1, <1>3, DutyConstants DEF Stamps, DutyTyped
  <2>3. a.id \in Stamps /\ a.from \in Stamps /\ a.to \in Stamps \cup {NoTime}
    BY <2>1, <2>2
  <2> QED  BY <2>1, <2>3 DEF DutyRow
<1> QED  BY <1>1, <1>3, <1>4 DEF DutyTypeOK, DutyTyped, RowsOK

\* Drivers, rows and stamps stay in their domains, the clock stays under the
\* bound of the calls, and every assignment refers to a driver who exists.
THEOREM DutyTypes == DutySpec => []DutyTypeOK
BY DutyInvariant, DutyTypesFollow, PTL

\* No vehicle has two drivers and no driver two vehicles at a time, as long as
\* requests are served one after the other (create_assignment and
\* release_assignment of app/crud/driver.py); a closed assignment always ended
\* after it began.
THEOREM DutiesStayDisjoint == DutySpec => []DutiesDisjoint
<1>1. DutyIInv => DutiesDisjoint
  <2> SUFFICES ASSUME DutyIInv PROVE DutiesDisjoint
    OBVIOUS
  <2>1. \A a \in duties : /\ a.status = "Active" <=> a.to = NoTime
                          /\ a.to # NoTime => a.from < a.to
    BY DEF DutyIInv, RowsOK, RowOK
  <2>2. overlapped \/ \A a, b \in duties : Apart(a, b)
    BY DEF DutyIInv, InTurn
  <2>3. overlapped \/ \A a, b \in duties :
          a # b /\ (a.vehicle = b.vehicle \/ a.driver = b.driver) => Before(a, b) \/ Before(b, a)
    BY <2>2 DEF Apart
  <2> QED  BY <2>1, <2>3 DEF DutiesDisjoint
<1> QED  BY <1>1, DutyInvariant, PTL

-----------------------------------------------------------------------------
(***************************************************************************)
(* Routes: the inductive invariant, and its parts.                         *)
(***************************************************************************)
Stored == [route : Routes, active : BOOLEAN, status : {"ACTIVE", "COMPLETED"},
           idx : Nat, pct : 0..100, last : Int, by : Paths \cup {Nothing}]

TwinState ==
  [path : Paths, row : Nat, offset : Nat, forward : BOOLEAN, completed : BOOLEAN,
   idx : Nat,
   motion : {"Parked", "Idle", "Driving", "Stopped in Traffic", "Power Failure", "Recovering"},
   parked : Nat, speed : Nat, target : Nat, power : BOOLEAN, supply : Nat, cut : Nat, held : BOOLEAN, running : BOOLEAN,
   loop : BOOLEAN]

\* On its path, at a speed of its profile; one that loops never completes.
TwinOK(t) ==
  /\ t \in TwinState
  /\ t.offset <= LengthOf(t.path)
  /\ t.speed <= Fastest /\ t.target <= Fastest
  /\ t.completed => ~t.loop

RowsTyped ==
  /\ rows \in Seq(Stored)
  /\ \A i \in DOMAIN rows :
       /\ rows[i].status = "ACTIVE" => rows[i].by = Nothing
       /\ rows[i].status = "COMPLETED" => ~rows[i].active

\* What a session has read of a row: it was active, and a row keeps its route.
SeenOK(i, seen) ==
  /\ i \in DOMAIN rows
  /\ seen \in Stored /\ seen.active /\ seen.status = "ACTIVE" /\ seen.by = Nothing
  /\ seen.route = rows[i].route

PacketOK(p) ==
  /\ p.at \in {"ingest", "commit"}
  /\ p.path \in Paths /\ p.idx \in Nat /\ p.last \in Nat /\ p.idx < p.last /\ p.pct \in 0..100
  /\ p.at = "commit" => SeenOK(p.row, p.seen)

ClerkOK(s) ==
  /\ s.at \in {"free", "mark", "insert", "load", "drive", "status", "progress"}
  /\ s.at = "free" => s = Free
  /\ s.at \in {"mark", "insert", "status"} => s.route \in Routes
  /\ s.at \in {"load", "drive"} => TwinOK(twin)
  /\ s.at = "drive" => s.row \in DOMAIN rows /\ s.idx \in Nat
  /\ s.at = "status" => s.new \in DOMAIN ValidTransitions
  /\ s.at = "progress" =>
       /\ SeenOK(s.row, s.seen)
       /\ s.new \in Stored /\ s.new.active /\ s.new.status = "ACTIVE" /\ s.new.by = Nothing
       /\ s.new.route = s.seen.route

DriveTyped ==
  /\ plans \in [Routes -> {Nothing} \cup DOMAIN ValidTransitions]
  /\ twin # Nothing => TwinOK(twin)
  /\ packet # Nothing => PacketOK(packet)
  /\ DOMAIN clerk = Clerks
  /\ clerk = [k \in Clerks |-> clerk[k]]
  /\ \A k \in Clerks : ClerkOK(clerk[k])
  /\ crossed \in BOOLEAN /\ strayed \in BOOLEAN

\* As long as no two requests overlap, there is one active assignment at most:
\* the one that is made marks all those that it replaces.
OneRoute ==
  /\ \A j, k \in Clerks : clerk[j] # Free /\ clerk[k] # Free => j = k
  /\ \A i, j \in ActiveRows : i = j
  /\ \A k \in Clerks : clerk[k].at = "insert" => clerk[k].marked = DOMAIN rows

\* ... and as long as the twin was not sent elsewhere either, it drives the path
\* of that assignment, and so says what it reports.
Assigning == {"mark", "insert", "load", "drive"}
OnItsRoute ==
  /\ \A i \in DOMAIN rows : rows[i].status = "COMPLETED" => rows[i].by = rows[i].route
  /\ packet # Nothing =>
       /\ \A k \in Clerks : clerk[k].at \notin Assigning
       /\ packet.at = "ingest" => \A i \in ActiveRows : packet.path = rows[i].route
       /\ packet.at = "commit" => packet.path = rows[packet.row].route
  /\ twin # Nothing /\ (\A k \in Clerks : clerk[k].at \notin {"load", "drive"})
       => \A i \in ActiveRows : twin.path = rows[i].route
  /\ \A k \in Clerks : clerk[k].at = "drive" => \A i \in ActiveRows : i = clerk[k].row

DriveIInv ==
  /\ RowsTyped /\ DriveTyped
  /\ crossed \/ OneRoute
  /\ crossed \/ strayed \/ OnItsRoute

-----------------------------------------------------------------------------
(***************************************************************************)
(* A tick of the twin keeps it on its path.                                *)
(***************************************************************************)
LEMMA MarksOnPath ==
  ASSUME NEW p \in Paths
  PROVE  /\ Len(Marks[p]) \in Nat /\ Len(Marks[p]) >= 2
         /\ EndOf(p) \in Nat /\ EndOf(p) >= 1
         /\ LengthOf(p) \in Nat /\ LengthOf(p) > 0
         /\ \A i \in 1..Len(Marks[p]) : Marks[p][i] \in Nat /\ Marks[p][i] <= LengthOf(p)
<1>m. PICK m : m = Marks[p]
  OBVIOUS
<1>1. /\ m \in Seq(Nat) /\ Len(m) >= 2 /\ m[1] = 0
      /\ \A i, j \in 1..Len(m) : i < j => m[i] < m[j]
  BY <1>m, PathsLeadSomewhere
<1>2. Len(m) \in Nat /\ \A i \in 1..Len(m) : m[i] \in Nat
  BY <1>1
<1>3. \A i \in 1..Len(m) : m[i] <= m[Len(m)]
  <2> TAKE i \in 1..Len(m)
  <2>1. CASE i = Len(m)
    BY <1>1, <1>2, <2>1
  <2>2. CASE i < Len(m)
    BY <1>1, <1>2, <2>2
  <2> QED  BY <1>2, <2>1, <2>2
<1>4. m[Len(m)] > 0
  BY <1>1, <1>2
<1> QED  BY <1>m, <1>1, <1>2, <1>3, <1>4 DEF LengthOf, EndOf

LEMMA FastestIsFastest == Fastest \in Nat /\ \A c \in Cruising : c \in Nat /\ c <= Fastest
BY DriveConstants DEF Fastest

LEMMA Percent ==
  ASSUME NEW n \in Nat, n > 0, NEW o \in Nat, o <= n
  PROVE  (100 * o) \div n \in 0..100
<1>1. 100 * o \in Nat /\ 100 * o <= 100 * n
  OBVIOUS
<1> QED  BY <1>1

Motions == {"Parked", "Idle", "Driving", "Stopped in Traffic", "Power Failure", "Recovering"}

LEMMA MoodsOK ==
  ASSUME NEW t, TwinOK(t), NEW u \in Moods(t)
  PROVE  TwinOK(u) /\ u.path = t.path
<1> DEFINE Kept(v) == TwinOK(v) /\ v.path = t.path
<1>1. t \in TwinState /\ t.parked \in Nat /\ t.target \in Nat /\ t.target <= Fastest
  BY DEF TwinOK, TwinState
<1>2. Kept(t)
  OBVIOUS
<1>3. ASSUME NEW m \in Motions PROVE Kept([t EXCEPT !.motion = m])
  BY DEF TwinOK, TwinState, Motions
<1>4. ASSUME NEW m \in Motions, NEW n \in Nat
      PROVE  Kept([t EXCEPT !.motion = m, !.parked = n])
  BY DEF TwinOK, TwinState, Motions
<1>5. ASSUME NEW m \in Motions, NEW c \in Nat, c <= Fastest
      PROVE  Kept([t EXCEPT !.motion = m, !.target = c])
  BY <1>5 DEF TwinOK, TwinState, Motions
<1>6. ASSUME NEW n \in Nat PROVE Kept([t EXCEPT !.parked = n])
  BY DEF TwinOK, TwinState
<1>7. \A c \in Cruising \cup {t.target} : c \in Nat /\ c <= Fastest
  BY <1>1, FastestIsFastest
<1>8. \A n \in ParkTicks : n \in Nat
  BY DriveConstants
<1>9. /\ "Parked" \in Motions /\ "Idle" \in Motions /\ "Driving" \in Motions
      /\ "Stopped in Traffic" \in Motions /\ "Power Failure" \in Motions
      /\ "Recovering" \in Motions
  BY DEF Motions
<1> SUFFICES Kept(u)
  OBVIOUS
<1> HIDE DEF Kept
<1>10. CASE \E m \in Motions : u = [t EXCEPT !.motion = m]
  BY <1>3, <1>10
<1>11. CASE \E m \in Motions, c \in Cruising \cup {t.target} :
              u = [t EXCEPT !.motion = m, !.target = c]
  BY <1>5, <1>7, <1>11
<1>12. CASE \E m \in Motions, n \in ParkTicks : u = [t EXCEPT !.motion = m, !.parked = n]
  BY <1>4, <1>8, <1>12
<1>13. CASE t.parked > 1 /\ u = [t EXCEPT !.parked = t.parked - 1]
  <2>1. t.parked - 1 \in Nat
    BY <1>1, <1>13
  <2> QED  BY <1>6, <1>13, <2>1
<1>14. CASE u = t
  BY <1>2, <1>14
<1>15. CASE ~t.power
  <2>1. u = [t EXCEPT !.motion = "Power Failure"]
    BY <1>15 DEF Moods
  <2> QED  BY <1>9, <1>10, <2>1
<1>16. CASE t.power /\ t.motion = "Power Failure"
  <2>1. u = [t EXCEPT !.motion = "Recovering"]
    BY <1>16 DEF Moods
  <2> QED  BY <1>9, <1>10, <2>1
<1>17. CASE t.power /\ t.motion = "Recovering"
  <2>1. u = [t EXCEPT !.motion = "Parked"]
    BY <1>17 DEF Moods
  <2> QED  BY <1>9, <1>10, <2>1
<1>18. CASE t.power /\ t.motion \notin {"Power Failure", "Recovering"} /\ t.loop
  <2>1. PICK c \in Cruising :
          u = [t EXCEPT !.motion = "Driving",
                        !.target = IF t.motion = "Driving" THEN t.target ELSE c]
    BY <1>18 DEF Moods
  <2>2. \E d \in Cruising \cup {t.target} : u = [t EXCEPT !.motion = "Driving", !.target = d]
    BY <2>1
  <2> QED  BY <1>9, <1>11, <2>2
<1>19. CASE t.power /\ t.motion \notin {"Power Failure", "Recovering"} /\ ~t.loop
  <2>1. \/ t.parked > 1 /\ u = [t EXCEPT !.parked = t.parked - 1]
        \/ \E n \in ParkTicks : u = [t EXCEPT !.motion = "Idle", !.parked = n]
        \/ \E n \in ParkTicks : u = [t EXCEPT !.motion = "Parked", !.parked = n]
        \/ \E c \in Cruising : u = [t EXCEPT !.motion = "Driving", !.target = c]
        \/ u = [t EXCEPT !.motion = "Stopped in Traffic"]
        \/ u = [t EXCEPT !.motion = "Idle"]
        \/ u = [t EXCEPT !.motion = "Driving"]
        \/ u = t
    <3>1. CASE t.motion = "Parked"
      BY <1>19, <3>1 DEF Moods
    <3>2. CASE t.motion = "Idle"
      BY <1>19, <3>2 DEF Moods
    <3>3. CASE t.motion = "Driving"
      BY <1>19, <3>3 DEF Moods
    <3>4. CASE t.motion \notin {"Parked", "Idle", "Driving"}
      BY <1>19, <3>4 DEF Moods
    <3> QED  BY <3>1, <3>2, <3>3, <3>4
  <2> QED  BY <1>9, <1>10, <1>11, <1>12, <1>13, <1>14, <2>1
<1>20. t.power \in BOOLEAN /\ t.loop \in BOOLEAN
  BY <1>1 DEF TwinState
<1> QED  BY <1>15, <1>16, <1>17, <1>18, <1>19, <1>20

LEMMA SuppliesOK ==
  ASSUME NEW t, TwinOK(t), NEW u \in Supplies(t)
  PROVE  TwinOK(u) /\ u.path = t.path
<1> DEFINE Kept(v) == TwinOK(v) /\ v.path = t.path
           left == IF t.supply = 0 THEN 0 ELSE t.supply - 1
<1>1. t \in TwinState /\ t.supply \in Nat /\ t.cut \in Nat
  BY DEF TwinOK, TwinState
<1>2. ASSUME NEW n \in Nat PROVE Kept([t EXCEPT !.supply = n])
  BY DEF TwinOK, TwinState
<1>3. ASSUME NEW n \in Nat, NEW c \in Nat
      PROVE  Kept([t EXCEPT !.supply = n, !.power = FALSE, !.cut = c])
  BY DEF TwinOK, TwinState
<1>4. ASSUME NEW n \in Nat PROVE Kept([t EXCEPT !.cut = n])
  BY DEF TwinOK, TwinState
<1>5. ASSUME NEW n \in Nat PROVE Kept([t EXCEPT !.cut = 0, !.power = TRUE, !.supply = n])
  BY DEF TwinOK, TwinState
<1>6. left \in Nat /\ (t.cut > 1 => t.cut - 1 \in Nat)
  BY <1>1
<1> SUFFICES Kept(u)
  OBVIOUS
<1> HIDE DEF Kept
<1>7. CASE t.motion # "Power Failure"
  <2>1. u \in {[t EXCEPT !.supply = left]}
           \cup {[t EXCEPT !.supply = left, !.power = FALSE, !.cut = n] :
                   n \in IF left = 0 THEN CutTicks ELSE {}}
    BY <1>7, Zenon DEF Supplies
  <2> HIDE DEF left
  <2>2. CASE u = [t EXCEPT !.supply = left]
    BY <1>2, <1>6, <2>2
  <2>3. CASE \E n \in CutTicks : u = [t EXCEPT !.supply = left, !.power = FALSE, !.cut = n]
    BY <1>3, <1>6, <2>3, DriveConstants
  <2> QED  BY <2>1, <2>2, <2>3
<1>8. CASE t.motion = "Power Failure" /\ t.cut > 1
  <2>1. u = [t EXCEPT !.cut = t.cut - 1]
    BY <1>8 DEF Supplies
  <2> QED  BY <1>4, <1>6, <1>8, <2>1
<1>9. CASE t.motion = "Power Failure" /\ ~(t.cut > 1)
  <2>1. PICK n \in SupplyTicks : u = [t EXCEPT !.cut = 0, !.power = TRUE, !.supply = n]
    BY <1>9 DEF Supplies
  <2> QED  BY <1>5, <2>1, DriveConstants
<1> QED  BY <1>7, <1>8, <1>9

LEMMA SpeedsOK ==
  ASSUME NEW t, TwinOK(t), NEW u \in Speeds(t)
  PROVE  TwinOK(u) /\ u.path = t.path
<1> DEFINE Kept(v) == TwinOK(v) /\ v.path = t.path
<1>1. t \in TwinState /\ t.speed \in Nat /\ t.speed <= Fastest /\ t.target \in Nat
      /\ t.target <= Fastest
  BY DEF TwinOK, TwinState
<1>2. ASSUME NEW n \in Nat, n <= Fastest PROVE Kept([t EXCEPT !.speed = n])
  BY <1>2 DEF TwinOK, TwinState
<1>3. ASSUME NEW n \in Nat, n <= Fastest, NEW c \in Nat, c <= Fastest
      PROVE  Kept([t EXCEPT !.target = c, !.speed = n])
  BY <1>3 DEF TwinOK, TwinState
<1>4. \A c \in Aims(t) : c \in Nat /\ c <= Fastest
  <2>1. Aims(t) \subseteq {0} \cup Cruising \cup {t.target}
    BY DEF Aims
  <2> QED  BY <1>1, <2>1, FastestIsFastest
<1>5. \A f, d \in Nat : f <= Fastest => /\ Slower(t.speed, f, d) \in Nat
                                       /\ Slower(t.speed, f, d) <= Fastest
  BY <1>1, FastestIsFastest DEF Slower
<1>6. Brake \in Nat /\ Accel \in Nat /\ 2 * Brake \in Nat /\ Fastest \in Nat
  BY DriveConstants, FastestIsFastest
<1> SUFFICES Kept(u)
  OBVIOUS
<1> HIDE DEF Kept
<1>7. CASE u = [t EXCEPT !.speed = Slower(t.speed, 0, 2 * Brake)]
  <2>1. Slower(t.speed, 0, 2 * Brake) \in Nat /\ Slower(t.speed, 0, 2 * Brake) <= Fastest
    BY <1>5, <1>6
  <2> QED  BY <1>2, <1>7, <2>1
<1>8. ASSUME NEW c \in Aims(t),
             u = [t EXCEPT !.target = c,
                           !.speed = IF t.speed < c
                                     THEN (IF t.speed + Accel < c THEN t.speed + Accel ELSE c)
                                     ELSE Slower(t.speed, c, Brake)]
      PROVE  Kept(u)
  <2> DEFINE n == IF t.speed < c THEN (IF t.speed + Accel < c THEN t.speed + Accel ELSE c)
                  ELSE Slower(t.speed, c, Brake)
  <2>1. c \in Nat /\ c <= Fastest
    BY <1>4
  <2>2. n \in Nat /\ n <= Fastest
    <3>1. Slower(t.speed, c, Brake) \in Nat /\ Slower(t.speed, c, Brake) <= Fastest
      BY <1>5, <1>6, <2>1
    <3> QED  BY <1>1, <1>6, <2>1, <3>1
  <2>3. u = [t EXCEPT !.target = c, !.speed = n]
    BY <1>8
  <2> HIDE DEF n
  <2> QED  BY <1>3, <2>1, <2>2, <2>3
<1>9. \/ u = [t EXCEPT !.speed = Slower(t.speed, 0, 2 * Brake)]
      \/ \E c \in Aims(t) :
           u = [t EXCEPT !.target = c,
                         !.speed = IF t.speed < c
                                   THEN (IF t.speed + Accel < c THEN t.speed + Accel ELSE c)
                                   ELSE Slower(t.speed, c, Brake)]
  BY DEF Speeds
<1> QED  BY <1>7, <1>8, <1>9

LEMMA AdvanceOK ==
  ASSUME NEW t, TwinOK(t)
  PROVE  TwinOK(Advance(t)) /\ Advance(t).path = t.path
<1> DEFINE Kept(v) == TwinOK(v) /\ v.path = t.path
           n == LengthOf(t.path)
<1>1. /\ t \in TwinState /\ t.speed \in Nat /\ t.offset \in Nat /\ t.offset <= n
      /\ t.path \in Paths /\ t.forward \in BOOLEAN /\ t.loop \in BOOLEAN
  BY DEF TwinOK, TwinState
<1>2. n \in Nat
  BY <1>1, MarksOnPath
<1>3. ASSUME NEW o \in Nat, o <= n PROVE Kept([t EXCEPT !.offset = o])
  BY <1>3 DEF TwinOK, TwinState
<1>4. ASSUME NEW o \in Nat, o <= n, ~t.loop
      PROVE  Kept([t EXCEPT !.offset = o, !.completed = TRUE, !.speed = 0])
  <2>v. PICK v : v = [t EXCEPT !.offset = o, !.completed = TRUE, !.speed = 0]
    OBVIOUS
  <2>1. /\ v \in TwinState /\ v.path = t.path /\ v.offset = o /\ v.speed = 0
        /\ v.target = t.target /\ v.loop = t.loop
    BY <1>1, <2>v DEF TwinState
  <2>2. t.target <= Fastest
    BY DEF TwinOK
  <2> QED  BY <1>4, <2>v, <2>1, <2>2, FastestIsFastest DEF TwinOK
<1> DEFINE there == t.offset + (IF t.forward THEN t.speed ELSE -t.speed)
           ended == t.speed > 0 /\ IF t.forward THEN there >= n ELSE there <= 0
           goal == IF t.forward THEN n ELSE 0
<1>5. ~ended => there \in Nat /\ there <= n
  BY <1>1, <1>2
<1>6. goal \in Nat /\ goal <= n /\ n - goal \in Nat /\ n - goal <= n
  BY <1>2
<1>7. Advance(t) = IF ~ended THEN [t EXCEPT !.offset = there]
                   ELSE IF t.loop THEN [t EXCEPT !.offset = n - goal]
                   ELSE [t EXCEPT !.offset = goal, !.completed = TRUE, !.speed = 0]
  BY Zenon DEF Advance
<1> HIDE DEF Kept, n, there, ended, goal
<1>8. Kept(Advance(t))
  BY <1>3, <1>4, <1>5, <1>6, <1>7
<1> QED  BY <1>8 DEF Kept

LEMMA LocateOK ==
  ASSUME NEW t, TwinOK(t)
  PROVE  TwinOK(Locate(t)) /\ Locate(t).path = t.path /\ Locate(t).idx < EndOf(t.path)
<1>1. t \in TwinState /\ t.path \in Paths
  BY DEF TwinOK, TwinState
<1>e. PICK e : e = EndOf(t.path) - 1
  OBVIOUS
<1>2. e \in Nat /\ e < EndOf(t.path)
  BY <1>1, <1>e, MarksOnPath
<1>3. IsFiniteSet(1..e) /\ Cardinality(1..e) = e
  BY <1>2, FS_Interval
<1>b. PICK behind : behind = {i \in 1..EndOf(t.path) - 1 : Marks[t.path][i + 1] < t.offset}
  OBVIOUS
<1>4. behind \in SUBSET (1..e)
  BY <1>b, <1>e
<1>5. IsFiniteSet(behind) /\ Cardinality(behind) <= Cardinality(1..e)
  BY <1>3, <1>4, FS_Subset
<1>6. Cardinality(behind) \in Nat
  BY <1>5, FS_CardinalityType
<1>7. Locate(t) = [t EXCEPT !.idx = Cardinality(behind)]
  BY <1>b, Zenon DEF Locate
<1>8. ASSUME NEW n \in Nat
      PROVE  /\ TwinOK([t EXCEPT !.idx = n]) /\ [t EXCEPT !.idx = n].path = t.path
             /\ [t EXCEPT !.idx = n].idx = n
  BY <1>1 DEF TwinOK, TwinState
<1>9. Cardinality(behind) < EndOf(t.path)
  <2>1. EndOf(t.path) \in Nat
    BY <1>1, MarksOnPath
  <2> QED  BY <1>2, <1>3, <1>5, <1>6, <2>1
<1> QED  BY <1>6, <1>7, <1>8, <1>9

LEMMA TwinStepsOK ==
  ASSUME NEW t, TwinOK(t), NEW u \in TwinSteps(t)
  PROVE  TwinOK(u) /\ u.path = t.path /\ u.idx < EndOf(u.path)
<1>1. PICK c \in UNION {Speeds(b) : b \in UNION {Supplies(a) : a \in Moods(t)}} :
        u = Locate(Advance(c))
  BY DEF TwinSteps
<1>2. PICK b \in UNION {Supplies(a) : a \in Moods(t)} : c \in Speeds(b)
  OBVIOUS
<1>3. PICK a \in Moods(t) : b \in Supplies(a)
  OBVIOUS
<1>4. TwinOK(a) /\ a.path = t.path
  BY MoodsOK
<1>5. TwinOK(b) /\ b.path = t.path
  BY <1>3, <1>4, SuppliesOK
<1>6. TwinOK(c) /\ c.path = t.path
  BY <1>2, <1>5, SpeedsOK
<1>7. TwinOK(Advance(c)) /\ Advance(c).path = t.path
  BY <1>6, AdvanceOK
<1> QED  BY <1>1, <1>7, LocateOK

LEMMA ReportOK ==
  ASSUME NEW t, TwinOK(t), t.idx < EndOf(t.path)
  PROVE  PacketOK(Report(t)) /\ Report(t).at = "ingest" /\ Report(t).path = t.path
<1>1. t \in TwinState /\ t.path \in Paths /\ t.offset <= LengthOf(t.path)
  BY DEF TwinOK, TwinState
<1>2. t.offset \in Nat /\ t.idx \in Nat
  BY <1>1 DEF TwinState
<1>3. EndOf(t.path) \in Nat /\ LengthOf(t.path) \in Nat /\ LengthOf(t.path) > 0
  BY <1>1, MarksOnPath
<1>4. (100 * t.offset) \div LengthOf(t.path) \in 0..100
  BY <1>1, <1>2, <1>3, Percent
<1> QED  BY <1>1, <1>2, <1>3, <1>4 DEF PacketOK, Report

-----------------------------------------------------------------------------
(***************************************************************************)
(* What steps leave alone.                                                 *)
(***************************************************************************)
\* Rows are added and rewritten; none goes, and none gets another route.
RoutesKept ==
  /\ DOMAIN rows \subseteq DOMAIN rows'
  /\ \A i \in DOMAIN rows : rows'[i].route = rows[i].route

LEMMA SeenStays ==
  ASSUME RoutesKept, NEW i, NEW seen, SeenOK(i, seen)
  PROVE  SeenOK(i, seen)'
BY DEF RoutesKept, SeenOK

LEMMA ClerkStays ==
  ASSUME RoutesKept, TwinOK(twin) => TwinOK(twin)', NEW s, ClerkOK(s)
  PROVE  ClerkOK(s)'
<1>1. s.at = "progress" => SeenOK(s.row, s.seen)'
  BY SeenStays DEF ClerkOK
<1>2. s.at = "drive" => s.row \in DOMAIN rows'
  BY DEF RoutesKept, ClerkOK
<1> QED  BY <1>1, <1>2 DEF ClerkOK

LEMMA ClerksMove ==
  ASSUME DriveTyped, RoutesKept, TwinOK(twin) => TwinOK(twin)',
         NEW k \in Clerks, NEW s, clerk' = [clerk EXCEPT ![k] = s], ClerkOK(s)'
  PROVE  /\ DOMAIN clerk' = Clerks /\ clerk' = [j \in Clerks |-> clerk'[j]]
         /\ \A j \in Clerks : clerk'[j] = IF j = k THEN s ELSE clerk[j]
         /\ \A j \in Clerks : ClerkOK(clerk[j])'
<1>1. DOMAIN clerk = Clerks /\ \A j \in Clerks : ClerkOK(clerk[j])
  BY DEF DriveTyped
<1>2. \A j \in Clerks : clerk'[j] = IF j = k THEN s ELSE clerk[j]
  BY <1>1
<1>3. \A j \in Clerks : ClerkOK(clerk[j])'
  <2> TAKE j \in Clerks
  <2>c. PICK c : c = clerk[j]
    OBVIOUS
  <2>1. ClerkOK(c)'
    BY <1>1, <2>c, ClerkStays
  <2>2. CASE j = k
    <3>1. clerk'[j] = s
      BY <1>2, <2>2
    <3> QED  BY <3>1 DEF ClerkOK
  <2>3. CASE j # k
    <3>1. clerk'[j] = c
      BY <1>2, <2>c, <2>3
    <3> QED  BY <2>1, <3>1 DEF ClerkOK
  <2> QED  BY <2>2, <2>3
<1>4. DOMAIN clerk' = Clerks /\ clerk' = [j \in Clerks |-> clerk'[j]]
  BY <1>1
<1> QED  BY <1>2, <1>3, <1>4

LEMMA PacketStays ==
  ASSUME RoutesKept, NEW p, PacketOK(p)
  PROVE  PacketOK(p)'
<1>1. p.at = "commit" => SeenOK(p.row, p.seen)'
  BY SeenStays DEF PacketOK
<1> QED  BY <1>1 DEF PacketOK

LEMMA RowsUnchanged ==
  ASSUME UNCHANGED rows
  PROVE  RoutesKept /\ ActiveRows' = ActiveRows /\ (RowsTyped => RowsTyped')
BY DEF RoutesKept, ActiveRows, RowsTyped

(***************************************************************************)
(* A request goes on, and nothing else does.                               *)
(***************************************************************************)
OnlyOne(k) == \A j \in Clerks : j # k => clerk[j] = Free

\* What the state s that request k takes must know of the twin and its route.
GoesOn(k, s) ==
  /\ packet # Nothing => s.at \notin Assigning
  /\ twin # Nothing /\ clerk[k].at \in {"load", "drive"} /\ s.at \notin {"load", "drive"}
       => \A i \in ActiveRows : twin.path = rows[i].route
  /\ s.at = "drive" => \A i \in ActiveRows : i = s.row

LEMMA RequestGoesOn ==
  ASSUME DriveIInv, NEW k \in Clerks, NEW s, clerk' = [clerk EXCEPT ![k] = s], ClerkOK(s),
         UNCHANGED <<plans, rows, twin, packet>>,
         crossed' \in BOOLEAN, strayed' \in BOOLEAN,
         crossed => crossed', strayed => strayed',
         crossed' \/ (OnlyOne(k) /\ (s.at = "insert" => s.marked = DOMAIN rows)),
         crossed' \/ strayed' \/ (OneRoute /\ OnItsRoute => GoesOn(k, s))
  PROVE  DriveIInv'
<1>1. DriveTyped /\ RowsTyped
  BY DEF DriveIInv
<1>2. RoutesKept /\ ActiveRows' = ActiveRows /\ RowsTyped'
  BY <1>1, RowsUnchanged
<1>3. TwinOK(twin) => TwinOK(twin)'
  BY DEF TwinOK
<1>4. ClerkOK(s)'
  BY <1>2, <1>3, ClerkStays
<1>5. /\ DOMAIN clerk' = Clerks /\ clerk' = [j \in Clerks |-> clerk'[j]]
      /\ \A j \in Clerks : clerk'[j] = IF j = k THEN s ELSE clerk[j]
      /\ \A j \in Clerks : ClerkOK(clerk[j])'
  BY <1>1, <1>2, <1>3, <1>4, ClerksMove
<1>6. DriveTyped'
  <2>1. packet # Nothing => PacketOK(packet)'
    <3>p. PICK p : p = packet
      OBVIOUS
    <3>1. p # Nothing => PacketOK(p)'
      BY <1>1, <1>2, <3>p, PacketStays DEF DriveTyped
    <3>2. packet' = p
      BY <3>p
    <3> QED  BY <3>p, <3>1, <3>2 DEF PacketOK
  <2>2. twin # Nothing => TwinOK(twin)'
    BY <1>1, <1>3 DEF DriveTyped
  <2> QED  BY <1>1, <1>5, <2>1, <2>2 DEF DriveTyped
<1>7. ASSUME ~crossed' PROVE OneRoute'
  <2>1. OneRoute /\ OnlyOne(k) /\ (s.at = "insert" => s.marked = DOMAIN rows)
    BY <1>7 DEF DriveIInv
  <2>2. (\A i, j \in Clerks : clerk[i] # Free /\ clerk[j] # Free => i = j)'
    BY <1>5, <2>1 DEF OnlyOne
  <2>3. \A j \in Clerks : clerk'[j].at = "insert" => clerk'[j].marked = DOMAIN rows
    BY <1>5, <2>1 DEF OneRoute
  <2> QED  BY <1>2, <2>1, <2>2, <2>3 DEF OneRoute
<1>8. ASSUME ~crossed', ~strayed' PROVE OnItsRoute'
  <2>1. OneRoute /\ OnItsRoute /\ OnlyOne(k) /\ GoesOn(k, s)
    BY <1>8 DEF DriveIInv
  <2>2. packet # Nothing => \A j \in Clerks : clerk'[j].at \notin Assigning
    BY <1>5, <2>1 DEF OnItsRoute, GoesOn
  <2>3. ASSUME twin # Nothing, \A j \in Clerks : clerk'[j].at \notin {"load", "drive"}
        PROVE  \A i \in ActiveRows : twin.path = rows[i].route
    <3>1. s.at \notin {"load", "drive"}
      BY <1>5, <2>3
    <3>2. CASE clerk[k].at \in {"load", "drive"}
      BY <2>1, <2>3, <3>1, <3>2 DEF GoesOn
    <3>3. CASE clerk[k].at \notin {"load", "drive"}
      <4>1. \A j \in Clerks : clerk[j].at \notin {"load", "drive"}
        BY <1>5, <2>3, <3>3
      <4> QED  BY <2>1, <2>3, <4>1 DEF OnItsRoute
    <3> QED  BY <3>2, <3>3
  <2>4. \A j \in Clerks : clerk'[j].at = "drive" => \A i \in ActiveRows : i = clerk'[j].row
    BY <1>5, <2>1 DEF OnItsRoute, GoesOn
  <2>5. /\ \A i \in DOMAIN rows : rows[i].status = "COMPLETED" => rows[i].by = rows[i].route
        /\ packet # Nothing =>
             /\ packet.at = "ingest" => \A i \in ActiveRows : packet.path = rows[i].route
             /\ packet.at = "commit" => packet.path = rows[packet.row].route
    BY <2>1 DEF OnItsRoute
  <2> QED  BY <1>2, <2>2, <2>3, <2>4, <2>5 DEF OnItsRoute
<1> QED  BY <1>2, <1>6, <1>7, <1>8 DEF DriveIInv

LEMMA FreeClerk == Free.at = "free" /\ ClerkOK(Free)
BY DEF Free, ClerkOK

\* A request that is let in is alone, or there was another one.
LEMMA Entered ==
  ASSUME DriveIInv, NEW k \in Clerks, NEW s, Enter(k, s)
  PROVE  /\ clerk[k].at = "free" /\ clerk' = [clerk EXCEPT ![k] = s]
         /\ crossed' \in BOOLEAN /\ (crossed => crossed')
         /\ crossed' \/ OnlyOne(k)
<1>1. /\ clerk[k] = Free /\ clerk' = [clerk EXCEPT ![k] = s]
      /\ crossed' = (crossed \/ \E j \in Clerks \ {k} : clerk[j] # Free)
  BY DEF Enter
<1>2. crossed \in BOOLEAN
  BY DEF DriveIInv, DriveTyped
<1> QED  BY <1>1, <1>2, FreeClerk DEF OnlyOne

\* As long as no two requests overlap, one that is under way is alone.
LEMMA Underway ==
  ASSUME DriveIInv, NEW k \in Clerks, clerk[k] # Free
  PROVE  crossed \/ OnlyOne(k)
BY DEF DriveIInv, OneRoute, OnlyOne

LEMMA AssignSelectKeeps ==
  ASSUME DriveIInv, NEW k \in Clerks, NEW r \in Routes, AssignSelect(k, r)
  PROVE  DriveIInv'
<1>s. PICK s : s = [at |-> "mark", route |-> r, seen |-> plans[r]]
  OBVIOUS
<1>1. /\ Enter(k, s)
      /\ strayed' = (strayed \/ packet # Nothing)
      /\ UNCHANGED <<plans, rows, twin, packet>>
  BY <1>s DEF AssignSelect
<1>2. ClerkOK(s) /\ s.at = "mark"
  BY <1>s DEF ClerkOK
<1>3. strayed' \in BOOLEAN /\ (strayed => strayed') /\ (strayed' \/ packet = Nothing)
  BY <1>1 DEF DriveIInv, DriveTyped
<1>4. /\ clerk[k].at = "free" /\ clerk' = [clerk EXCEPT ![k] = s]
      /\ crossed' \in BOOLEAN /\ (crossed => crossed')
      /\ crossed' \/ OnlyOne(k)
  BY <1>1, Entered
<1>5. strayed' \/ GoesOn(k, s)
  BY <1>2, <1>3, <1>4 DEF GoesOn
<1>6. crossed' \/ (OnlyOne(k) /\ (s.at = "insert" => s.marked = DOMAIN rows))
  BY <1>2, <1>4
<1> QED  BY <1>1, <1>2, <1>3, <1>4, <1>5, <1>6, RequestGoesOn

LEMMA PatchStatusKeeps ==
  ASSUME DriveIInv, NEW k \in Clerks, NEW r \in Routes, PatchStatus(k, r)
  PROVE  DriveIInv'
<1>1. PICK status \in ValidTransitions[plans[r]] :
        Enter(k, [at |-> "status", route |-> r, new |-> status])
  BY DEF PatchStatus
<1>s. PICK s : s = [at |-> "status", route |-> r, new |-> status]
  OBVIOUS
<1>2. /\ Enter(k, s) /\ plans[r] # Nothing
      /\ UNCHANGED <<plans, rows, twin, packet, strayed>>
  BY <1>s, <1>1 DEF PatchStatus
<1>3. status \in DOMAIN ValidTransitions
  <2>1. plans[r] \in DOMAIN ValidTransitions
    BY <1>2 DEF DriveIInv, DriveTyped
  <2>p. PICK p : p = plans[r]
    OBVIOUS
  <2>2. /\ DOMAIN ValidTransitions = {"Pending", "Assigned", "Running", "Completed"}
        /\ ValidTransitions["Pending"] = {"Assigned"}
        /\ ValidTransitions["Assigned"] = {"Running", "Pending"}
        /\ ValidTransitions["Running"] = {"Completed", "Assigned"}
        /\ ValidTransitions["Completed"] = {}
    BY DEF ValidTransitions
  <2>3. p \in {"Pending", "Assigned", "Running", "Completed"} /\ status \in ValidTransitions[p]
    BY <2>p, <2>1, <2>2
  <2> QED  BY <2>2, <2>3
<1>4. ClerkOK(s) /\ s.at = "status"
  BY <1>s, <1>3 DEF ClerkOK
<1>5. strayed \in BOOLEAN
  BY DEF DriveIInv, DriveTyped
<1>6. /\ clerk[k].at = "free" /\ clerk' = [clerk EXCEPT ![k] = s]
      /\ crossed' \in BOOLEAN /\ (crossed => crossed')
      /\ crossed' \/ OnlyOne(k)
  BY <1>2, Entered
<1>7. GoesOn(k, s)
  BY <1>4, <1>6 DEF GoesOn, Assigning
<1>8. crossed' \/ (OnlyOne(k) /\ (s.at = "insert" => s.marked = DOMAIN rows))
  BY <1>4, <1>6
<1> QED  BY <1>2, <1>4, <1>5, <1>6, <1>7, <1>8, RequestGoesOn

\* A session that has read an active row has seen what the row is.
LEMMA ActiveIsSeen ==
  ASSUME RowsTyped, NEW i \in ActiveRows
  PROVE  SeenOK(i, rows[i]) /\ rows[i] \in Stored
<1>1. i \in DOMAIN rows /\ rows[i].active
  BY DEF ActiveRows
<1>2. rows[i] \in Stored
  BY <1>1 DEF RowsTyped
<1>3. rows[i].status \in {"ACTIVE", "COMPLETED"}
  BY <1>2 DEF Stored
<1>4. rows[i].status = "ACTIVE" /\ rows[i].by = Nothing
  BY <1>1, <1>3 DEF RowsTyped
<1> QED  BY <1>1, <1>2, <1>4 DEF SeenOK

LEMMA PatchProgressKeeps ==
  ASSUME DriveIInv, NEW k \in Clerks, PatchProgress(k)
  PROVE  DriveIInv'
<1>1. PICK i \in ActiveRows, p \in Progresses :
        Enter(k, [at |-> "progress", row |-> i, seen |-> rows[i],
                  new |-> [rows[i] EXCEPT !.idx = p.idx, !.pct = p.pct, !.last = p.last]])
  BY DEF PatchProgress
<1>o. PICK old : old = rows[i]
  OBVIOUS
<1>n. PICK new : new = [old EXCEPT !.idx = p.idx, !.pct = p.pct, !.last = p.last]
  OBVIOUS
<1>s. PICK s : s = [at |-> "progress", row |-> i, seen |-> old, new |-> new]
  OBVIOUS
<1>2. Enter(k, s)
  BY <1>s, <1>o, <1>n, <1>1
<1>3. UNCHANGED <<plans, rows, twin, packet, strayed>>
  BY DEF PatchProgress
<1>4. SeenOK(i, old) /\ old \in Stored
  BY <1>o, ActiveIsSeen DEF DriveIInv
<1>5. p.idx \in Nat /\ p.pct \in 0..100 /\ p.last \in Int
  BY DriveConstants
<1>6. /\ new \in Stored /\ new.active = old.active /\ new.status = old.status
      /\ new.by = old.by /\ new.route = old.route
  BY <1>n, <1>4, <1>5 DEF Stored
<1>7. ClerkOK(s) /\ s.at = "progress"
  <2>1. /\ s.at = "progress" /\ s.row = i /\ s.seen = old /\ s.new = new
    BY <1>s
  <2>2. old.active /\ old.status = "ACTIVE" /\ old.by = Nothing
    BY <1>4 DEF SeenOK
  <2> QED  BY <1>4, <1>6, <2>1, <2>2 DEF ClerkOK
<1>8. strayed \in BOOLEAN
  BY DEF DriveIInv, DriveTyped
<1>9. /\ clerk[k].at = "free" /\ clerk' = [clerk EXCEPT ![k] = s]
      /\ crossed' \in BOOLEAN /\ (crossed => crossed')
      /\ crossed' \/ OnlyOne(k)
  BY <1>2, Entered
<1>10. GoesOn(k, s)
  BY <1>7, <1>9 DEF GoesOn, Assigning
<1>11. crossed' \/ (OnlyOne(k) /\ (s.at = "insert" => s.marked = DOMAIN rows))
  BY <1>7, <1>9
<1> QED  BY <1>3, <1>7, <1>8, <1>9, <1>10, <1>11, RequestGoesOn

LEMMA AssignMarkKeeps ==
  ASSUME DriveIInv, NEW k \in Clerks, AssignMark(k)
  PROVE  DriveIInv'
<1>s. PICK s : s = [at |-> "insert", route |-> clerk[k].route, seen |-> clerk[k].seen,
                    marked |-> DOMAIN rows]
  OBVIOUS
<1>1. clerk[k].at = "mark" /\ clerk' = [clerk EXCEPT ![k] = s]
  BY <1>s DEF AssignMark
<1>2. UNCHANGED <<plans, rows, twin, packet, crossed, strayed>>
  BY DEF AssignMark
<1>3. ClerkOK(clerk[k]) /\ crossed \in BOOLEAN /\ strayed \in BOOLEAN
  BY DEF DriveIInv, DriveTyped
<1>4. clerk[k].route \in Routes
  BY <1>1, <1>3 DEF ClerkOK
<1>5. ClerkOK(s) /\ s.at = "insert" /\ s.marked = DOMAIN rows
  BY <1>s, <1>4 DEF ClerkOK
<1>6. crossed \/ OnlyOne(k)
  BY <1>1, FreeClerk, Underway
<1>7. OnItsRoute => GoesOn(k, s)
  BY <1>1, <1>5 DEF OnItsRoute, GoesOn, Assigning
<1>8. (crossed => crossed') /\ (strayed => strayed')
  BY <1>2
<1>9. crossed' \/ (OnlyOne(k) /\ (s.at = "insert" => s.marked = DOMAIN rows))
  BY <1>2, <1>5, <1>6
<1> QED  BY <1>1, <1>2, <1>3, <1>5, <1>7, <1>8, <1>9, RequestGoesOn

LEMMA LoadSelectKeeps ==
  ASSUME DriveIInv, NEW k \in Clerks, LoadSelect(k)
  PROVE  DriveIInv'
<1>1. clerk[k].at = "load" /\ UNCHANGED <<plans, rows, twin, packet, crossed, strayed>>
  BY DEF LoadSelect
<1>2. ClerkOK(clerk[k]) /\ crossed \in BOOLEAN /\ strayed \in BOOLEAN /\ RowsTyped
  BY DEF DriveIInv, DriveTyped
<1>3. TwinOK(twin)
  BY <1>1, <1>2 DEF ClerkOK
<1>4. crossed \/ OnlyOne(k)
  BY <1>1, FreeClerk, Underway
<1>5. PICK s : /\ clerk' = [clerk EXCEPT ![k] = s]
               /\ \/ s = Free /\ ActiveRows = {}
                  \/ \E i \in ActiveRows : s = [at |-> "drive", row |-> i, idx |-> rows[i].idx]
  BY DEF LoadSelect, Served
<1>6. CASE s = Free /\ ActiveRows = {}
  <2>1. ClerkOK(s) /\ s.at = "free"
    BY <1>6, FreeClerk
  <2>2. GoesOn(k, s)
    BY <1>6, <2>1 DEF GoesOn, Assigning
  <2>3. crossed' \/ (OnlyOne(k) /\ (s.at = "insert" => s.marked = DOMAIN rows))
    BY <1>1, <1>4, <2>1
  <2>4. (crossed => crossed') /\ (strayed => strayed')
    BY <1>1
  <2> QED  BY <1>1, <1>2, <1>5, <2>1, <2>2, <2>3, <2>4, RequestGoesOn
<1>7. ASSUME NEW i \in ActiveRows, s = [at |-> "drive", row |-> i, idx |-> rows[i].idx]
      PROVE  DriveIInv'
  <2>1. i \in DOMAIN rows /\ rows[i].idx \in Nat
    BY <1>2, ActiveIsSeen DEF Stored, ActiveRows
  <2>2. ClerkOK(s) /\ s.at = "drive" /\ s.row = i
    BY <1>3, <1>7, <2>1 DEF ClerkOK
  <2>3. OneRoute /\ OnItsRoute => GoesOn(k, s)
    BY <1>1, <2>2 DEF OneRoute, OnItsRoute, GoesOn, Assigning
  <2>4. crossed' \/ (OnlyOne(k) /\ (s.at = "insert" => s.marked = DOMAIN rows))
    BY <1>1, <1>4, <2>2
  <2>5. (crossed => crossed') /\ (strayed => strayed')
    BY <1>1
  <2> QED  BY <1>1, <1>2, <1>5, <2>2, <2>3, <2>4, <2>5, RequestGoesOn
<1> QED  BY <1>5, <1>6, <1>7

LEMMA LoadFailsKeeps ==
  ASSUME DriveIInv, NEW k \in Clerks, LoadFails(k)
  PROVE  DriveIInv'
<1>1. /\ clerk[k].at \in {"load", "drive"} /\ clerk' = [clerk EXCEPT ![k] = Free]
      /\ UNCHANGED <<plans, rows, twin, packet, crossed>> /\ strayed' = TRUE
  BY DEF LoadFails, Served
<1>2. crossed \in BOOLEAN
  BY DEF DriveIInv, DriveTyped
<1>3. crossed \/ OnlyOne(k)
  BY <1>1, FreeClerk, Underway
<1>4. crossed' \/ (OnlyOne(k) /\ (Free.at = "insert" => Free.marked = DOMAIN rows))
  BY <1>1, <1>3, FreeClerk
<1>5. (crossed => crossed') /\ (strayed => strayed') /\ strayed' \in BOOLEAN /\ crossed' \in BOOLEAN
  BY <1>1, <1>2
<1>6. crossed' \/ strayed' \/ (OneRoute /\ OnItsRoute => GoesOn(k, Free))
  BY <1>1
<1> QED  BY <1>1, <1>4, <1>5, <1>6, FreeClerk, RequestGoesOn

(***************************************************************************)
(* The twin goes on, with or without a packet.                             *)
(***************************************************************************)
LEMMA TwinGoesOn ==
  ASSUME DriveIInv, UNCHANGED <<plans, rows, clerk, crossed>>,
         strayed' \in BOOLEAN, strayed => strayed',
         TwinOK(twin)',
         \/ packet' = Nothing
         \/ packet' = packet
         \/ /\ PacketOK(packet') /\ packet'.at = "ingest"
            /\ twin # Nothing /\ packet'.path = twin.path
            /\ strayed' \/ \A k \in Clerks : clerk[k].at \notin Assigning,
         \/ strayed'
         \/ ActiveRows = {}
         \/ twin # Nothing /\ twin'.path = twin.path
  PROVE  DriveIInv'
<1>1. DriveTyped /\ RowsTyped
  BY DEF DriveIInv
<1>2. RoutesKept /\ ActiveRows' = ActiveRows /\ RowsTyped'
  BY <1>1, RowsUnchanged
<1>3. \A k \in Clerks : ClerkOK(clerk[k])'
  <2> TAKE k \in Clerks
  <2>c. PICK c : c = clerk[k]
    OBVIOUS
  <2>1. ClerkOK(c)'
    BY <1>1, <1>2, <2>c, ClerkStays DEF DriveTyped
  <2>2. clerk'[k] = c
    BY <2>c
  <2> QED  BY <2>1, <2>2 DEF ClerkOK
<1>4. packet' # Nothing => PacketOK(packet)'
  <2>p. PICK p : p = packet'
    OBVIOUS
  <2>1. p # Nothing => PacketOK(p)
    BY <1>1, <2>p DEF DriveTyped
  <2>2. p # Nothing => PacketOK(p)'
    BY <1>2, <2>1, PacketStays
  <2> QED  BY <2>p, <2>2 DEF PacketOK
<1>5. DriveTyped'
  BY <1>1, <1>3, <1>4 DEF DriveTyped
<1>6. OneRoute => OneRoute'
  BY <1>2 DEF OneRoute
<1>7. ASSUME OneRoute, OnItsRoute, ~strayed' PROVE OnItsRoute'
  <2>1. \A i \in DOMAIN rows : rows[i].status = "COMPLETED" => rows[i].by = rows[i].route
    BY <1>7 DEF OnItsRoute
  <2>2. ASSUME packet' # Nothing
        PROVE  /\ \A k \in Clerks : clerk[k].at \notin Assigning
               /\ packet'.at = "ingest" => \A i \in ActiveRows : packet'.path = rows[i].route
               /\ packet'.at = "commit" => packet'.path = rows[packet'.row].route
    <3>1. CASE packet' = packet
      BY <1>7, <2>2, <3>1 DEF OnItsRoute
    <3>2. CASE packet' # packet
      <4>1. /\ packet'.at = "ingest" /\ twin # Nothing /\ packet'.path = twin.path
            /\ \A k \in Clerks : clerk[k].at \notin Assigning
        BY <1>7, <2>2, <3>2
      <4>2. \A k \in Clerks : clerk[k].at \notin {"load", "drive"}
        BY <4>1 DEF Assigning
      <4>3. \A i \in ActiveRows : twin.path = rows[i].route
        BY <1>7, <4>1, <4>2 DEF OnItsRoute
      <4> QED  BY <4>1, <4>3
    <3> QED  BY <3>1, <3>2
  <2>3. ASSUME \A k \in Clerks : clerk[k].at \notin {"load", "drive"}
        PROVE  \A i \in ActiveRows : twin'.path = rows[i].route
    BY <1>7, <2>3 DEF OnItsRoute
  <2>4. \A k \in Clerks : clerk[k].at = "drive" => \A i \in ActiveRows : i = clerk[k].row
    BY <1>7 DEF OnItsRoute
  <2> QED  BY <1>2, <2>1, <2>2, <2>3, <2>4 DEF OnItsRoute
<1> QED  BY <1>2, <1>5, <1>6, <1>7 DEF DriveIInv

LEMMA TwinIsOK ==
  ASSUME DriveIInv, twin # Nothing
  PROVE  TwinOK(twin) /\ twin \in TwinState
BY DEF DriveIInv, DriveTyped, TwinOK

LEMMA TickKeeps ==
  ASSUME DriveIInv, Tick
  PROVE  DriveIInv'
<1>1. PICK t \in TwinSteps(twin) : twin' = t /\ packet' = Report(t)
  BY DEF Tick
<1>2. /\ twin # Nothing /\ UNCHANGED <<plans, rows, clerk, crossed>>
      /\ strayed' = (strayed \/ \E k \in Clerks : clerk[k].at \in {"mark", "insert", "load", "drive"})
  BY DEF Tick
<1>3. TwinOK(t) /\ t.path = twin.path /\ t.idx < EndOf(t.path)
  BY <1>2, TwinIsOK, TwinStepsOK
<1>4. PacketOK(Report(t)) /\ Report(t).at = "ingest" /\ Report(t).path = t.path
  BY <1>3, ReportOK
<1>5. strayed \in BOOLEAN
  BY DEF DriveIInv, DriveTyped
<1>6. strayed' \in BOOLEAN /\ (strayed => strayed')
  BY <1>2, <1>5
<1>7. strayed' \/ \A k \in Clerks : clerk[k].at \notin Assigning
  BY <1>2 DEF Assigning
<1>8. TwinOK(twin)'
  BY <1>1, <1>3 DEF TwinOK
<1>9. PacketOK(packet') /\ packet'.at = "ingest" /\ packet'.path = twin.path
  BY <1>1, <1>3, <1>4
<1>10. twin'.path = twin.path
  BY <1>1, <1>3
<1> QED  BY <1>2, <1>6, <1>7, <1>8, <1>9, <1>10, TwinGoesOn

\* The commands, a stop and a start leave the twin where it is.
LEMMA CommandsKeep ==
  ASSUME DriveIInv, Immobilize \/ Restore \/ StopLoop \/ StartLoop
  PROVE  DriveIInv'
<1>1. twin # Nothing /\ UNCHANGED <<plans, rows, clerk, crossed, strayed>>
  BY DEF Immobilize, Restore, StopLoop, StartLoop, Switch
<1>2. packet' = Nothing \/ packet' = packet
  BY DEF Immobilize, Restore, StopLoop, StartLoop
<1>t. PICK t : t = twin
  OBVIOUS
<1>3. TwinOK(t) /\ t \in TwinState
  BY <1>1, <1>t, TwinIsOK
<1>4. \/ twin' = [t EXCEPT !.held = TRUE, !.speed = 0]
      \/ twin' = [t EXCEPT !.held = FALSE]
      \/ twin' = [t EXCEPT !.running = FALSE]
      \/ twin' = [t EXCEPT !.running = TRUE]
  BY <1>t DEF Immobilize, Restore, StopLoop, StartLoop
<1>5. ASSUME NEW u,
             \/ u = [t EXCEPT !.held = TRUE, !.speed = 0]
             \/ u = [t EXCEPT !.held = FALSE]
             \/ u = [t EXCEPT !.running = FALSE]
             \/ u = [t EXCEPT !.running = TRUE]
      PROVE  TwinOK(u) /\ u.path = t.path
  <2>1. CASE u = [t EXCEPT !.held = TRUE, !.speed = 0]
    <3>1. /\ u \in TwinState /\ u.path = t.path /\ u.offset = t.offset /\ u.speed = 0
          /\ u.target = t.target /\ u.completed = t.completed /\ u.loop = t.loop
      BY <1>3, <2>1 DEF TwinState
    <3> QED  BY <1>3, <3>1, FastestIsFastest DEF TwinOK
  <2>2. CASE u = [t EXCEPT !.held = FALSE]
    BY <1>3, <2>2 DEF TwinOK, TwinState
  <2>3. CASE u = [t EXCEPT !.running = FALSE]
    BY <1>3, <2>3 DEF TwinOK, TwinState
  <2>4. CASE u = [t EXCEPT !.running = TRUE]
    BY <1>3, <2>4 DEF TwinOK, TwinState
  <2> QED  BY <1>5, <2>1, <2>2, <2>3, <2>4
<1>u. PICK u : u = twin'
  OBVIOUS
<1>6. TwinOK(u) /\ u.path = t.path
  BY <1>4, <1>5, <1>u
<1>7. TwinOK(twin)' /\ twin'.path = twin.path
  BY <1>t, <1>u, <1>6 DEF TwinOK
<1>8. strayed' \in BOOLEAN /\ (strayed => strayed')
  BY <1>1 DEF DriveIInv, DriveTyped
<1> QED  BY <1>1, <1>2, <1>7, <1>8, TwinGoesOn

LEMMA BootKeeps ==
  ASSUME DriveIInv, Boot
  PROVE  DriveIInv'
<1>1. PICK o \in Offsets(OwnPath), f \in BOOLEAN, n \in ParkTicks, m \in SupplyTicks,
           l \in LoopRoute :
        twin' = [path |-> OwnPath, row |-> 0, offset |-> o, forward |-> f,
                 completed |-> FALSE, idx |-> 0, motion |-> "Parked", parked |-> n,
                 speed |-> 0, target |-> 0, power |-> TRUE, supply |-> m, cut |-> 0,
                 held |-> FALSE, running |-> TRUE, loop |-> l]
  BY DEF Boot
<1>t. PICK t : t = [path |-> OwnPath, row |-> 0, offset |-> o, forward |-> f,
                    completed |-> FALSE, idx |-> 0, motion |-> "Parked", parked |-> n,
                    speed |-> 0, target |-> 0, power |-> TRUE, supply |-> m, cut |-> 0,
                    held |-> FALSE, running |-> TRUE, loop |-> l]
  OBVIOUS
<1>2. /\ UNCHANGED <<plans, rows, packet, clerk, crossed>>
      /\ strayed' = (strayed \/ ActiveRows # {})
  BY DEF Boot
<1>3. OwnPath \in Paths /\ LengthOf(OwnPath) \in Nat
  BY MarksOnPath DEF Paths
<1>4. o \in Nat /\ o <= LengthOf(OwnPath)
  BY <1>3 DEF Offsets
<1>5. n \in Nat /\ m \in Nat /\ l \in BOOLEAN
  BY DriveConstants
<1>6. TwinOK(t)
  BY <1>t, <1>3, <1>4, <1>5, FastestIsFastest DEF TwinOK, TwinState
<1>7. TwinOK(twin)'
  BY <1>1, <1>t, <1>6 DEF TwinOK
<1>8. /\ strayed' \in BOOLEAN /\ (strayed => strayed')
      /\ strayed' \/ ActiveRows = {}
  BY <1>2 DEF DriveIInv, DriveTyped
<1> QED  BY <1>2, <1>7, <1>8, TwinGoesOn

LEMMA DivertKeeps ==
  ASSUME DriveIInv, Divert
  PROVE  DriveIInv'
<1>t. PICK t : t = [twin EXCEPT !.path = CustomPath, !.row = 0, !.offset = 0,
                                !.forward = TRUE, !.completed = FALSE]
  OBVIOUS
<1>1. twin # Nothing /\ twin' = t
  BY <1>t DEF Divert
<1>2. /\ UNCHANGED <<plans, rows, packet, clerk, crossed>>
      /\ strayed' = (strayed \/ ActiveRows # {})
  BY DEF Divert, Switch
<1>3. CustomPath \in Paths /\ LengthOf(CustomPath) \in Nat
  BY MarksOnPath DEF Paths
<1>4. TwinOK(twin) /\ twin \in TwinState
  BY <1>1, TwinIsOK
<1>5. /\ t \in TwinState /\ t.path = CustomPath /\ t.offset = 0 /\ ~t.completed
      /\ t.speed = twin.speed /\ t.target = twin.target
  BY <1>t, <1>3, <1>4 DEF TwinState
<1>6. twin.speed <= Fastest /\ twin.target <= Fastest
  BY <1>4 DEF TwinOK
<1>7. TwinOK(t)
  BY <1>3, <1>5, <1>6 DEF TwinOK
<1>8. TwinOK(twin)'
  BY <1>1, <1>7 DEF TwinOK
<1>9. /\ strayed' \in BOOLEAN /\ (strayed => strayed')
      /\ strayed' \/ ActiveRows = {}
  BY <1>2 DEF DriveIInv, DriveTyped
<1> QED  BY <1>2, <1>8, <1>9, TwinGoesOn

(***************************************************************************)
(* The packet, the process and the routes: nothing is written to a row.    *)
(***************************************************************************)
LEMMA JobSelectKeeps ==
  ASSUME DriveIInv, JobSelect
  PROVE  DriveIInv'
<1>1. /\ packet # Nothing /\ packet.at = "ingest"
      /\ UNCHANGED <<plans, rows, twin, clerk, crossed, strayed>>
  BY DEF JobSelect
<1>2. DriveTyped /\ RowsTyped /\ PacketOK(packet)
  BY <1>1 DEF DriveIInv, DriveTyped
<1>3. RoutesKept /\ ActiveRows' = ActiveRows /\ RowsTyped'
  BY <1>1, <1>2, RowsUnchanged
<1>4. PICK p : /\ packet' = p
               /\ \/ p = Nothing
                  \/ \E i \in ActiveRows :
                       p = [at |-> "commit", row |-> i, seen |-> rows[i], path |-> packet.path,
                            idx |-> packet.idx, pct |-> packet.pct, last |-> packet.last]
  BY DEF JobSelect
<1>5. \/ p = Nothing
      \/ PacketOK(p) /\ p.at = "commit" /\ p.row \in ActiveRows /\ p.path = packet.path
  <2>1. ASSUME NEW i \in ActiveRows,
               p = [at |-> "commit", row |-> i, seen |-> rows[i], path |-> packet.path,
                    idx |-> packet.idx, pct |-> packet.pct, last |-> packet.last]
        PROVE  PacketOK(p) /\ p.at = "commit" /\ p.row \in ActiveRows /\ p.path = packet.path
    <3>1. SeenOK(i, rows[i])
      BY <1>2, ActiveIsSeen
    <3>2. /\ p.at = "commit" /\ p.row = i /\ p.seen = rows[i] /\ p.path = packet.path
          /\ p.idx = packet.idx /\ p.pct = packet.pct /\ p.last = packet.last
      BY <2>1
    <3> QED  BY <1>2, <3>1, <3>2 DEF PacketOK
  <2> QED  BY <1>4, <2>1
<1>6. \A k \in Clerks : ClerkOK(clerk[k])'
  <2> TAKE k \in Clerks
  <2>c. PICK c : c = clerk[k]
    OBVIOUS
  <2>1. ClerkOK(c)'
    BY <1>1, <1>2, <1>3, <2>c, ClerkStays DEF DriveTyped, TwinOK
  <2>2. clerk'[k] = c
    BY <1>1, <2>c
  <2> QED  BY <2>1, <2>2 DEF ClerkOK
<1>7. packet' # Nothing => PacketOK(packet)'
  <2>1. p # Nothing => PacketOK(p)'
    BY <1>3, <1>5, PacketStays
  <2> QED  BY <1>4, <2>1 DEF PacketOK
<1>8. DriveTyped'
  BY <1>1, <1>2, <1>6, <1>7 DEF DriveTyped, TwinOK
<1>9. OneRoute => OneRoute'
  BY <1>1, <1>3 DEF OneRoute
<1>10. ASSUME OnItsRoute PROVE OnItsRoute'
  <2>1. p # Nothing =>
          /\ \A k \in Clerks : clerk[k].at \notin Assigning
          /\ p.at = "ingest" => \A i \in ActiveRows : p.path = rows[i].route
          /\ p.at = "commit" => p.path = rows[p.row].route
    BY <1>1, <1>5, <1>10 DEF OnItsRoute
  <2> QED  BY <1>1, <1>3, <1>4, <1>10, <2>1 DEF OnItsRoute
<1> QED  BY <1>1, <1>3, <1>8, <1>9, <1>10 DEF DriveIInv

LEMMA PacketLostKeeps ==
  ASSUME DriveIInv, PacketLost
  PROVE  DriveIInv'
<1>1. packet' = Nothing /\ UNCHANGED <<plans, rows, twin, clerk, crossed, strayed>>
  BY DEF PacketLost
<1>2. DriveTyped /\ RowsTyped
  BY DEF DriveIInv
<1>3. RoutesKept /\ ActiveRows' = ActiveRows /\ RowsTyped'
  BY <1>1, <1>2, RowsUnchanged
<1>4. \A k \in Clerks : ClerkOK(clerk[k])'
  <2> TAKE k \in Clerks
  <2>c. PICK c : c = clerk[k]
    OBVIOUS
  <2>1. ClerkOK(c)'
    BY <1>1, <1>2, <1>3, <2>c, ClerkStays DEF DriveTyped, TwinOK
  <2>2. clerk'[k] = c
    BY <1>1, <2>c
  <2> QED  BY <2>1, <2>2 DEF ClerkOK
<1>5. DriveTyped'
  BY <1>1, <1>2, <1>4 DEF DriveTyped, TwinOK
<1>6. OneRoute => OneRoute'
  BY <1>1, <1>3 DEF OneRoute
<1>7. OnItsRoute => OnItsRoute'
  BY <1>1, <1>3 DEF OnItsRoute
<1> QED  BY <1>1, <1>3, <1>5, <1>6, <1>7 DEF DriveIInv

LEMMA EndProcessKeeps ==
  ASSUME DriveIInv, EndProcess
  PROVE  DriveIInv'
<1>1. /\ twin' = Nothing /\ packet' = Nothing /\ clerk' = [k \in Clerks |-> Free]
      /\ UNCHANGED <<plans, rows, crossed, strayed>>
  BY DEF EndProcess, Switch
<1>2. DriveTyped /\ RowsTyped
  BY DEF DriveIInv
<1>3. RoutesKept /\ ActiveRows' = ActiveRows /\ RowsTyped'
  BY <1>1, <1>2, RowsUnchanged
<1>4. \A k \in Clerks : clerk'[k] = Free /\ clerk'[k].at = "free"
  BY <1>1, FreeClerk
<1>5. \A k \in Clerks : ClerkOK(clerk[k])'
  BY <1>4 DEF ClerkOK
<1>6. DriveTyped'
  BY <1>1, <1>2, <1>5 DEF DriveTyped
<1>7. OneRoute => OneRoute'
  BY <1>3, <1>4 DEF OneRoute
<1>8. OnItsRoute => OnItsRoute'
  BY <1>1, <1>3, <1>4 DEF OnItsRoute
<1> QED  BY <1>1, <1>3, <1>6, <1>7, <1>8 DEF DriveIInv

LEMMA PlansMove ==
  ASSUME DriveIInv, UNCHANGED <<rows, twin, packet, clerk, crossed, strayed>>,
         plans' \in [Routes -> {Nothing} \cup DOMAIN ValidTransitions]
  PROVE  DriveIInv'
<1>1. RowsTyped' /\ ActiveRows' = ActiveRows
  BY DEF DriveIInv, RowsTyped, ActiveRows
<1>2. DriveTyped'
  <2>1. \A k \in Clerks : ClerkOK(clerk[k])'
    BY DEF DriveIInv, DriveTyped, ClerkOK, SeenOK, TwinOK
  <2> QED  BY <2>1 DEF DriveIInv, DriveTyped, PacketOK, SeenOK, TwinOK
<1>3. (OneRoute => OneRoute') /\ (OnItsRoute => OnItsRoute')
  BY <1>1 DEF OneRoute, OnItsRoute
<1> QED  BY <1>1, <1>2, <1>3 DEF DriveIInv

LEMMA CreateRouteKeeps ==
  ASSUME DriveIInv, NEW r \in Routes, CreateRoute(r)
  PROVE  DriveIInv'
<1>1. "Pending" \in DOMAIN ValidTransitions
  BY DEF ValidTransitions
<1>2. plans' \in [Routes -> {Nothing} \cup DOMAIN ValidTransitions]
  BY <1>1 DEF CreateRoute, DriveIInv, DriveTyped
<1> QED  BY <1>2, PlansMove DEF CreateRoute

(***************************************************************************)
(* Steps that write a row.  A session writes the columns it changed, and   *)
(* none of those makes an assignment active again or gives it another      *)
(* route.                                                                  *)
(***************************************************************************)
LEMMA Columns ==
  ASSUME NEW stored \in Stored, NEW seen \in Stored, NEW new \in Stored
  PROVE  LET w == Write(stored, seen, new)
         IN  /\ w \in Stored
             /\ w.route = IF new.route = seen.route THEN stored.route ELSE new.route
             /\ w.active = IF new.active = seen.active THEN stored.active ELSE new.active
             /\ w.status = IF new.status = seen.status THEN stored.status ELSE new.status
             /\ w.by = IF new.by = seen.by THEN stored.by ELSE new.by
BY ZenonT(30) DEF Write, Stored

LEMMA RowRewritten ==
  ASSUME RowsTyped, NEW i \in DOMAIN rows, NEW new \in Stored,
         rows' = [rows EXCEPT ![i] = new],
         new.route = rows[i].route,
         new.status = "ACTIVE" => new.by = Nothing,
         new.status = "COMPLETED" => ~new.active,
         new.active => rows[i].active
  PROVE  /\ RowsTyped' /\ RoutesKept /\ DOMAIN rows' = DOMAIN rows
         /\ ActiveRows' \subseteq ActiveRows
         /\ \A j \in DOMAIN rows : rows'[j] = IF j = i THEN new ELSE rows[j]
<1>r. rows \in Seq(Stored)
  BY DEF RowsTyped
<1>1. rows' \in Seq(Stored) /\ DOMAIN rows' = DOMAIN rows
  BY <1>r
<1>2. \A j \in DOMAIN rows : rows'[j] = IF j = i THEN new ELSE rows[j]
  BY <1>r
<1>3. RowsTyped'
  <2>1. ASSUME NEW j \in DOMAIN rows
        PROVE  /\ rows'[j].status = "ACTIVE" => rows'[j].by = Nothing
               /\ rows'[j].status = "COMPLETED" => ~rows'[j].active
    BY <1>2 DEF RowsTyped
  <2> QED  BY <1>1, <2>1 DEF RowsTyped
<1>4. RoutesKept
  BY <1>1, <1>2 DEF RoutesKept
<1>5. ActiveRows' \subseteq ActiveRows
  BY <1>1, <1>2 DEF ActiveRows
<1> QED  BY <1>1, <1>2, <1>3, <1>4, <1>5

LEMMA PatchStatusCommits ==
  ASSUME DriveIInv, NEW k \in Clerks, clerk[k].at = "status",
         plans' = [plans EXCEPT ![clerk[k].route] = clerk[k].new], Served(k),
         UNCHANGED <<rows, twin, packet, crossed, strayed>>
  PROVE  DriveIInv'
<1>1. DriveTyped /\ RowsTyped /\ ClerkOK(clerk[k])
  BY DEF DriveIInv, DriveTyped
<1>2. plans' \in [Routes -> {Nothing} \cup DOMAIN ValidTransitions]
  BY <1>1 DEF DriveTyped, ClerkOK
<1>3. RoutesKept /\ ActiveRows' = ActiveRows /\ RowsTyped'
  BY <1>1, RowsUnchanged
<1>4. /\ DOMAIN clerk' = Clerks /\ clerk' = [j \in Clerks |-> clerk'[j]]
      /\ \A j \in Clerks : clerk'[j] = IF j = k THEN Free ELSE clerk[j]
      /\ \A j \in Clerks : ClerkOK(clerk[j])'
  <2>1. ClerkOK(Free)'
    BY FreeClerk DEF ClerkOK, Free
  <2>2. TwinOK(twin) => TwinOK(twin)'
    BY DEF TwinOK
  <2>3. clerk' = [clerk EXCEPT ![k] = Free]
    BY DEF Served
  <2> QED  BY <1>1, <1>3, <2>1, <2>2, <2>3, ClerksMove
<1>5. packet # Nothing => PacketOK(packet)'
  BY <1>1 DEF DriveTyped, PacketOK, SeenOK
<1>6. DriveTyped'
  BY <1>1, <1>2, <1>4, <1>5 DEF DriveTyped, TwinOK
<1>7. OneRoute => OneRoute'
  BY <1>3, <1>4, FreeClerk DEF OneRoute
<1>8. OnItsRoute => OnItsRoute'
  <2>1. \A j \in Clerks : /\ clerk'[j].at \in Assigning <=> clerk[j].at \in Assigning
                          /\ clerk'[j].at \in {"load", "drive"} <=> clerk[j].at \in {"load", "drive"}
                          /\ clerk'[j].at = "drive" => clerk'[j] = clerk[j]
    BY <1>4, FreeClerk DEF Assigning
  <2> QED  BY <1>3, <2>1 DEF OnItsRoute
<1> QED  BY <1>3, <1>6, <1>7, <1>8 DEF DriveIInv

LEMMA PatchProgressCommits ==
  ASSUME DriveIInv, NEW k \in Clerks, clerk[k].at = "progress",
         rows' = [rows EXCEPT ![clerk[k].row] =
                    Write(rows[clerk[k].row], clerk[k].seen, clerk[k].new)],
         Served(k), UNCHANGED <<plans, twin, packet, crossed, strayed>>
  PROVE  DriveIInv'
<1>1. DriveTyped /\ RowsTyped /\ ClerkOK(clerk[k])
  BY DEF DriveIInv, DriveTyped
<1>i. PICK i : i = clerk[k].row
  OBVIOUS
<1>s. PICK seen : seen = clerk[k].seen
  OBVIOUS
<1>n. PICK new : new = clerk[k].new
  OBVIOUS
<1>w. PICK w : w = Write(rows[i], seen, new)
  OBVIOUS
<1>2. /\ SeenOK(i, seen)
      /\ new \in Stored /\ new.active /\ new.status = "ACTIVE" /\ new.by = Nothing
      /\ new.route = seen.route
  BY <1>i, <1>s, <1>n, <1>1 DEF ClerkOK
<1>3. i \in DOMAIN rows /\ rows[i] \in Stored /\ seen \in Stored
  BY <1>1, <1>2 DEF SeenOK, RowsTyped
<1>4. /\ w \in Stored /\ w.route = rows[i].route /\ w.active = rows[i].active
      /\ w.status = rows[i].status /\ w.by = rows[i].by
  <2>1. new.active = seen.active /\ new.status = seen.status /\ new.by = seen.by
    BY <1>2, <1>3 DEF SeenOK, Stored
  <2> QED  BY <1>w, <1>2, <1>3, <2>1, Columns
<1>5. rows' = [rows EXCEPT ![i] = w]
  BY <1>i, <1>s, <1>n, <1>w
<1>6. /\ w.status = "ACTIVE" => w.by = Nothing
      /\ w.status = "COMPLETED" => ~w.active
  BY <1>1, <1>3, <1>4 DEF RowsTyped
<1>7. /\ RowsTyped' /\ RoutesKept /\ DOMAIN rows' = DOMAIN rows
      /\ ActiveRows' \subseteq ActiveRows
      /\ \A j \in DOMAIN rows : rows'[j] = IF j = i THEN w ELSE rows[j]
  BY <1>1, <1>3, <1>4, <1>5, <1>6, RowRewritten, ZenonT(30)
<1>8. /\ DOMAIN clerk' = Clerks /\ clerk' = [j \in Clerks |-> clerk'[j]]
      /\ \A j \in Clerks : clerk'[j] = IF j = k THEN Free ELSE clerk[j]
      /\ \A j \in Clerks : ClerkOK(clerk[j])'
  <2>1. ClerkOK(Free)'
    BY FreeClerk DEF ClerkOK, Free
  <2>2. TwinOK(twin) => TwinOK(twin)'
    BY DEF TwinOK
  <2>3. clerk' = [clerk EXCEPT ![k] = Free]
    BY DEF Served
  <2> QED  BY <1>1, <1>7, <2>1, <2>2, <2>3, ClerksMove
<1>9. packet # Nothing => PacketOK(packet)'
  <2>p. PICK p : p = packet
    OBVIOUS
  <2>1. p # Nothing => PacketOK(p)'
    BY <1>1, <1>7, <2>p, PacketStays DEF DriveTyped
  <2> QED  BY <2>p, <2>1 DEF PacketOK
<1>10. DriveTyped'
  BY <1>1, <1>8, <1>9 DEF DriveTyped, TwinOK
<1>11. OneRoute => OneRoute'
  BY <1>7, <1>8, FreeClerk DEF OneRoute
<1>12. ASSUME OnItsRoute PROVE OnItsRoute'
  <2>1. \A j \in Clerks : /\ clerk'[j].at \in Assigning => clerk[j].at \in Assigning
                          /\ clerk[j].at \in {"load", "drive"} => clerk'[j].at \in {"load", "drive"}
                          /\ clerk'[j].at = "drive" => clerk'[j] = clerk[j]
    BY <1>8, FreeClerk DEF Assigning
  <2>2. \A j \in DOMAIN rows : /\ rows'[j].route = rows[j].route
                               /\ rows'[j].status = rows[j].status /\ rows'[j].by = rows[j].by
    BY <1>4, <1>7
  <2>3. \A j \in DOMAIN rows' : rows'[j].status = "COMPLETED" => rows'[j].by = rows'[j].route
    BY <1>7, <1>12, <2>2 DEF OnItsRoute
  <2>4. \A j \in ActiveRows' : j \in ActiveRows /\ j \in DOMAIN rows /\ rows'[j].route = rows[j].route
    BY <1>7, <2>2 DEF ActiveRows
  <2>5. ASSUME packet # Nothing
        PROVE  /\ \A j \in Clerks : clerk'[j].at \notin Assigning
               /\ packet.at = "ingest" => \A j \in ActiveRows' : packet.path = rows'[j].route
               /\ packet.at = "commit" => packet.path = rows'[packet.row].route
    <3>1. packet.at = "commit" => packet.row \in DOMAIN rows
      BY <1>1, <2>5 DEF DriveTyped, PacketOK, SeenOK
    <3> QED  BY <1>12, <2>1, <2>2, <2>4, <2>5, <3>1 DEF OnItsRoute
  <2>6. ASSUME twin # Nothing, \A j \in Clerks : clerk'[j].at \notin {"load", "drive"}
        PROVE  \A j \in ActiveRows' : twin.path = rows'[j].route
    BY <1>12, <2>1, <2>4, <2>6 DEF OnItsRoute
  <2>7. \A j \in Clerks : clerk'[j].at = "drive" => \A n \in ActiveRows' : n = clerk'[j].row
    BY <1>12, <2>1, <2>4 DEF OnItsRoute
  <2> QED  BY <2>3, <2>5, <2>6, <2>7 DEF OnItsRoute
<1> QED  BY <1>7, <1>10, <1>11, <1>12 DEF DriveIInv

LEMMA PatchCommitKeeps ==
  ASSUME DriveIInv, NEW k \in Clerks, PatchCommit(k)
  PROVE  DriveIInv'
BY PatchStatusCommits, PatchProgressCommits DEF PatchCommit

LEMMA JobCommitKeeps ==
  ASSUME DriveIInv, JobCommit
  PROVE  DriveIInv'
<1>p. PICK p : p = packet
  OBVIOUS
<1>i. PICK i : i = p.row
  OBVIOUS
<1>s. PICK seen : seen = p.seen
  OBVIOUS
<1>n. PICK new : new = Progressed(seen, p)
  OBVIOUS
<1>w. PICK w : w = Write(rows[i], seen, new)
  OBVIOUS
<1>1. /\ packet # Nothing /\ p.at = "commit" /\ packet' = Nothing
      /\ rows' = [rows EXCEPT ![i] = w]
      /\ UNCHANGED <<plans, twin, clerk, crossed, strayed>>
  BY <1>p, <1>i, <1>s, <1>n, <1>w DEF JobCommit
<1>2. DriveTyped /\ RowsTyped /\ PacketOK(p)
  BY <1>p, <1>1 DEF DriveIInv, DriveTyped
<1>3. /\ SeenOK(i, seen) /\ i \in DOMAIN rows /\ rows[i] \in Stored /\ seen \in Stored
      /\ seen.active /\ seen.status = "ACTIVE" /\ seen.by = Nothing
      /\ seen.route = rows[i].route
  BY <1>i, <1>s, <1>1, <1>2 DEF PacketOK, SeenOK, RowsTyped
<1>4. /\ new \in Stored /\ new.route = seen.route
      /\ \/ new.active = seen.active /\ new.status = seen.status /\ new.by = seen.by
         \/ new.active = FALSE /\ new.status = "COMPLETED" /\ new.by = p.path
  <2>1. p.path \in Paths /\ p.idx \in Nat /\ p.last \in Nat /\ p.pct \in 0..100
    BY <1>2 DEF PacketOK
  <2>2. CASE p.pct >= 100 \/ p.idx >= p.last
    <3>1. new = [[seen EXCEPT !.idx = p.idx, !.pct = p.pct, !.last = p.last]
                   EXCEPT !.active = FALSE, !.status = "COMPLETED", !.pct = 100,
                          !.idx = p.last, !.by = p.path]
      BY <1>n, <2>2 DEF Progressed
    <3>2. seen \in Stored /\ p.last \in Int
      BY <1>3, <2>1
    <3>3. /\ new \in Stored /\ new.route = seen.route
          /\ new.active = FALSE /\ new.status = "COMPLETED" /\ new.by = p.path
      <4>m. PICK m : m = [seen EXCEPT !.idx = p.idx, !.pct = p.pct, !.last = p.last]
        OBVIOUS
      <4>1. m \in Stored /\ m.route = seen.route
        BY <2>1, <3>2, <4>m DEF Stored
      <4>2. new = [m EXCEPT !.active = FALSE, !.status = "COMPLETED", !.pct = 100,
                            !.idx = p.last, !.by = p.path]
        BY <3>1, <4>m
      <4>3. 100 \in 0..100 /\ p.last \in Nat /\ p.path \in Paths \cup {Nothing}
        BY <2>1
      <4> QED  BY <4>1, <4>2, <4>3 DEF Stored
    <3> QED  BY <3>3
  <2>3. CASE ~(p.pct >= 100 \/ p.idx >= p.last)
    <3>1. new = [seen EXCEPT !.idx = p.idx, !.pct = p.pct, !.last = p.last]
      BY <1>n, <2>3 DEF Progressed
    <3>2. seen \in Stored /\ p.last \in Int
      BY <1>3, <2>1
    <3>3. /\ new \in Stored /\ new.route = seen.route
          /\ new.active = seen.active /\ new.status = seen.status /\ new.by = seen.by
      BY <2>1, <3>1, <3>2 DEF Stored
    <3> QED  BY <3>3
  <2> QED  BY <2>2, <2>3
<1>5. /\ w \in Stored /\ w.route = rows[i].route
      /\ \/ w.active = rows[i].active /\ w.status = rows[i].status /\ w.by = rows[i].by
         \/ w.active = FALSE /\ w.status = "COMPLETED" /\ w.by = p.path
  <2>1. p.path # Nothing
    BY <1>2, DriveConstants DEF PacketOK
  <2>2. /\ w \in Stored
        /\ w.route = IF new.route = seen.route THEN rows[i].route ELSE new.route
        /\ w.active = IF new.active = seen.active THEN rows[i].active ELSE new.active
        /\ w.status = IF new.status = seen.status THEN rows[i].status ELSE new.status
        /\ w.by = IF new.by = seen.by THEN rows[i].by ELSE new.by
    <3>r. PICK r : r = rows[i]
      OBVIOUS
    <3>1. r \in Stored /\ seen \in Stored /\ new \in Stored
      BY <1>3, <1>4, <3>r
    <3>2. w = Write(r, seen, new)
      BY <1>w, <3>r
    <3>3. w.route = IF new.route = seen.route THEN r.route ELSE new.route
      BY <3>1, <3>2, Columns
    <3>4. w \in Stored
      BY <3>1, <3>2, Columns
    <3>5. w.active = IF new.active = seen.active THEN r.active ELSE new.active
      BY <3>1, <3>2, Columns
    <3>6. /\ w.status = IF new.status = seen.status THEN r.status ELSE new.status
          /\ w.by = IF new.by = seen.by THEN r.by ELSE new.by
      BY <3>1, <3>2, Columns
    <3>7. w.route = r.route
      BY <1>4, <3>3
    <3> QED  BY <1>4, <3>r, <3>3, <3>4, <3>5, <3>6, <3>7
  <2> QED  BY <1>3, <1>4, <2>1, <2>2
<1>6. /\ w.status = "ACTIVE" => w.by = Nothing
      /\ w.status = "COMPLETED" => ~w.active
      /\ w.active => rows[i].active
  BY <1>2, <1>3, <1>5 DEF RowsTyped
<1>7. /\ RowsTyped' /\ RoutesKept /\ DOMAIN rows' = DOMAIN rows
      /\ ActiveRows' \subseteq ActiveRows
      /\ \A j \in DOMAIN rows : rows'[j] = IF j = i THEN w ELSE rows[j]
  BY <1>1, <1>2, <1>3, <1>5, <1>6, RowRewritten
<1>8. \A k \in Clerks : ClerkOK(clerk[k])'
  <2> TAKE k \in Clerks
  <2>c. PICK c : c = clerk[k]
    OBVIOUS
  <2>1. ClerkOK(c)'
    BY <1>1, <1>2, <1>7, <2>c, ClerkStays DEF DriveTyped, TwinOK
  <2>2. clerk'[k] = c
    BY <1>1, <2>c
  <2> QED  BY <2>1, <2>2 DEF ClerkOK
<1>9. DriveTyped'
  BY <1>1, <1>2, <1>8 DEF DriveTyped, TwinOK
<1>10. OneRoute => OneRoute'
  BY <1>1, <1>7 DEF OneRoute
<1>11. ASSUME OnItsRoute PROVE OnItsRoute'
  <2>1. p.path = rows[i].route
    BY <1>p, <1>i, <1>1, <1>11 DEF OnItsRoute
  <2>2. \A j \in DOMAIN rows : rows'[j].route = rows[j].route
    BY <1>5, <1>7
  <2>3. \A j \in DOMAIN rows' : rows'[j].status = "COMPLETED" => rows'[j].by = rows'[j].route
    <3> TAKE j \in DOMAIN rows'
    <3>1. CASE j = i
      BY <1>5, <1>7, <1>11, <2>1, <3>1 DEF OnItsRoute
    <3>2. CASE j # i
      BY <1>7, <1>11, <3>2 DEF OnItsRoute
    <3> QED  BY <3>1, <3>2
  <2>4. \A j \in ActiveRows' : j \in ActiveRows /\ rows'[j].route = rows[j].route
    BY <1>7, <2>2 DEF ActiveRows
  <2> QED  BY <1>1, <1>11, <2>3, <2>4 DEF OnItsRoute
<1> QED  BY <1>1, <1>7, <1>9, <1>10, <1>11 DEF DriveIInv

\* A new assignment comes after those that it found.
LEMMA RowsAppended ==
  ASSUME RowsTyped, NEW marked, NEW new \in Stored, new.status = "ACTIVE", new.by = Nothing,
         rows' = Append([i \in DOMAIN rows |->
                           IF i \in marked THEN [rows[i] EXCEPT !.active = FALSE] ELSE rows[i]],
                        new)
  PROVE  /\ RowsTyped' /\ RoutesKept
         /\ Len(rows) + 1 \in DOMAIN rows' /\ rows'[Len(rows) + 1] = new
         /\ \A j \in DOMAIN rows' : j \in DOMAIN rows \/ j = Len(rows) + 1
         /\ \A j \in DOMAIN rows : /\ rows'[j].route = rows[j].route
                                   /\ rows'[j].status = rows[j].status
                                   /\ rows'[j].by = rows[j].by
                                   /\ j \in marked => ~rows'[j].active
<1>o. PICK old : old = [i \in DOMAIN rows |->
                          IF i \in marked THEN [rows[i] EXCEPT !.active = FALSE] ELSE rows[i]]
  OBVIOUS
<1>n. PICK n \in Nat : n = Len(rows) /\ DOMAIN rows = 1..n
  BY DEF RowsTyped
<1>1. \A j \in DOMAIN rows :
        /\ rows[j] \in Stored /\ rows[j].status = "ACTIVE" => rows[j].by = Nothing
        /\ rows[j].status = "COMPLETED" => ~rows[j].active
  BY DEF RowsTyped
<1>2. ASSUME NEW j \in DOMAIN rows
      PROVE  /\ old[j] \in Stored /\ old[j].route = rows[j].route
             /\ old[j].status = rows[j].status /\ old[j].by = rows[j].by
             /\ (j \in marked => ~old[j].active) /\ (old[j].active => rows[j].active)
  <2>1. rows[j] \in Stored
    BY DEF RowsTyped
  <2>2. old[j] = IF j \in marked THEN [rows[j] EXCEPT !.active = FALSE] ELSE rows[j]
    BY <1>o
  <2>3. CASE j \in marked
    <3>r. PICK r : r = rows[j]
      OBVIOUS
    <3>1. r \in Stored /\ old[j] = [r EXCEPT !.active = FALSE]
      BY <2>1, <2>2, <2>3, <3>r
    <3>2. /\ [r EXCEPT !.active = FALSE] \in Stored
          /\ [r EXCEPT !.active = FALSE].route = r.route
          /\ [r EXCEPT !.active = FALSE].status = r.status
          /\ [r EXCEPT !.active = FALSE].by = r.by
          /\ ~[r EXCEPT !.active = FALSE].active
      BY <3>1 DEF Stored
    <3> QED  BY <3>r, <3>1, <3>2
  <2>4. CASE j \notin marked
    BY <2>1, <2>2, <2>4 DEF Stored
  <2> QED  BY <2>3, <2>4
<1>3. old \in Seq(Stored) /\ Len(old) = n /\ DOMAIN old = 1..n
  <2>1. old \in [1..n -> Stored]
    BY <1>o, <1>n, <1>2
  <2> QED  BY <1>n, <2>1
<1>4. /\ rows' \in Seq(Stored) /\ DOMAIN rows' = 1..(n + 1)
      /\ rows'[n + 1] = new /\ \A j \in 1..n : rows'[j] = old[j]
  <2>1. rows' = Append(old, new)
    BY <1>o
  <2>2. /\ Append(old, new) \in Seq(Stored) /\ DOMAIN Append(old, new) = 1..(n + 1)
        /\ Append(old, new)[n + 1] = new /\ \A j \in 1..n : Append(old, new)[j] = old[j]
    BY <1>3
  <2> QED  BY <2>1, <2>2
<1>5. \A j \in DOMAIN rows' : j \in DOMAIN rows \/ j = n + 1
  BY <1>n, <1>4
<1>6. \A j \in DOMAIN rows : j \in DOMAIN rows' /\ rows'[j] = old[j]
  BY <1>n, <1>4
<1>7. RowsTyped'
  <2> SUFFICES ASSUME NEW j \in DOMAIN rows'
               PROVE  /\ rows'[j].status = "ACTIVE" => rows'[j].by = Nothing
                      /\ rows'[j].status = "COMPLETED" => ~rows'[j].active
    BY <1>4 DEF RowsTyped
  <2>1. CASE j \in DOMAIN rows
    <3>1. /\ rows[j].status = "ACTIVE" => rows[j].by = Nothing
          /\ rows[j].status = "COMPLETED" => ~rows[j].active
      BY <2>1 DEF RowsTyped
    <3> QED  BY <1>2, <1>6, <2>1, <3>1
  <2>2. CASE j = n + 1
    BY <1>4, <2>2
  <2> QED  BY <1>5, <2>1, <2>2
<1>8. RoutesKept
  BY <1>2, <1>6 DEF RoutesKept
<1> QED  BY <1>n, <1>2, <1>4, <1>5, <1>6, <1>7, <1>8

LEMMA AssignCommitKeeps ==
  ASSUME DriveIInv, NEW k \in Clerks, AssignCommit(k)
  PROVE  DriveIInv'
<1>c. PICK c : c = clerk[k]
  OBVIOUS
<1>n. PICK new : new = [route |-> c.route, active |-> TRUE, status |-> "ACTIVE",
                        idx |-> 0, pct |-> 0, last |-> 0, by |-> Nothing]
  OBVIOUS
<1>s. PICK s : s = IF twin = Nothing THEN Free ELSE [at |-> "load"]
  OBVIOUS
<1>1. /\ c.at = "insert"
      /\ rows' = Append([i \in DOMAIN rows |->
                           IF i \in c.marked THEN [rows[i] EXCEPT !.active = FALSE] ELSE rows[i]],
                        new)
      /\ plans' = IF c.seen = "Assigned" THEN plans ELSE [plans EXCEPT ![c.route] = "Assigned"]
      /\ UNCHANGED <<twin, packet, crossed, strayed>>
  BY <1>c, <1>n DEF AssignCommit
<1>2. clerk' = [clerk EXCEPT ![k] = s]
  BY <1>s DEF AssignCommit, Served
<1>3. DriveTyped /\ RowsTyped /\ ClerkOK(c)
  BY <1>c DEF DriveIInv, DriveTyped
<1>4. c.route \in Routes
  BY <1>1, <1>3 DEF ClerkOK
<1>5. new \in Stored /\ new.status = "ACTIVE" /\ new.by = Nothing /\ new.route = c.route
  BY <1>n, <1>4 DEF Stored
<1>6. /\ RowsTyped' /\ RoutesKept
      /\ Len(rows) + 1 \in DOMAIN rows' /\ rows'[Len(rows) + 1] = new
      /\ \A j \in DOMAIN rows' : j \in DOMAIN rows \/ j = Len(rows) + 1
      /\ \A j \in DOMAIN rows : /\ rows'[j].route = rows[j].route
                                /\ rows'[j].status = rows[j].status
                                /\ rows'[j].by = rows[j].by
                                /\ j \in c.marked => ~rows'[j].active
  BY <1>1, <1>3, <1>5, RowsAppended
<1>7. plans' \in [Routes -> {Nothing} \cup DOMAIN ValidTransitions]
  BY <1>1, <1>3, <1>4 DEF DriveTyped, ValidTransitions
<1>8. (TwinOK(twin) => TwinOK(twin)') /\ (twin # Nothing => TwinOK(twin))
  BY <1>1, <1>3 DEF TwinOK, DriveTyped
<1>9. /\ ClerkOK(s)' /\ s.at \in {"free", "load"} /\ (s.at = "free" => s = Free)
      /\ (twin # Nothing => s.at = "load")
  <2>1. CASE twin = Nothing
    BY <1>s, <2>1, FreeClerk DEF ClerkOK, Free
  <2>2. CASE twin # Nothing
    BY <1>s, <1>8, <2>2 DEF ClerkOK
  <2> QED  BY <2>1, <2>2
<1>10. /\ DOMAIN clerk' = Clerks /\ clerk' = [j \in Clerks |-> clerk'[j]]
       /\ \A j \in Clerks : clerk'[j] = IF j = k THEN s ELSE clerk[j]
       /\ \A j \in Clerks : ClerkOK(clerk[j])'
  BY <1>2, <1>3, <1>6, <1>8, <1>9, ClerksMove
<1>11. packet # Nothing => PacketOK(packet)'
  <2>p. PICK p : p = packet
    OBVIOUS
  <2>1. p # Nothing => PacketOK(p)'
    BY <1>3, <1>6, <2>p, PacketStays DEF DriveTyped
  <2> QED  BY <1>1, <2>p, <2>1 DEF PacketOK
<1>12. DriveTyped'
  BY <1>1, <1>3, <1>7, <1>8, <1>10, <1>11 DEF DriveTyped
<1>13. crossed \/ (OneRoute /\ OnlyOne(k))
  BY <1>c, <1>1, FreeClerk, Underway DEF DriveIInv
<1>14. ASSUME OneRoute, OnlyOne(k) PROVE OneRoute'
  <2>1. (\A i, j \in Clerks : clerk[i] # Free /\ clerk[j] # Free => i = j)'
    BY <1>10, <1>14 DEF OnlyOne
  <2>2. \A j \in DOMAIN rows : ~rows'[j].active
    BY <1>c, <1>1, <1>6, <1>14 DEF OneRoute
  <2>3. \A i, j \in ActiveRows' : i = j
    BY <1>6, <2>2 DEF ActiveRows
  <2>4. \A j \in Clerks : clerk'[j].at # "insert"
    BY <1>9, <1>10, <1>14, FreeClerk DEF OnlyOne
  <2> QED  BY <2>1, <2>3, <2>4 DEF OneRoute
<1>15. ASSUME OneRoute, OnlyOne(k), OnItsRoute PROVE OnItsRoute'
  <2>1. packet = Nothing
    BY <1>c, <1>1, <1>15 DEF OnItsRoute, Assigning
  <2>2. ASSUME NEW j \in DOMAIN rows', rows'[j].status = "COMPLETED"
        PROVE  rows'[j].by = rows'[j].route
    <3>1. j # Len(rows) + 1
      BY <1>5, <1>6, <2>2
    <3> QED  BY <1>6, <1>15, <2>2, <3>1 DEF OnItsRoute
  <2>3. \A j \in Clerks : clerk'[j].at # "drive"
    BY <1>9, <1>10, <1>15, FreeClerk DEF OnlyOne
  <2>4. twin # Nothing => clerk'[k].at = "load"
    BY <1>9, <1>10
  <2> QED  BY <1>1, <2>1, <2>2, <2>3, <2>4 DEF OnItsRoute
<1> QED  BY <1>1, <1>6, <1>12, <1>13, <1>14, <1>15 DEF DriveIInv

LEMMA LoadApplyKeeps ==
  ASSUME DriveIInv, NEW k \in Clerks, LoadApply(k)
  PROVE  DriveIInv'
<1>c. PICK c : c = clerk[k]
  OBVIOUS
<1>p. PICK p : p = rows[c.row].route
  OBVIOUS
<1>s. PICK start : start = IF c.idx > EndOf(p) THEN 0 ELSE c.idx
  OBVIOUS
<1>t. PICK t : t = [twin EXCEPT !.path = p, !.row = c.row, !.idx = start,
                      !.offset = Marks[p][start + 1], !.forward = TRUE, !.completed = FALSE]
  OBVIOUS
<1>1. /\ c.at = "drive" /\ twin' = t /\ clerk' = [clerk EXCEPT ![k] = Free]
      /\ UNCHANGED <<plans, rows, packet, crossed, strayed>>
  BY <1>c, <1>p, <1>s, <1>t DEF LoadApply, Served
<1>2. DriveTyped /\ RowsTyped /\ ClerkOK(c)
  BY <1>c DEF DriveIInv, DriveTyped
<1>3. TwinOK(twin) /\ c.row \in DOMAIN rows /\ c.idx \in Nat
  BY <1>1, <1>2 DEF ClerkOK
<1>4. p \in Paths /\ c.row \in Nat
  <2>1. rows \in Seq(Stored)
    BY <1>2 DEF RowsTyped
  <2>2. c.row \in Nat /\ rows[c.row] \in Stored
    BY <1>3, <2>1
  <2> QED  BY <1>p, <2>2 DEF Stored, Paths
<1>5. /\ start \in Nat /\ start <= EndOf(p)
      /\ Marks[p][start + 1] \in Nat /\ Marks[p][start + 1] <= LengthOf(p)
  <2>1. /\ EndOf(p) \in Nat /\ Len(Marks[p]) \in Nat
        /\ \A i \in 1..Len(Marks[p]) : Marks[p][i] \in Nat /\ Marks[p][i] <= LengthOf(p)
    BY <1>4, MarksOnPath
  <2>2. start \in Nat /\ start <= EndOf(p)
    BY <1>3, <1>s, <2>1
  <2>3. start + 1 \in 1..Len(Marks[p])
    BY <2>1, <2>2 DEF EndOf
  <2> QED  BY <2>1, <2>2, <2>3
<1>6. TwinOK(t) /\ t.path = p
  <2>1. twin \in TwinState /\ twin.speed <= Fastest /\ twin.target <= Fastest
    BY <1>3 DEF TwinOK
  <2>m. PICK m : m = Marks[p][start + 1]
    OBVIOUS
  <2>2. t = [twin EXCEPT !.path = p, !.row = c.row, !.idx = start,
                      !.offset = m, !.forward = TRUE, !.completed = FALSE]
    BY <1>t, <2>m
  <2>3. m \in Nat /\ m <= LengthOf(p)
    BY <1>5, <2>m
  <2>4. /\ t \in TwinState /\ t.path = p /\ t.offset = m /\ t.speed = twin.speed
        /\ t.target = twin.target /\ t.completed = FALSE
    BY <1>4, <1>5, <2>1, <2>2, <2>3 DEF TwinState
  <2> QED  BY <2>1, <2>3, <2>4 DEF TwinOK
<1>7. TwinOK(twin)'
  BY <1>1, <1>6 DEF TwinOK
<1>8. RoutesKept /\ ActiveRows' = ActiveRows /\ RowsTyped'
  BY <1>1, <1>2, RowsUnchanged
<1>9. ClerkOK(Free)'
  BY FreeClerk DEF ClerkOK, Free
<1>10. /\ DOMAIN clerk' = Clerks /\ clerk' = [j \in Clerks |-> clerk'[j]]
       /\ \A j \in Clerks : clerk'[j] = IF j = k THEN Free ELSE clerk[j]
       /\ \A j \in Clerks : ClerkOK(clerk[j])'
  BY <1>1, <1>2, <1>7, <1>8, <1>9, ClerksMove
<1>11. packet # Nothing => PacketOK(packet)'
  <2>p. PICK q : q = packet
    OBVIOUS
  <2>1. q # Nothing => PacketOK(q)'
    BY <1>2, <1>8, <2>p, PacketStays DEF DriveTyped
  <2> QED  BY <1>1, <2>p, <2>1 DEF PacketOK
<1>12. DriveTyped'
  BY <1>1, <1>2, <1>7, <1>10, <1>11 DEF DriveTyped
<1>13. crossed \/ OneRoute
  BY DEF DriveIInv
<1>14. OneRoute => OneRoute'
  BY <1>1, <1>8, <1>10, FreeClerk DEF OneRoute
<1>15. ASSUME OneRoute, OnItsRoute PROVE OnItsRoute'
  <2>1. packet = Nothing
    BY <1>c, <1>1, <1>15 DEF OnItsRoute, Assigning
  <2>2. \A i \in ActiveRows : i = c.row
    BY <1>c, <1>1, <1>15 DEF OnItsRoute
  <2>3. \A i \in ActiveRows : twin'.path = rows[i].route
    BY <1>1, <1>6, <1>p, <2>2
  <2>4. \A j \in Clerks : clerk'[j].at = "drive" => clerk'[j] = clerk[j]
    BY <1>10, FreeClerk
  <2>5. \A j \in Clerks : clerk'[j].at = "drive" => \A i \in ActiveRows : i = clerk'[j].row
    BY <1>15, <2>4 DEF OnItsRoute
  <2> QED  BY <1>1, <1>8, <1>15, <2>1, <2>3, <2>5 DEF OnItsRoute
<1> QED  BY <1>1, <1>8, <1>12, <1>13, <1>14, <1>15 DEF DriveIInv

-----------------------------------------------------------------------------
(***************************************************************************)
(* The theorems about the routes.                                          *)
(***************************************************************************)
LEMMA DriveStarts == DriveInit => DriveIInv
<1> SUFFICES ASSUME DriveInit PROVE DriveIInv
  OBVIOUS
<1>1. ActiveRows = {} /\ RowsTyped
  BY DEF DriveInit, ActiveRows, RowsTyped
<1>2. \A k \in Clerks : clerk[k] = Free /\ clerk[k].at = "free"
  BY FreeClerk DEF DriveInit
<1>3. DriveTyped
  BY <1>2, FreeClerk DEF DriveInit, DriveTyped
<1>4. OneRoute
  BY <1>1, <1>2 DEF OneRoute
<1>5. OnItsRoute
  BY <1>1, <1>2 DEF DriveInit, OnItsRoute
<1> QED  BY <1>1, <1>3, <1>4, <1>5 DEF DriveIInv

\* What DriveSpec says without its fairness.
DriveSteps == DriveInit /\ [][DriveNext]_driveVars

LEMMA DriveStepsKeep == DriveSteps => []DriveIInv
<1>1. ASSUME DriveIInv, [DriveNext]_driveVars PROVE DriveIInv'
  <2>1. ASSUME NEW k \in Clerks, Attend(k) PROVE DriveIInv'
    BY <1>1, <2>1, AssignMarkKeeps, AssignCommitKeeps, LoadSelectKeeps, LoadApplyKeeps,
       PatchCommitKeeps DEF Attend
  <2>2. ASSUME NEW k \in Clerks,
               \/ \E r \in Routes : AssignSelect(k, r) \/ PatchStatus(k, r)
               \/ PatchProgress(k) \/ LoadFails(k)
        PROVE  DriveIInv'
    BY <1>1, <2>2, AssignSelectKeeps, PatchStatusKeeps, PatchProgressKeeps, LoadFailsKeeps
  <2>3. ASSUME NEW r \in Routes, CreateRoute(r) PROVE DriveIInv'
    BY <1>1, <2>3, CreateRouteKeeps
  <2>4. CASE Tick \/ JobSelect \/ JobCommit \/ PacketLost
    BY <1>1, <2>4, TickKeeps, JobSelectKeeps, JobCommitKeeps, PacketLostKeeps
  <2>5. CASE Boot \/ Immobilize \/ Restore \/ StopLoop \/ StartLoop \/ Divert \/ EndProcess
    BY <1>1, <2>5, BootKeeps, CommandsKeep, DivertKeeps, EndProcessKeeps
  <2>6. CASE UNCHANGED driveVars
    <3>1. plans' \in [Routes -> {Nothing} \cup DOMAIN ValidTransitions]
      BY <1>1, <2>6 DEF driveVars, DriveIInv, DriveTyped
    <3>2. UNCHANGED <<rows, twin, packet, clerk, crossed, strayed>>
      BY <2>6 DEF driveVars
    <3> QED  BY <1>1, <3>1, <3>2, PlansMove
  <2> QED  BY <1>1, <2>1, <2>2, <2>3, <2>4, <2>5, <2>6 DEF DriveNext
<1> QED  BY <1>1, DriveStarts, PTL DEF DriveSteps

\* The inductive invariant of the planned routes and the twin that drives them:
\* what a session has read, what the packet says and where the twin is agree
\* with the rows, as long as nothing that the histories name has happened.
THEOREM DriveInvariant == DriveSpec => []DriveIInv
<1>1. DriveSpec => DriveSteps
  BY DEF DriveSpec, DriveSteps
<1> QED  BY <1>1, DriveStepsKeep, PTL

LEMMA DriveIsTyped == DriveIInv => DriveTypeOK
<1> SUFFICES ASSUME DriveIInv PROVE DriveTypeOK
  OBVIOUS
<1>1. DriveTyped /\ RowsTyped
  BY DEF DriveIInv
<1>2. \A i \in DOMAIN rows : rows[i] \in Row
  <2> TAKE i \in DOMAIN rows
  <2>1. rows[i] \in Stored
    BY <1>1 DEF RowsTyped
  <2> QED  BY <2>1 DEF Stored, Row
<1>3. twin # Nothing =>
        /\ twin.path \in Paths
        /\ twin.offset \in Offsets(twin.path)
        /\ twin.speed \in 0..Fastest
        /\ twin.completed => ~twin.loop
  <2> SUFFICES ASSUME twin # Nothing
               PROVE  /\ twin.path \in Paths
                      /\ twin.offset \in Offsets(twin.path)
                      /\ twin.speed \in 0..Fastest
                      /\ twin.completed => ~twin.loop
    OBVIOUS
  <2>1. TwinOK(twin) /\ twin \in TwinState
    BY TwinIsOK
  <2>2. twin.path \in Paths /\ twin.offset \in Nat /\ twin.speed \in Nat
    BY <2>1 DEF TwinState
  <2>3. twin.offset <= LengthOf(twin.path) /\ LengthOf(twin.path) \in Nat
    BY <2>1, <2>2, MarksOnPath DEF TwinOK
  <2>4. twin.offset \in Offsets(twin.path)
    BY <2>2, <2>3 DEF Offsets
  <2>5. twin.speed \in 0..Fastest
    BY <2>1, <2>2, FastestIsFastest DEF TwinOK
  <2>6. twin.completed => ~twin.loop
    BY <2>1 DEF TwinOK
  <2> QED  BY <2>2, <2>4, <2>5, <2>6
<1>4. packet # Nothing => packet.path \in Paths /\ packet.idx < packet.last
  BY <1>1 DEF DriveTyped, PacketOK
<1> QED  BY <1>1, <1>2, <1>3, <1>4 DEF DriveTypeOK, DriveTyped

\* A twin never leaves its path, at any speed, and a packet never reports a
\* segment that its path does not have (DriveTypeOK).
THEOREM DriveTypes == DriveSpec => []DriveTypeOK
BY DriveInvariant, DriveIsTyped, PTL

\* Without overlapping requests the vehicle has one route, a completed
\* assignment stays inactive, and it was completed at the end of its own route
\* unless the twin had been sent elsewhere (assign_route_to_vehicle and
\* process_telemetry_packet, RoutesStayApart).
THEOREM RoutesAreDrivenApart == DriveSpec => []RoutesStayApart
<1>1. DriveIInv => RoutesStayApart
  <2> SUFFICES ASSUME DriveIInv PROVE RoutesStayApart
    OBVIOUS
  <2>1. ASSUME OneRoute PROVE Cardinality(ActiveRows) <= 1
    <3>1. CASE ActiveRows = {}
      BY <3>1, FS_EmptySet
    <3>2. CASE ActiveRows # {}
      <4>1. PICK i \in ActiveRows : TRUE
        BY <3>2
      <4>2. ActiveRows = {i}
        BY <2>1, <4>1 DEF OneRoute
      <4>3. Cardinality(ActiveRows) = 1
        BY <4>2, FS_Singleton
      <4> QED  BY <4>3
    <3> QED  BY <3>1, <3>2
  <2>2. crossed \/ Cardinality(ActiveRows) <= 1
    BY <2>1 DEF DriveIInv
  <2>3. \A i \in DOMAIN rows : rows[i].status = "COMPLETED" =>
          /\ ~rows[i].active
          /\ crossed \/ strayed \/ rows[i].by = rows[i].route
    BY DEF DriveIInv, RowsTyped, OnItsRoute
  <2> QED  BY <2>2, <2>3 DEF RoutesStayApart
<1> QED  BY <1>1, DriveInvariant, PTL

-----------------------------------------------------------------------------
(***************************************************************************)
(* Side by side.  The pipeline, the assignments of drivers and those of    *)
(* routes share no variable, so that a step of one leaves the others as    *)
(* they are.                                                               *)
(***************************************************************************)
LEMMA SideBySideDaily == MCSpec => DailySpec
<1>1. MCInit => DailyInit
  BY DEF MCInit
<1>2. [MCNext]_<<dailyVars, dutyVars, driveVars, focus>> => [DailyNext]_dailyVars
  BY DEF MCNext
<1> QED  BY <1>1, <1>2, PTL DEF MCSpec, DailySpec

LEMMA SideBySideDuty == MCSpec => DutySpec
<1>1. MCInit => DutyInit
  BY DEF MCInit
<1>2. [MCNext]_<<dailyVars, dutyVars, driveVars, focus>> => [DutyNext]_dutyVars
  BY DEF MCNext
<1> QED  BY <1>1, <1>2, PTL DEF MCSpec, DutySpec

LEMMA SideBySideDrive == MCSpec => DriveSteps
<1>1. MCInit => DriveInit
  BY DEF MCInit
<1>2. [MCNext]_<<dailyVars, dutyVars, driveVars, focus>> => [DriveNext]_driveVars
  BY DEF MCNext
<1> QED  BY <1>1, <1>2, PTL DEF MCSpec, DriveSteps

\* The three are well typed in every behaviour of them side by side: summaries
\* with scores in their scales, assignments that were stamped in order, twins
\* that stay on their paths.
THEOREM AssignmentsTypes == MCSpec => []MCTypeOK
<1>1. DailyTypeOK /\ DutyTypeOK /\ DriveTypeOK => MCTypeOK
  BY DEF MCTypeOK
<1> QED  BY <1>1, SideBySideDaily, SideBySideDuty, SideBySideDrive,
            DailyTypes, DutyTypes, DriveStepsKeep, DriveIsTyped, PTL

\* Beside the assignments of drivers and routes, which leave the pipeline alone,
\* the daily figures agree: every location is counted once, the reports of a
\* period agree, a handed over vehicle's kilometres are nobody's twice, and
\* dispatchers are told of what the reports call critical or due (the stages of
\* services/analytics and the reports of crud/analytics.py, FiguresAddUp).
THEOREM FiguresAlwaysAddUp ==
  ASSUME OdometersRunOn, OnePlaceAtATime, OneDriverAtATime
  PROVE  MCSpec => []FiguresAddUp
<1>1. CountedOnce /\ ReportsAgree /\ HandoversAddUp /\ DispatchersAreTold => FiguresAddUp
  BY DEF FiguresAddUp, DailyFiguresAddUp
<1>2. DailySpec => []HandoversAddUp
  BY HandoversAreFair
<1> QED  BY <1>1, <1>2, SideBySideDaily, LocationsAreCountedOnce, ReportsAddUp, DispatchersKnow,
            PTL
=============================================================================
