-------------------------- MODULE TripHistoryProofs --------------------------
(***************************************************************************)
(* What becomes of trips once packets have made them, for every set of     *)
(* coordinates, any number of them and every value of the thresholds: the  *)
(* safety properties of a rebuild (TripRebuild), of jobs that overlap each *)
(* other and a rebuild (TripJobs), which implement TripEngine as long as   *)
(* they do not, and of what the API tells of a trip (TripSummary).         *)
(***************************************************************************)
EXTENDS MCTripHistory, SequenceTheorems, FiniteSetTheorems, NaturalsInduction, TLAPS

-----------------------------------------------------------------------------
(***************************************************************************)
(* The inductive invariant, and its parts.                                 *)
(***************************************************************************)
Fine(t) ==
  /\ t \in Trip
  /\ t.is_active <=> t.status = "ACTIVE"
  /\ t.start_time <= t.end_time

Typed ==
  /\ locations \in Seq(Coordinate)
  /\ inOrder \in BOOLEAN
  /\ live \in Seq(Trip) /\ \A j \in DOMAIN live : Fine(live[j])
  /\ trips \in Seq(Trip) /\ \A i \in DOMAIN trips : Fine(trips[i])
  /\ next \in 1 .. Len(locations) + 1
  /\ pc \in {"ingest", "loop", "done"}
  /\ pc = "ingest" => trips = <<>> /\ next = 1
  /\ pc = "done" => next = Len(locations) + 1

Sorted ==
  \A m, n \in DOMAIN locations : m < n => locations[m].ts <= locations[n].ts

\* The select of the loop returns the newest trip, closed or not.
Lagging ==
  /\ pc # "done" => open = IF trips = <<>> THEN {} ELSE {Len(trips)}
  /\ pc = "done" => open = {}
  /\ \A i \in DOMAIN trips : trips[i].is_active => i = Len(trips) /\ pc # "done"

Done == 1 .. next - 1

\* The rebuilt trips lie before the locations that are left, with a gap between
\* them, and around those that could have started one.
Rebuilt ==
  /\ \A i, j \in DOMAIN trips : i < j => trips[j].start_time - trips[i].end_time > GapTimeout
  /\ \A i \in DOMAIN trips : \A n \in next .. Len(locations) :
       trips[i].end_time <= locations[n].ts
  /\ \A n \in Done : Starts(locations[n]) =>
       \E i \in DOMAIN trips : /\ trips[i].start_time <= locations[n].ts
                               /\ locations[n].ts <= trips[i].end_time

(***************************************************************************)
(* What live evaluation made of locations that arrived in order: a trip    *)
(* starts at a location that can start one, goes on from one location to   *)
(* the next without a gap, and is active up to the last one; where none    *)
(* starts although one could, a trip was there shortly before.             *)
(***************************************************************************)
Begun(j) ==
  \E n \in DOMAIN locations :
    Starts(locations[n]) /\ locations[n].ts = live[j].start_time

Chained(j) ==
  \A n \in DOMAIN locations :
    live[j].start_time < locations[n].ts /\ locations[n].ts <= live[j].end_time
      => \E m \in DOMAIN locations :
           /\ m < n /\ live[j].start_time <= locations[m].ts
           /\ locations[n].ts - locations[m].ts <= GapTimeout

Near(n) ==
  \E m \in DOMAIN locations : \E j \in DOMAIN live :
    /\ m < n /\ locations[n].ts - locations[m].ts <= GapTimeout
    /\ live[j].start_time <= locations[m].ts /\ locations[m].ts <= live[j].end_time

Live ==
  /\ \A j \in DOMAIN live :
       /\ Begun(j) /\ Chained(j)
       /\ \E n \in DOMAIN locations : live[j].end_time = locations[n].ts
       /\ live[j].is_active => /\ j = Len(live)
                               /\ live[j].end_time = locations[Len(locations)].ts
  /\ \A n \in DOMAIN locations : Starts(locations[n]) =>
       (\E j \in DOMAIN live : live[j].start_time = locations[n].ts) \/ Near(n)

\* How far the rebuilt trips have taken the live ones in.
Within(j, n) ==
  \/ Starts(locations[n]) /\ locations[n].ts = live[j].start_time
  \/ live[j].start_time < locations[n].ts /\ locations[n].ts <= live[j].end_time

Merged ==
  /\ \A j \in DOMAIN live : \A n \in Done : Within(j, n) =>
       \E i \in DOMAIN trips : /\ trips[i].start_time <= live[j].start_time
                               /\ locations[n].ts <= trips[i].end_time
  /\ \A i \in DOMAIN trips : \E j \in DOMAIN live :
       live[j].start_time = trips[i].start_time

IInv ==
  /\ Typed /\ Sorted /\ Lagging /\ Rebuilt
  /\ inOrder => Live /\ Merged

-----------------------------------------------------------------------------
(***************************************************************************)
(* What the rules do to one trip, and to the trips of a session.           *)
(***************************************************************************)
LEMMA Constants ==
  /\ Times \subseteq Nat /\ Speeds \subseteq Nat /\ Positions \subseteq Int
  /\ IdleSpeed \in Nat /\ StartSpeed \in Nat /\ SpeedLimit \in Nat /\ GapTimeout \in Nat
  /\ EndTimeout \in Nat /\ MinTripTime \in Nat /\ MinTripDist \in Nat /\ DriftDist \in Nat
BY TripConstants

LEMMA CoordinateType ==
  ASSUME NEW p \in Coordinate
  PROVE  p.ts \in Nat /\ p.speed \in Nat /\ p.pos \in Int
BY Constants DEF Coordinate

LEMMA NewTripIsFine ==
  ASSUME NEW p \in Coordinate
  PROVE  /\ Fine(NewTrip(p)) /\ NewTrip(p).is_active
         /\ NewTrip(p).start_time = p.ts /\ NewTrip(p).end_time = p.ts
<1>1. Overspeed(p) \in {0, 1}
  BY DEF Overspeed
<1> QED  BY <1>1, CoordinateType DEF Fine, NewTrip, Trip, TripStatus

LEMMA CloseIsFine ==
  ASSUME NEW t, Fine(t), NEW st \in {"COMPLETED", "CANCELLED"}
  PROVE  /\ Fine(Close(t, st)) /\ ~Close(t, st).is_active
         /\ Close(t, st).start_time = t.start_time
         /\ Close(t, st).end_time = t.end_time
BY DEF Fine, Close, Trip, TripStatus

Consistent(t) == t \in Trip /\ (t.is_active <=> t.status = "ACTIVE")

LEMMA ExtendIsTrip ==
  ASSUME NEW t, Consistent(t), NEW p \in Coordinate, InTime(t, p)
  PROVE  /\ Consistent(Extend(t, p)) /\ Extend(t, p).is_active = t.is_active
         /\ Extend(t, p).start_time = t.start_time /\ Extend(t, p).end_time = p.ts
<1>1. t \in Trip /\ p.ts \in Nat /\ p.pos \in Int
  BY CoordinateType DEF Consistent
<1>2. /\ t.start_time \in Nat /\ t.end_time \in Nat /\ t.distance \in Nat /\ t.end_pos \in Int
      /\ t.idle_time \in Nat /\ t.packet_count \in Nat /\ t.overspeed_count \in Nat
  BY <1>1 DEF Trip
<1>3. p.ts > t.end_time
  BY <1>1, <1>2 DEF InTime, Late
<1>d. PICK d : d = Travelled(t, p)
  OBVIOUS
<1>o. PICK o : o = Overspeed(p)
  OBVIOUS
<1>4. d \in Nat /\ o \in Nat
  <2>1. Distance(t.end_pos, p.pos) \in Nat
    BY <1>1, <1>2 DEF Distance
  <2> QED  BY <1>d, <1>o, <2>1 DEF Travelled, Overspeed
<1>i. PICK idle : idle = IF p.speed <= IdleSpeed THEN p.ts - t.end_time ELSE 0
  OBVIOUS
<1>5. idle \in Nat
  BY <1>i, <1>1, <1>2, <1>3
<1>6. Extend(t, p) = [t EXCEPT !.distance        = t.distance + d,
                               !.packet_count    = t.packet_count + 1,
                               !.overspeed_count = t.overspeed_count + o,
                               !.end_time        = p.ts,
                               !.duration        = p.ts - t.start_time,
                               !.idle_time       = t.idle_time + idle,
                               !.end_pos         = p.pos]
  BY <1>d, <1>o, <1>i DEF Extend
<1>e. PICK e : e = Extend(t, p)
  OBVIOUS
<1>7. /\ t.distance + d \in Nat /\ t.packet_count + 1 \in Nat /\ t.overspeed_count + o \in Nat
      /\ p.ts - t.start_time \in Int /\ t.idle_time + idle \in Nat
  BY <1>1, <1>2, <1>4, <1>5
<1>8. /\ e \in Trip /\ e.is_active = t.is_active /\ e.status = t.status
      /\ e.start_time = t.start_time /\ e.end_time = p.ts
  BY <1>1, <1>6, <1>7, <1>e, ZenonT(30) DEF Trip
<1>9. e.is_active <=> e.status = "ACTIVE"
  BY <1>8 DEF Consistent
<1> QED  BY <1>e, <1>8, <1>9 DEF Consistent

LEMMA ExtendIsFine ==
  ASSUME NEW t, Fine(t), NEW p \in Coordinate, InTime(t, p)
  PROVE  /\ Fine(Extend(t, p)) /\ Extend(t, p).is_active = t.is_active
         /\ Extend(t, p).start_time = t.start_time /\ Extend(t, p).end_time = p.ts
<1>1. Consistent(t) /\ t.start_time <= t.end_time
  BY DEF Fine, Consistent
<1>2. /\ Consistent(Extend(t, p)) /\ Extend(t, p).is_active = t.is_active
      /\ Extend(t, p).start_time = t.start_time /\ Extend(t, p).end_time = p.ts
  BY <1>1, ExtendIsTrip
<1>3. t.start_time <= p.ts
  <2>1. t.start_time \in Nat /\ t.end_time \in Nat /\ p.ts \in Nat
    BY <1>1, CoordinateType DEF Consistent, Trip
  <2> QED  BY <1>1, <2>1 DEF InTime, Late
<1> QED  BY <1>2, <1>3 DEF Fine, Consistent

LEMMA UpdateIsFine ==
  ASSUME NEW t, Fine(t), NEW p \in Coordinate, InTime(t, p), NEW moving
  PROVE  /\ Fine(Update(t, p, moving)) /\ (Update(t, p, moving).is_active => t.is_active)
         /\ Update(t, p, moving).start_time = t.start_time
         /\ Update(t, p, moving).end_time = p.ts
<1>e. PICK e : e = Extend(t, p)
  OBVIOUS
<1>1. Fine(e) /\ e.is_active = t.is_active /\ e.start_time = t.start_time /\ e.end_time = p.ts
  BY <1>e, ExtendIsFine
<1>2. Update(t, p, moving) = e \/ \E st \in {"COMPLETED", "CANCELLED"} :
                                    Update(t, p, moving) = Close(e, st)
  BY <1>e DEF Update, EndStatus
<1> QED  BY <1>1, <1>2, CloseIsFine

\* What an evaluation may make of the trips ts: nothing, a trip that goes on or
\* is closed, or one more.
Outcome(ts, selected, p, new) ==
  /\ new \in Seq(Trip) /\ \A i \in DOMAIN new : Fine(new[i])
  /\ \A i \in DOMAIN ts :
       /\ i \in DOMAIN new
       /\ new[i].start_time = ts[i].start_time
       /\ new[i].is_active => ts[i].is_active
       /\ i \notin selected => new[i] = ts[i]
  /\ \/ /\ Len(new) = Len(ts) + 1
        /\ Starts(p) /\ new[Len(new)] = NewTrip(p)
        /\ \A i \in selected : /\ AfterGap(ts[i], p)
                               /\ new[i].end_time = ts[i].end_time /\ ~new[i].is_active
     \/ /\ Len(new) = Len(ts)
        /\ selected = {} => ~Starts(p)
        /\ \A i \in selected :
             \/ Late(ts[i], p) /\ new[i] = ts[i]
             \/ /\ AfterGap(ts[i], p) /\ ~Starts(p)
                /\ new[i].end_time = ts[i].end_time /\ ~new[i].is_active
             \/ InTime(ts[i], p) /\ new[i].end_time = p.ts

LEMMA Appended ==
  ASSUME NEW S, NEW s \in Seq(S), NEW e \in S
  PROVE  /\ Append(s, e) \in Seq(S) /\ Len(Append(s, e)) = Len(s) + 1
         /\ DOMAIN Append(s, e) = DOMAIN s \cup {Len(s) + 1}
         /\ \A i \in DOMAIN s : Append(s, e)[i] = s[i]
         /\ Append(s, e)[Len(s) + 1] = e
OBVIOUS

LEMMA Replaced ==
  ASSUME NEW S, NEW s \in Seq(S), NEW i \in DOMAIN s, NEW e \in S
  PROVE  /\ [s EXCEPT ![i] = e] \in Seq(S) /\ Len([s EXCEPT ![i] = e]) = Len(s)
         /\ DOMAIN [s EXCEPT ![i] = e] = DOMAIN s
         /\ \A j \in DOMAIN s : [s EXCEPT ![i] = e][j] = IF j = i THEN e ELSE s[j]
OBVIOUS

LEMMA EvaluatedOutcome ==
  ASSUME NEW ts \in Seq(Trip), \A i \in DOMAIN ts : Fine(ts[i]),
         NEW selected, selected \subseteq {Len(ts)}, selected \subseteq DOMAIN ts,
         NEW p \in Coordinate, NEW moving
  PROVE  Outcome(ts, selected, p, Evaluated(ts, selected, p, moving))
<1>n. PICK n \in Nat : n = Len(ts) /\ DOMAIN ts = 1..n
  OBVIOUS
<1>t. PICK new : new = NewTrip(p)
  OBVIOUS
<1>1. Fine(new) /\ new \in Trip
  BY <1>t, NewTripIsFine DEF Fine
<1>2. Append(ts, new) \in Seq(Trip) /\ Len(Append(ts, new)) = n + 1
      /\ DOMAIN Append(ts, new) = DOMAIN ts \cup {n + 1}
      /\ (\A i \in DOMAIN ts : Append(ts, new)[i] = ts[i]) /\ Append(ts, new)[n + 1] = new
  BY <1>n, <1>1, Appended
<1>r. PICK r : r = Evaluated(ts, selected, p, moving)
  OBVIOUS
<1>3. CASE selected = {}
  <2>1. CASE Starts(p)
    <3>1. r = Append(ts, new)
      BY <1>r, <1>t, <1>3, <2>1 DEF Evaluated
    <3>2. \A i \in DOMAIN r : Fine(r[i])
      BY <1>1, <1>2, <3>1
    <3> QED  BY <1>n, <1>r, <1>t, <1>2, <1>3, <2>1, <3>1, <3>2 DEF Outcome
  <2>2. CASE ~Starts(p)
    <3>1. r = ts
      BY <1>r, <1>3, <2>2 DEF Evaluated
    <3> QED  BY <1>r, <1>3, <2>2, <3>1 DEF Outcome
  <2> QED  BY <2>1, <2>2
<1>4. CASE selected # {}
  <2>1. selected = {n} /\ n \in DOMAIN ts
    BY <1>n, <1>4
  <2>t. PICK t : t = ts[n]
    OBVIOUS
  <2>2. Fine(t) /\ t.end_time \in Nat /\ p.ts \in Nat
    BY <2>1, <2>t, CoordinateType DEF Fine, Trip
  <2>c. PICK c : c = Close(t, "COMPLETED")
    OBVIOUS
  <2>3. /\ Fine(c) /\ c \in Trip /\ ~c.is_active
        /\ c.start_time = t.start_time /\ c.end_time = t.end_time
    BY <2>2, <2>c, CloseIsFine DEF Fine
  <2>s. PICK closed : closed = [ts EXCEPT ![n] = c]
    OBVIOUS
  <2>4. /\ closed \in Seq(Trip) /\ Len(closed) = n /\ DOMAIN closed = DOMAIN ts
        /\ \A j \in DOMAIN ts : closed[j] = IF j = n THEN c ELSE ts[j]
    BY <1>n, <2>1, <2>3, <2>s, Replaced
  <2>5. r = CASE Late(t, p)     -> ts
              [] AfterGap(t, p) -> IF Starts(p) THEN Append(closed, new) ELSE closed
              [] InTime(t, p)   -> [ts EXCEPT ![n] = Update(t, p, moving)]
    <3>1. (CHOOSE j \in selected : TRUE) = n
      BY <2>1
    <3> QED  BY <1>r, <1>t, <2>1, <2>t, <2>c, <2>s, <3>1 DEF Evaluated
  <2>6. CASE Late(t, p)
    <3>1. r = ts
      BY <2>2, <2>5, <2>6, Constants DEF Late, AfterGap, InTime
    <3> QED  BY <1>n, <1>r, <2>1, <2>t, <2>6, <3>1 DEF Outcome
  <2>7. CASE AfterGap(t, p)
    <3>1. ~Late(t, p) /\ ~InTime(t, p)
      BY <2>2, <2>7, Constants DEF Late, AfterGap, InTime
    <3>2. CASE Starts(p)
      <4>1. r = Append(closed, new)
        BY <2>5, <2>7, <3>1, <3>2
      <4>2. /\ r \in Seq(Trip) /\ Len(r) = n + 1 /\ DOMAIN r = DOMAIN ts \cup {n + 1}
            /\ (\A i \in DOMAIN ts : r[i] = closed[i]) /\ r[n + 1] = new
        BY <1>1, <2>4, <4>1, Appended
      <4>3. \A i \in DOMAIN r : Fine(r[i])
        BY <1>1, <2>3, <2>4, <4>2
      <4>4. /\ AfterGap(ts[n], p) /\ r[n].end_time = ts[n].end_time /\ ~r[n].is_active
        BY <2>1, <2>3, <2>4, <2>7, <2>t, <4>2
      <4>5. \A i \in DOMAIN ts :
              /\ i \in DOMAIN r /\ r[i].start_time = ts[i].start_time
              /\ r[i].is_active => ts[i].is_active
              /\ i \notin selected => r[i] = ts[i]
        BY <2>1, <2>3, <2>4, <2>t, <4>2
      <4> QED  BY <1>n, <1>r, <1>t, <2>1, <3>2, <4>2, <4>3, <4>4, <4>5 DEF Outcome
    <3>3. CASE ~Starts(p)
      <4>1. r = closed
        BY <2>5, <2>7, <3>1, <3>3
      <4>2. \A i \in DOMAIN r : Fine(r[i])
        BY <2>3, <2>4, <4>1
      <4>3. \A i \in DOMAIN ts :
              /\ i \in DOMAIN r /\ r[i].start_time = ts[i].start_time
              /\ r[i].is_active => ts[i].is_active
              /\ i \notin selected => r[i] = ts[i]
        BY <2>1, <2>3, <2>4, <2>t, <4>1
      <4>4. AfterGap(ts[n], p) /\ r[n].end_time = ts[n].end_time /\ ~r[n].is_active
        BY <2>1, <2>3, <2>4, <2>7, <2>t, <4>1
      <4> QED  BY <1>n, <1>r, <2>1, <2>4, <3>3, <4>1, <4>2, <4>3, <4>4 DEF Outcome
    <3> QED  BY <3>2, <3>3
  <2>8. CASE InTime(t, p)
    <3>u. PICK u : u = Update(t, p, moving)
      OBVIOUS
    <3>1. Fine(u) /\ u \in Trip /\ (u.is_active => t.is_active)
          /\ u.start_time = t.start_time /\ u.end_time = p.ts
      BY <2>2, <2>8, <3>u, UpdateIsFine DEF Fine
    <3>2. r = [ts EXCEPT ![n] = u]
      BY <2>5, <2>8, <3>u DEF InTime
    <3>3. /\ r \in Seq(Trip) /\ Len(r) = n /\ DOMAIN r = DOMAIN ts
          /\ \A j \in DOMAIN ts : r[j] = IF j = n THEN u ELSE ts[j]
      BY <1>n, <2>1, <3>1, <3>2, Replaced
    <3>4. \A i \in DOMAIN r : Fine(r[i])
      BY <3>1, <3>3
    <3>5. \A i \in DOMAIN ts :
            /\ i \in DOMAIN r /\ r[i].start_time = ts[i].start_time
            /\ r[i].is_active => ts[i].is_active
            /\ i \notin selected => r[i] = ts[i]
      BY <2>1, <2>t, <3>1, <3>3
    <3>6. InTime(ts[n], p) /\ r[n].end_time = p.ts
      BY <2>1, <2>8, <2>t, <3>1, <3>3
    <3> QED  BY <1>n, <1>r, <2>1, <3>3, <3>4, <3>5, <3>6 DEF Outcome
  <2>9. Late(t, p) \/ AfterGap(t, p) \/ InTime(t, p)
    BY DEF InTime
  <2> QED  BY <2>6, <2>7, <2>8, <2>9
<1> QED  BY <1>3, <1>4

-----------------------------------------------------------------------------
(***************************************************************************)
(* The loop of the rebuild.                                                *)
(***************************************************************************)
LEMMA Types ==
  ASSUME Typed
  PROVE  /\ Len(locations) \in Nat /\ DOMAIN locations = 1 .. Len(locations)
         /\ \A n \in DOMAIN locations : locations[n] \in Coordinate /\ locations[n].ts \in Nat
         /\ Len(trips) \in Nat /\ DOMAIN trips = 1 .. Len(trips)
         /\ \A i \in DOMAIN trips : /\ trips[i].start_time \in Nat /\ trips[i].end_time \in Nat
                                    /\ trips[i].start_time <= trips[i].end_time
         /\ Len(live) \in Nat /\ DOMAIN live = 1 .. Len(live)
         /\ \A j \in DOMAIN live : /\ live[j].start_time \in Nat /\ live[j].end_time \in Nat
                                   /\ live[j].start_time <= live[j].end_time
         /\ next \in Nat
<1>1. /\ locations \in Seq(Coordinate) /\ trips \in Seq(Trip) /\ live \in Seq(Trip)
      /\ next \in 1 .. Len(locations) + 1
  BY DEF Typed
<1>2. \A n \in DOMAIN locations : locations[n] \in Coordinate /\ locations[n].ts \in Nat
  <2>1. \A n \in DOMAIN locations : locations[n] \in Coordinate
    BY <1>1
  <2> QED  BY <2>1, CoordinateType
<1>3. \A i \in DOMAIN trips : /\ trips[i].start_time \in Nat /\ trips[i].end_time \in Nat
                              /\ trips[i].start_time <= trips[i].end_time
  BY DEF Typed, Fine, Trip
<1>4. \A j \in DOMAIN live : /\ live[j].start_time \in Nat /\ live[j].end_time \in Nat
                             /\ live[j].start_time <= live[j].end_time
  BY DEF Typed, Fine, Trip
<1> QED  BY <1>1, <1>2, <1>3, <1>4

LEMMA NextOutcome ==
  ASSUME Typed, Lagging, EvaluateNext
  PROVE  /\ next \in DOMAIN locations /\ locations[next] \in Coordinate
         /\ open = IF trips = <<>> THEN {} ELSE {Len(trips)}
         /\ Outcome(trips, open, locations[next], trips')
<1>1. pc = "loop" /\ next <= Len(locations)
  BY DEF EvaluateNext
<1>2. next \in DOMAIN locations /\ locations[next] \in Coordinate
  BY <1>1, Types DEF Typed
<1>3. open = IF trips = <<>> THEN {} ELSE {Len(trips)}
  BY <1>1 DEF Lagging
<1>4. open \subseteq {Len(trips)} /\ open \subseteq DOMAIN trips
  <2>1. trips # <<>> => Len(trips) \in DOMAIN trips
    BY DEF Typed
  <2> QED  BY <1>3, <2>1
<1>5. trips \in Seq(Trip) /\ \A i \in DOMAIN trips : Fine(trips[i])
  BY DEF Typed
<1>m. PICK moving : moving = Moving(locations)
  OBVIOUS
<1>6. trips' = Evaluated(trips, open, locations[next], moving)
  BY <1>m DEF EvaluateNext
<1>7. Outcome(trips, open, locations[next], trips')
  BY <1>2, <1>4, <1>5, <1>6, EvaluatedOutcome
<1> QED  BY <1>2, <1>3, <1>7

\* The trips grow, up to the location that is evaluated, and reach it if it can
\* start a trip.
LEMMA TripsGrow ==
  ASSUME Typed, Lagging, Rebuilt, EvaluateNext, NEW p, p = locations[next]
  PROVE  /\ p.ts \in Nat
         /\ trips' \in Seq(Trip) /\ DOMAIN trips' = 1 .. Len(trips')
         /\ Len(trips') = Len(trips) \/ Len(trips') = Len(trips) + 1
         /\ \A i \in DOMAIN trips :
              /\ i \in DOMAIN trips' /\ trips'[i].start_time = trips[i].start_time
              /\ trips[i].end_time <= trips'[i].end_time
         /\ \A i \in DOMAIN trips' : /\ Fine(trips'[i])
                                     /\ trips'[i].start_time \in Nat
                                     /\ trips'[i].end_time \in Nat
                                     /\ trips'[i].end_time <= p.ts
         /\ Starts(p) => \E i \in DOMAIN trips' :
                           trips'[i].start_time <= p.ts /\ p.ts <= trips'[i].end_time
<1>1. /\ next \in DOMAIN locations /\ p \in Coordinate
      /\ open = IF trips = <<>> THEN {} ELSE {Len(trips)}
      /\ Outcome(trips, open, p, trips')
  BY NextOutcome
<1>2. p.ts \in Nat /\ next \in next .. Len(locations)
  BY <1>1, Types, CoordinateType
<1>3. /\ trips' \in Seq(Trip) /\ DOMAIN trips' = 1 .. Len(trips')
      /\ Len(trips') = Len(trips) \/ Len(trips') = Len(trips) + 1
      /\ \A i \in DOMAIN trips' : Fine(trips'[i])
  <2>1. trips' \in Seq(Trip)
    BY <1>1 DEF Outcome
  <2> QED  BY <1>1, <2>1 DEF Outcome
<1>4. \A i \in DOMAIN trips' : /\ trips'[i].start_time \in Nat /\ trips'[i].end_time \in Nat
                               /\ trips'[i].start_time <= trips'[i].end_time
  BY <1>3 DEF Fine, Trip
<1>5. \A i \in DOMAIN trips : trips[i].end_time <= p.ts
  BY <1>2 DEF Rebuilt
<1>6. \A i \in DOMAIN trips :
        /\ i \in DOMAIN trips' /\ trips'[i].start_time = trips[i].start_time
        /\ trips'[i].end_time = trips[i].end_time \/ trips'[i].end_time = p.ts
  BY <1>1 DEF Outcome
<1>7. \A i \in DOMAIN trips :
        trips[i].end_time <= trips'[i].end_time /\ trips'[i].end_time <= p.ts
  BY <1>2, <1>5, <1>6, Types
<1>n. PICK n \in Nat : n = Len(trips) /\ DOMAIN trips = 1 .. n
  BY Types
<1>m. PICK m \in Nat : m = Len(trips') /\ DOMAIN trips' = 1 .. m
  <2>1. trips' \in Seq(Trip)
    BY <1>3
  <2>2. Len(trips') \in Nat /\ DOMAIN trips' = 1 .. Len(trips')
    BY <2>1
  <2> QED  BY <2>2
<1>l. m = n \/ m = n + 1
  BY <1>3, <1>n, <1>m
<1>8. \A i \in DOMAIN trips' : i \in DOMAIN trips \/ i = n + 1
  <2>1. \A i \in 1 .. m : i \in 1 .. n \/ i = n + 1
    BY <1>l
  <2> QED  BY <1>n, <1>m, <2>1
<1>9. n + 1 \in DOMAIN trips' =>
        /\ trips'[n + 1].start_time = p.ts
        /\ trips'[n + 1].end_time = p.ts
  <2>1. ASSUME n + 1 \in 1 .. m PROVE m = n + 1
    BY <1>l, <2>1
  <2>2. m = n + 1 => trips'[m] = NewTrip(p)
    <3>1. n + 1 # n
      OBVIOUS
    <3> QED  BY <1>1, <1>n, <1>m, <3>1 DEF Outcome
  <2> QED  BY <1>1, <1>m, <2>1, <2>2, NewTripIsFine
<1>10. \A i \in DOMAIN trips' : trips'[i].end_time <= p.ts
  BY <1>2, <1>7, <1>8, <1>9
<1>11. ASSUME Starts(p)
       PROVE  \E i \in DOMAIN trips' :
                trips'[i].start_time <= p.ts /\ p.ts <= trips'[i].end_time
  <2>1. CASE m = n + 1
    <3>1. n + 1 \in DOMAIN trips'
      BY <1>m, <2>1
    <3> QED  BY <1>2, <1>9, <3>1
  <2>2. CASE m = n
    <3>0. n + 1 # n
      OBVIOUS
    <3>1. open # {} /\ open = {n} /\ trips # <<>>
      <4>1. open # {}
        BY <1>1, <1>11, <1>n, <1>m, <2>2, <3>0 DEF Outcome
      <4> QED  BY <1>1, <1>n, <4>1
    <3>2. n \in DOMAIN trips
      BY <1>n, <3>1 DEF Typed
    <3>3. (Late(trips[n], p) /\ trips'[n] = trips[n]) \/ trips'[n].end_time = p.ts
      BY <1>1, <1>11, <1>n, <1>m, <2>2, <3>0, <3>1 DEF Outcome
    <3>4. p.ts <= trips'[n].end_time
      <4>1. CASE Late(trips[n], p) /\ trips'[n] = trips[n]
        BY <4>1 DEF Late
      <4>2. CASE trips'[n].end_time = p.ts
        BY <1>2, <4>2
      <4> QED  BY <3>3, <4>1, <4>2
    <3>5. n \in DOMAIN trips' /\ trips'[n].start_time <= p.ts
      <4>1. n \in DOMAIN trips' /\ trips'[n].start_time = trips[n].start_time
        BY <1>6, <3>2
      <4>2. trips[n].start_time <= trips[n].end_time /\ trips[n].end_time <= p.ts
        BY <1>5, <3>2, Types
      <4> QED  BY <1>2, <3>2, <4>1, <4>2, Types
    <3> QED  BY <3>4, <3>5
  <2> QED  BY <1>l, <2>1, <2>2
<1> QED  BY <1>2, <1>3, <1>4, <1>6, <1>7, <1>10, <1>11

LEMMA NextLags ==
  ASSUME Typed, Lagging, Rebuilt, EvaluateNext
  PROVE  Typed' /\ Lagging'
<1>p. PICK p : p = locations[next]
  OBVIOUS
<1>1. /\ next \in DOMAIN locations /\ p \in Coordinate
      /\ open = IF trips = <<>> THEN {} ELSE {Len(trips)}
      /\ Outcome(trips, open, p, trips')
  BY <1>p, NextOutcome
<1>2. /\ trips' \in Seq(Trip) /\ DOMAIN trips' = 1 .. Len(trips')
      /\ Len(trips') = Len(trips) \/ Len(trips') = Len(trips) + 1
      /\ \A i \in DOMAIN trips' : Fine(trips'[i])
  BY <1>p, TripsGrow
<1>3. /\ pc = "loop" /\ next <= Len(locations) /\ next' = next + 1
      /\ open' = IF Len(trips') > Len(trips) THEN ActiveIn(trips') ELSE open
      /\ UNCHANGED <<locations, inOrder, live, pc>>
  BY DEF EvaluateNext
<1>4. Typed'
  <2>1. next' \in 1 .. Len(locations) + 1
    BY <1>3, Types
  <2> QED  BY <1>2, <1>3, <2>1 DEF Typed
<1>5. \A i \in DOMAIN trips : trips[i].is_active => i = Len(trips)
  BY DEF Lagging
<1>6. CASE Len(trips') = Len(trips) + 1
  <2>n. PICK n \in Nat : n = Len(trips) /\ DOMAIN trips = 1 .. n
    BY Types
  <2>1. /\ trips'[n + 1] = NewTrip(p) /\ \A i \in open : ~trips'[i].is_active
        /\ \A i \in DOMAIN trips : (trips'[i].is_active => trips[i].is_active)
                                   /\ (i \notin open => trips'[i] = trips[i])
    BY <1>1, <1>6, <2>n DEF Outcome
  <2>2. NewTrip(p).is_active
    BY <1>1, NewTripIsFine
  <2>3. \A i \in DOMAIN trips : ~trips'[i].is_active
    <3> TAKE i \in DOMAIN trips
    <3>1. CASE i \in open
      BY <2>1, <3>1
    <3>2. CASE i \notin open
      <4>1. trips # <<>>
        OBVIOUS
      <4>2. i # Len(trips)
        BY <1>1, <3>2, <4>1
      <4> QED  BY <1>5, <2>1, <4>2
    <3> QED  BY <3>1, <3>2
  <2>4. DOMAIN trips' = 1 .. n + 1
    BY <1>2, <1>6, <2>n
  <2>5. ActiveIn(trips') = {n + 1}
    <3>1. \A i \in DOMAIN trips' : trips'[i].is_active <=> i = n + 1
      BY <2>n, <2>1, <2>2, <2>3, <2>4
    <3> QED  BY <2>4, <3>1 DEF ActiveIn
  <2>6. open' = {n + 1}
    BY <1>3, <1>6, <2>n, <2>5
  <2>7. trips' # <<>> /\ Len(trips') = n + 1
    BY <1>2, <1>6, <2>n, <2>4
  <2>8. \A i \in DOMAIN trips' : trips'[i].is_active => i = Len(trips')
    BY <2>n, <2>3, <2>4, <2>7
  <2> QED  BY <1>3, <1>4, <2>6, <2>7, <2>8 DEF Lagging
<1>7. CASE Len(trips') = Len(trips)
  <2>1. open' = open /\ DOMAIN trips' = DOMAIN trips
    BY <1>2, <1>3, <1>7, Types
  <2>2. trips' = <<>> <=> trips = <<>>
    BY <1>2, <1>7 DEF Typed
  <2>3. \A i \in DOMAIN trips' : trips'[i].is_active => i = Len(trips')
    BY <1>1, <1>5, <1>7, <2>1 DEF Outcome
  <2>4. open' = IF trips' = <<>> THEN {} ELSE {Len(trips')}
    BY <1>1, <1>7, <2>1, <2>2
  <2> QED  BY <1>3, <1>4, <2>3, <2>4 DEF Lagging
<1> QED  BY <1>2, <1>6, <1>7

LEMMA NextRebuilt ==
  ASSUME Typed, Sorted, Lagging, Rebuilt, EvaluateNext
  PROVE  Rebuilt'
<1>p. PICK p : p = locations[next]
  OBVIOUS
<1>1. /\ next \in DOMAIN locations /\ p \in Coordinate
      /\ open = IF trips = <<>> THEN {} ELSE {Len(trips)}
      /\ Outcome(trips, open, p, trips')
  BY <1>p, NextOutcome
<1>2. /\ p.ts \in Nat /\ trips' \in Seq(Trip)
      /\ \A i \in DOMAIN trips :
           /\ i \in DOMAIN trips' /\ trips'[i].start_time = trips[i].start_time
           /\ trips[i].end_time <= trips'[i].end_time
      /\ \A i \in DOMAIN trips' : /\ trips'[i].start_time \in Nat /\ trips'[i].end_time \in Nat
                                  /\ trips'[i].end_time <= p.ts
      /\ Starts(p) => \E i \in DOMAIN trips' :
                        trips'[i].start_time <= p.ts /\ p.ts <= trips'[i].end_time
      /\ Len(trips') = Len(trips) \/ Len(trips') = Len(trips) + 1
  BY <1>p, TripsGrow
<1>3. next' = next + 1 /\ UNCHANGED locations
  BY DEF EvaluateNext
<1>n. PICK n \in Nat : n = Len(trips) /\ DOMAIN trips = 1 .. n
  BY Types
<1>m. PICK m \in Nat : m = Len(trips') /\ DOMAIN trips' = 1 .. m
  BY <1>2
<1>l. m = n \/ m = n + 1
  BY <1>2, <1>n, <1>m
<1>g. GapTimeout \in Nat
  BY Constants
<1>4. ASSUME NEW i \in DOMAIN trips', NEW j \in DOMAIN trips', i < j
      PROVE  trips'[j].start_time - trips'[i].end_time > GapTimeout
  <2>1. i \in DOMAIN trips /\ i \in 1 .. n /\ j \in 1 .. m
    BY <1>4, <1>n, <1>m, <1>l
  <2>2. trips # <<>> /\ open = {n} /\ n \in DOMAIN trips
    <3>1. trips # <<>> /\ n \in DOMAIN trips
      BY <1>n, <2>1
    <3> QED  BY <1>1, <1>n, <3>1
  <2>3. i # n => trips'[i] = trips[i]
    BY <1>1, <2>1, <2>2 DEF Outcome
  <2>4. CASE j \in DOMAIN trips
    <3>1. i # n
      BY <1>4, <1>n, <2>1, <2>4
    <3>2. trips[j].start_time - trips[i].end_time > GapTimeout
      BY <1>4, <2>1, <2>4 DEF Rebuilt
    <3> QED  BY <1>2, <2>3, <2>4, <3>1, <3>2
  <2>5. CASE j \notin DOMAIN trips
    <3>1. j = n + 1 /\ m = n + 1 /\ n + 1 # n
      BY <1>n, <1>l, <2>1, <2>5
    <3>2. /\ trips'[j] = NewTrip(p)
          /\ AfterGap(trips[n], p) /\ trips'[n].end_time = trips[n].end_time
      BY <1>1, <1>n, <1>m, <2>2, <3>1 DEF Outcome
    <3>3. trips'[j].start_time = p.ts
      BY <1>1, <3>2, NewTripIsFine
    <3>4. CASE i = n
      BY <3>2, <3>3, <3>4 DEF AfterGap
    <3>5. CASE i # n
      <4>1. i < n
        BY <2>1, <3>5
      <4>2. trips[n].start_time - trips[i].end_time > GapTimeout
        BY <2>1, <2>2, <4>1 DEF Rebuilt
      <4>3. trips[n].start_time <= trips[n].end_time /\ trips[n].end_time <= p.ts
        <5>1. trips'[n].end_time <= p.ts
          BY <1>2, <2>2
        <5> QED  BY <2>2, <3>2, <5>1, Types
      <4>4. /\ trips[n].start_time \in Nat /\ trips[n].end_time \in Nat
            /\ trips[i].end_time \in Nat
        BY <2>1, <2>2, Types
      <4>5. p.ts - trips[i].end_time > GapTimeout
        BY <1>2, <1>g, <4>2, <4>3, <4>4, SMTT(30)
      <4> QED  BY <2>3, <3>3, <3>5, <4>5
    <3> QED  BY <3>4, <3>5
  <2> QED  BY <2>4, <2>5
<1>5. ASSUME NEW i \in DOMAIN trips', NEW k \in next + 1 .. Len(locations)
      PROVE  trips'[i].end_time <= locations[k].ts
  <2>1. k \in DOMAIN locations /\ next < k
    BY <1>1, Types
  <2>2. p.ts <= locations[k].ts
    BY <1>1, <1>p, <2>1 DEF Sorted
  <2> QED  BY <1>2, <2>1, <2>2, Types
<1>6. ASSUME NEW k \in 1 .. next + 1 - 1, Starts(locations[k])
      PROVE  \E i \in DOMAIN trips' : /\ trips'[i].start_time <= locations[k].ts
                                      /\ locations[k].ts <= trips'[i].end_time
  <2>1. CASE k = next
    BY <1>p, <1>2, <1>6, <2>1
  <2>2. CASE k # next
    <3>1. k \in Done /\ k \in DOMAIN locations
      BY <1>1, <2>2, Types DEF Done
    <3>2. PICK i \in DOMAIN trips : /\ trips[i].start_time <= locations[k].ts
                                    /\ locations[k].ts <= trips[i].end_time
      BY <1>6, <3>1 DEF Rebuilt
    <3>3. /\ trips[i].end_time \in Nat /\ locations[k].ts \in Nat
          /\ trips'[i].end_time \in Nat /\ i \in DOMAIN trips'
      BY <1>2, <3>1, Types
    <3>4. trips'[i].start_time <= locations[k].ts /\ locations[k].ts <= trips'[i].end_time
      BY <1>2, <3>2, <3>3
    <3> QED  BY <3>3, <3>4
  <2> QED  BY <2>1, <2>2
<1>7. \A i \in DOMAIN trips' : \A k \in next' .. Len(locations') :
        trips'[i].end_time <= locations'[k].ts
  <2>1. next' .. Len(locations') = next + 1 .. Len(locations) /\ locations' = locations
    BY <1>3
  <2> QED  BY <1>5, <2>1
<1>8. \A k \in 1 .. next' - 1 : Starts(locations'[k]) =>
        \E i \in DOMAIN trips' : /\ trips'[i].start_time <= locations'[k].ts
                                 /\ locations'[k].ts <= trips'[i].end_time
  <2>1. 1 .. next' - 1 = 1 .. next + 1 - 1 /\ locations' = locations
    BY <1>3, Types
  <2> QED  BY <1>6, <2>1 DEF Starts
<1> QED  BY <1>4, <1>7, <1>8 DEF Rebuilt, Done

\* A trip that ended shortly before the location goes on to it.
LEMMA StillReached ==
  ASSUME Typed, Lagging, Rebuilt, EvaluateNext, NEW p, p = locations[next],
         NEW i \in DOMAIN trips, p.ts - trips[i].end_time <= GapTimeout
  PROVE  /\ i \in DOMAIN trips' /\ trips'[i].start_time = trips[i].start_time
         /\ p.ts <= trips'[i].end_time /\ Len(trips') = Len(trips)
<1>1. /\ next \in DOMAIN locations /\ p \in Coordinate
      /\ open = IF trips = <<>> THEN {} ELSE {Len(trips)}
      /\ Outcome(trips, open, p, trips')
  BY NextOutcome
<1>2. p.ts \in Nat /\ i \in DOMAIN trips' /\ trips'[i].start_time = trips[i].start_time
  BY TripsGrow
<1>n. PICK n \in Nat : n = Len(trips) /\ DOMAIN trips = 1 .. n
  BY Types
<1>g. GapTimeout \in Nat
  BY Constants
<1>3. n \in DOMAIN trips /\ open = {n} /\ i \in 1 .. n
  <2>1. trips # <<>> /\ n \in DOMAIN trips
    BY <1>n
  <2> QED  BY <1>1, <1>n, <2>1
<1>4. trips[n].end_time <= p.ts
  <2>1. next \in next .. Len(locations)
    BY <1>1, Types
  <2> QED  BY <1>3, <2>1 DEF Rebuilt
<1>5. i = n
  <2>1. ASSUME i # n PROVE FALSE
    <3>1. i < n
      BY <1>3, <2>1
    <3>2. trips[n].start_time - trips[i].end_time > GapTimeout
      BY <1>3, <3>1 DEF Rebuilt
    <3>3. /\ trips[n].start_time <= trips[n].end_time
          /\ trips[n].start_time \in Nat /\ trips[n].end_time \in Nat
          /\ trips[i].end_time \in Nat
      BY <1>3, Types
    <3> QED  BY <1>2, <1>4, <1>g, <3>2, <3>3
  <2> QED  BY <2>1
<1>6. ~AfterGap(trips[n], p)
  <2>1. trips[n].end_time \in Nat
    BY <1>3, Types
  <2> QED  BY <1>2, <1>5, <1>g, <2>1 DEF AfterGap
<1>7. /\ Len(trips') = Len(trips)
      /\ (Late(trips[n], p) /\ trips'[n] = trips[n]) \/ trips'[n].end_time = p.ts
  BY <1>1, <1>3, <1>6 DEF Outcome
<1>8. p.ts <= trips'[n].end_time
  <2>1. CASE Late(trips[n], p) /\ trips'[n] = trips[n]
    BY <2>1 DEF Late
  <2>2. CASE trips'[n].end_time = p.ts
    BY <1>2, <2>2
  <2> QED  BY <1>7, <2>1, <2>2
<1> QED  BY <1>2, <1>5, <1>7, <1>8

\* The rebuilt trips have taken in what was evaluated of a live trip.
LEMMA Reached ==
  ASSUME Typed, Sorted, Merged, next \in DOMAIN locations,
         NEW j \in DOMAIN live, Begun(j), live[j].start_time < locations[next].ts,
         NEW m \in DOMAIN locations, m < next,
         live[j].start_time <= locations[m].ts, locations[m].ts <= live[j].end_time
  PROVE  \E i \in DOMAIN trips : /\ trips[i].start_time <= live[j].start_time
                                 /\ locations[m].ts <= trips[i].end_time
<1>1. \A n \in DOMAIN locations : n < next => n \in Done
  BY Types DEF Done
<1>2. CASE live[j].start_time < locations[m].ts
  <2>1. Within(j, m)
    BY <1>2 DEF Within
  <2> QED  BY <1>1, <2>1 DEF Merged
<1>3. CASE ~(live[j].start_time < locations[m].ts)
  <2>1. locations[m].ts = live[j].start_time
    <3>1. live[j].start_time \in Nat /\ locations[m].ts \in Nat
      BY Types
    <3> QED  BY <1>3, <3>1
  <2>2. PICK s \in DOMAIN locations : Starts(locations[s]) /\ locations[s].ts = live[j].start_time
    BY DEF Begun
  <2>3. s < next
    <3>1. s \in Nat /\ next \in Nat /\ locations[s].ts \in Nat /\ locations[next].ts \in Nat
      BY <2>2, Types
    <3>2. next < s => locations[next].ts <= locations[s].ts
      BY <2>2 DEF Sorted
    <3>3. locations[s].ts < locations[next].ts
      BY <2>2
    <3>4. s # next
      BY <3>1, <3>3
    <3> QED  BY <3>1, <3>2, <3>3, <3>4
  <2>4. Within(j, s)
    BY <2>2 DEF Within
  <2>5. PICK i \in DOMAIN trips : /\ trips[i].start_time <= live[j].start_time
                                  /\ locations[s].ts <= trips[i].end_time
    BY <1>1, <2>2, <2>3, <2>4 DEF Merged
  <2> QED  BY <2>1, <2>2, <2>5
<1> QED  BY <1>2, <1>3

LEMMA NextMerged ==
  ASSUME Typed, Sorted, Lagging, Rebuilt, Live, Merged, EvaluateNext
  PROVE  Merged'
<1>p. PICK p : p = locations[next]
  OBVIOUS
<1>1. /\ next \in DOMAIN locations /\ p \in Coordinate
      /\ open = IF trips = <<>> THEN {} ELSE {Len(trips)}
      /\ Outcome(trips, open, p, trips')
  BY <1>p, NextOutcome
<1>2. /\ p.ts \in Nat /\ trips' \in Seq(Trip)
      /\ \A i \in DOMAIN trips :
           /\ i \in DOMAIN trips' /\ trips'[i].start_time = trips[i].start_time
           /\ trips[i].end_time <= trips'[i].end_time
      /\ \A i \in DOMAIN trips' : /\ trips'[i].start_time \in Nat
                                  /\ trips'[i].end_time \in Nat
      /\ Starts(p) => \E i \in DOMAIN trips' :
                        trips'[i].start_time <= p.ts /\ p.ts <= trips'[i].end_time
      /\ Len(trips') = Len(trips) \/ Len(trips') = Len(trips) + 1
  BY <1>p, TripsGrow
<1>3. next' = next + 1 /\ locations' = locations /\ live' = live /\ next \in Nat
  BY Types DEF EvaluateNext
<1>g. GapTimeout \in Nat
  BY Constants
\* A live trip that goes on shortly before p is in a trip that goes on to p.
<1>4. ASSUME NEW j \in DOMAIN live, NEW m \in DOMAIN locations, m < next,
             p.ts - locations[m].ts <= GapTimeout, live[j].start_time < p.ts,
             live[j].start_time <= locations[m].ts, locations[m].ts <= live[j].end_time
      PROVE  /\ Len(trips') = Len(trips)
             /\ \E i \in DOMAIN trips' : /\ trips'[i].start_time <= live[j].start_time
                                         /\ p.ts <= trips'[i].end_time
  <2>1. Begun(j)
    BY DEF Live
  <2>2. PICK i \in DOMAIN trips : /\ trips[i].start_time <= live[j].start_time
                                  /\ locations[m].ts <= trips[i].end_time
    BY <1>1, <1>4, <1>p, <2>1, Reached
  <2>3. p.ts - trips[i].end_time <= GapTimeout
    <3>1. locations[m].ts \in Nat /\ trips[i].end_time \in Nat
      BY Types
    <3> QED  BY <1>2, <1>4, <1>g, <2>2, <3>1
  <2>4. /\ i \in DOMAIN trips' /\ trips'[i].start_time = trips[i].start_time
        /\ p.ts <= trips'[i].end_time /\ Len(trips') = Len(trips)
    BY <1>p, <2>3, StillReached
  <2> QED  BY <2>2, <2>4
<1>5. ASSUME NEW j \in DOMAIN live, Within(j, next)
      PROVE  \E i \in DOMAIN trips' : /\ trips'[i].start_time <= live[j].start_time
                                      /\ p.ts <= trips'[i].end_time
  <2>1. CASE Starts(p) /\ p.ts = live[j].start_time
    BY <1>2, <2>1
  <2>2. CASE live[j].start_time < p.ts /\ p.ts <= live[j].end_time
    <3>1. PICK m \in DOMAIN locations : /\ m < next /\ live[j].start_time <= locations[m].ts
                                        /\ p.ts - locations[m].ts <= GapTimeout
      BY <1>1, <1>p, <2>2 DEF Live, Chained
    <3>2. locations[m].ts <= p.ts
      BY <1>1, <1>p, <3>1 DEF Sorted
    <3>3. locations[m].ts <= live[j].end_time
      <4>1. locations[m].ts \in Nat /\ live[j].end_time \in Nat
        BY Types
      <4> QED  BY <1>2, <2>2, <3>2, <4>1
    <3> QED  BY <1>4, <2>2, <3>1, <3>3
  <2> QED  BY <1>5, <1>p, <2>1, <2>2 DEF Within
<1>6. ASSUME NEW j \in DOMAIN live, NEW k \in 1 .. next, Within(j, k)
      PROVE  \E i \in DOMAIN trips' : /\ trips'[i].start_time <= live[j].start_time
                                      /\ locations[k].ts <= trips'[i].end_time
  <2>1. CASE k = next
    BY <1>5, <1>6, <1>p, <2>1
  <2>2. CASE k # next
    <3>1. k \in Done /\ k \in DOMAIN locations
      BY <1>1, <2>2, Types DEF Done
    <3>2. PICK i \in DOMAIN trips : /\ trips[i].start_time <= live[j].start_time
                                    /\ locations[k].ts <= trips[i].end_time
      BY <1>6, <3>1 DEF Merged
    <3>3. /\ trips[i].end_time \in Nat /\ locations[k].ts \in Nat
          /\ trips'[i].end_time \in Nat /\ i \in DOMAIN trips'
      BY <1>2, <3>1, Types
    <3>4. /\ trips'[i].start_time <= live[j].start_time
          /\ locations[k].ts <= trips'[i].end_time
      BY <1>2, <3>2, <3>3
    <3> QED  BY <3>3, <3>4
  <2> QED  BY <2>1, <2>2
<1>7. ASSUME NEW i \in DOMAIN trips'
      PROVE  \E j \in DOMAIN live : live[j].start_time = trips'[i].start_time
  <2>n. PICK n \in Nat : n = Len(trips) /\ DOMAIN trips = 1 .. n
    BY Types
  <2>m. PICK m \in Nat : m = Len(trips') /\ DOMAIN trips' = 1 .. m
    BY <1>2
  <2>l. (m = n \/ m = n + 1) /\ n + 1 # n
    BY <1>2, <2>n, <2>m
  <2>1. CASE i \in DOMAIN trips
    BY <1>2, <2>1 DEF Merged
  <2>2. CASE i \notin DOMAIN trips
    <3>1. i = n + 1 /\ m = n + 1
      BY <2>n, <2>m, <2>l, <2>2
    <3>2. Starts(p) /\ trips'[i] = NewTrip(p)
      BY <1>1, <2>n, <2>m, <2>l, <3>1 DEF Outcome
    <3>3. trips'[i].start_time = p.ts
      BY <1>1, <3>2, NewTripIsFine
    <3>4. CASE \E j \in DOMAIN live : live[j].start_time = p.ts
      BY <3>3, <3>4
    <3>5. CASE Near(next)
      <4>1. PICK k \in DOMAIN locations, j \in DOMAIN live :
              /\ k < next /\ p.ts - locations[k].ts <= GapTimeout
              /\ live[j].start_time <= locations[k].ts
              /\ locations[k].ts <= live[j].end_time
        BY <1>p, <3>5 DEF Near
      <4>2. locations[k].ts <= p.ts
        BY <1>1, <1>p, <4>1 DEF Sorted
      <4>3. live[j].start_time = p.ts \/ live[j].start_time < p.ts
        <5>1. locations[k].ts \in Nat /\ live[j].start_time \in Nat
          BY Types
        <5> QED  BY <1>2, <4>1, <4>2, <5>1
      <4>4. ~(live[j].start_time < p.ts)
        <5>1. Len(trips') # Len(trips)
          BY <2>n, <2>m, <2>l, <3>1
        <5> QED  BY <1>4, <4>1, <5>1
      <4> QED  BY <3>3, <4>3, <4>4
    <3>6. (\E j \in DOMAIN live : live[j].start_time = p.ts) \/ Near(next)
      BY <1>1, <1>p, <3>2 DEF Live
    <3> QED  BY <3>4, <3>5, <3>6
  <2> QED  BY <2>1, <2>2
<1>8. \A j \in DOMAIN live' : \A k \in 1 .. next' - 1 :
        \/ Starts(locations'[k]) /\ locations'[k].ts = live'[j].start_time
        \/ live'[j].start_time < locations'[k].ts /\ locations'[k].ts <= live'[j].end_time
        => \E i \in DOMAIN trips' : /\ trips'[i].start_time <= live'[j].start_time
                                    /\ locations'[k].ts <= trips'[i].end_time
  <2>1. \A j \in DOMAIN live : \A k \in 1 .. next :
          \/ Starts(locations[k]) /\ locations[k].ts = live[j].start_time
          \/ live[j].start_time < locations[k].ts /\ locations[k].ts <= live[j].end_time
          => \E i \in DOMAIN trips' : /\ trips'[i].start_time <= live[j].start_time
                                      /\ locations[k].ts <= trips'[i].end_time
    BY <1>6 DEF Within
  <2>2. 1 .. next' - 1 = 1 .. next
    BY <1>3
  <2> QED  BY <1>3, <2>1, <2>2
<1>9. \A i \in DOMAIN trips' : \E j \in DOMAIN live' :
        live'[j].start_time = trips'[i].start_time
  BY <1>3, <1>7
<1> QED  BY <1>8, <1>9 DEF Merged, Done, Within

LEMMA EvaluateNextKeeps ==
  ASSUME IInv, EvaluateNext
  PROVE  IInv'
<1>1. Typed /\ Sorted /\ Lagging /\ Rebuilt /\ (inOrder => Live /\ Merged)
  BY DEF IInv
<1>2. Typed' /\ Lagging' /\ Rebuilt'
  BY <1>1, NextLags, NextRebuilt
<1>3. UNCHANGED <<locations, live, inOrder>>
  BY DEF EvaluateNext
<1>4. Sorted'
  BY <1>1, <1>3 DEF Sorted
<1>5. inOrder => Merged'
  BY <1>1, NextMerged
<1>6. Live => Live'
  BY <1>3 DEF Live, Begun, Chained, Near
<1> QED  BY <1>1, <1>2, <1>3, <1>4, <1>5, <1>6 DEF IInv

LEMMA CloseLingeringKeeps ==
  ASSUME IInv, CloseLingering
  PROVE  IInv'
<1>1. Typed /\ Sorted /\ Lagging /\ Rebuilt /\ (inOrder => Live /\ Merged)
  BY DEF IInv
<1>2. /\ pc = "loop" /\ next > Len(locations) /\ pc' = "done"
      /\ trips' = [i \in DOMAIN trips |->
                     IF i \in open THEN Close(trips[i], "COMPLETED") ELSE trips[i]]
      /\ open' = ActiveIn(trips')
      /\ UNCHANGED <<locations, inOrder, live, next>>
  BY DEF CloseLingering
<1>n. PICK n \in Nat : n = Len(trips) /\ DOMAIN trips = 1 .. n
  BY <1>1, Types
<1>3. \A i \in DOMAIN trips : Fine(trips[i]) /\ trips[i] \in Trip
  BY <1>1 DEF Typed, Fine
<1>4. ASSUME NEW i \in DOMAIN trips
      PROVE  /\ Fine(trips'[i]) /\ trips'[i] \in Trip /\ ~trips'[i].is_active
             /\ trips'[i].start_time = trips[i].start_time
             /\ trips'[i].end_time = trips[i].end_time
  <2>1. CASE i \in open
    <3>1. trips'[i] = Close(trips[i], "COMPLETED")
      BY <1>2, <2>1
    <3> QED  BY <1>3, <3>1, CloseIsFine DEF Fine
  <2>2. CASE i \notin open
    <3>1. trips'[i] = trips[i]
      BY <1>2, <2>2
    <3>2. i # n
      <4>1. trips # <<>>
        BY <1>n
      <4>2. open = {n}
        BY <1>1, <1>2, <1>n, <4>1 DEF Lagging
      <4> QED  BY <2>2, <4>2
    <3>3. ~trips[i].is_active
      BY <1>1, <1>n, <3>2 DEF Lagging
    <3> QED  BY <1>3, <3>1, <3>3
  <2> QED  BY <2>1, <2>2
<1>5. DOMAIN trips' = DOMAIN trips
  BY <1>2
<1>6. trips' \in Seq(Trip)
  <2>1. trips' \in [1 .. n -> Trip]
    BY <1>2, <1>4, <1>n
  <2> QED  BY <2>1
<1>7. open' = {}
  BY <1>2, <1>4, <1>5 DEF ActiveIn
<1>8. Typed'
  <2>1. next = Len(locations) + 1
    BY <1>1, <1>2, Types DEF Typed
  <2>2. /\ locations \in Seq(Coordinate) /\ inOrder \in BOOLEAN
        /\ live \in Seq(Trip) /\ \A j \in DOMAIN live : Fine(live[j])
        /\ next \in 1 .. Len(locations) + 1
    BY <1>1 DEF Typed
  <2>3. \A i \in DOMAIN trips' : Fine(trips'[i])
    BY <1>4, <1>5
  <2> QED  BY <1>2, <1>6, <2>1, <2>2, <2>3 DEF Typed
<1>9. Sorted'
  BY <1>1, <1>2 DEF Sorted
<1>10. Lagging'
  BY <1>2, <1>4, <1>5, <1>7 DEF Lagging
<1>11. Rebuilt'
  BY <1>1, <1>2, <1>4, <1>5 DEF Rebuilt, Done
<1>12. Live => Live'
  BY <1>2 DEF Live, Begun, Chained, Near
<1>13. Merged => Merged'
  BY <1>2, <1>4, <1>5 DEF Merged, Done, Within
<1> QED  BY <1>1, <1>2, <1>8, <1>9, <1>10, <1>11, <1>12, <1>13 DEF IInv

LEMMA StartRebuildKeeps ==
  ASSUME IInv, StartRebuild
  PROVE  IInv'
<1>1. Typed /\ Sorted /\ Lagging /\ Rebuilt /\ (inOrder => Live /\ Merged)
  BY DEF IInv
<1>2. /\ pc = "ingest" /\ pc' = "loop"
      /\ UNCHANGED <<locations, inOrder, live, trips, open, next>>
  BY DEF StartRebuild
<1>3. Typed'
  BY <1>1, <1>2 DEF Typed
<1>4. Sorted' /\ Lagging'
  BY <1>1, <1>2 DEF Sorted, Lagging
<1>5. Rebuilt'
  BY <1>1, <1>2 DEF Rebuilt, Done
<1>6. (Live => Live') /\ (Merged => Merged')
  BY <1>2 DEF Live, Begun, Chained, Near, Merged, Done, Within
<1> QED  BY <1>1, <1>2, <1>3, <1>4, <1>5, <1>6 DEF IInv

LEMMA StutterKeeps ==
  ASSUME IInv, UNCHANGED vars
  PROVE  IInv'
<1>1. Typed /\ Sorted /\ Lagging /\ Rebuilt /\ (inOrder => Live /\ Merged)
  BY DEF IInv
<1>2. UNCHANGED <<locations, inOrder, live, trips, open, next, pc>>
  BY DEF vars
<1>3. Typed'
  BY <1>1, <1>2 DEF Typed
<1>4. Sorted' /\ Lagging'
  BY <1>1, <1>2 DEF Sorted, Lagging
<1>5. Rebuilt'
  BY <1>1, <1>2 DEF Rebuilt, Done
<1>6. (Live => Live') /\ (Merged => Merged')
  BY <1>2 DEF Live, Begun, Chained, Near, Merged, Done, Within
<1> QED  BY <1>1, <1>2, <1>3, <1>4, <1>5, <1>6 DEF IInv

-----------------------------------------------------------------------------
(***************************************************************************)
(* A packet is stored and evaluated.                                       *)
(***************************************************************************)
LEMMA Joined ==
  ASSUME NEW S, NEW s \in Seq(S), NEW t \in Seq(S)
  PROVE  /\ s \o t \in Seq(S) /\ Len(s \o t) = Len(s) + Len(t)
         /\ \A i \in 1 .. Len(s) + Len(t) :
              (s \o t)[i] = IF i <= Len(s) THEN s[i] ELSE t[i - Len(s)]
OBVIOUS

Insert(s, p, n) == SubSeq(s, 1, n) \o <<p>> \o SubSeq(s, n + 1, Len(s))

LEMMA Inserted ==
  ASSUME NEW S, NEW s \in Seq(S), NEW p \in S, NEW n \in 0 .. Len(s),
         NEW after, after = Insert(s, p, n)
  PROVE  /\ after \in Seq(S) /\ Len(after) = Len(s) + 1 /\ DOMAIN after = 1 .. Len(s) + 1
         /\ \A i \in 1 .. n : after[i] = s[i]
         /\ after[n + 1] = p
         /\ \A i \in n + 2 .. Len(s) + 1 : after[i] = s[i - 1]
<1>l. PICK l \in Nat : l = Len(s)
  OBVIOUS
<1>0. n \in Nat /\ n <= l /\ l - n \in Nat
  BY <1>l
<1>a. PICK a : a = SubSeq(s, 1, n)
  OBVIOUS
<1>b. PICK b : b = SubSeq(s, n + 1, l)
  OBVIOUS
<1>1. a \in Seq(S) /\ Len(a) = n /\ \A i \in 1 .. n : a[i] = s[i]
  BY <1>l, <1>a
<1>2. b \in Seq(S) /\ Len(b) = l - n /\ \A i \in 1 .. l - n : b[i] = s[n + i]
  BY <1>l, <1>b
<1>c. PICK c : c = a \o <<p>>
  OBVIOUS
<1>3. c \in Seq(S) /\ Len(c) = n + 1 /\ \A i \in 1 .. n + 1 : c[i] = IF i <= n THEN s[i] ELSE p
  BY <1>1, <1>c
<1>4. after = c \o b
  BY <1>a, <1>b, <1>c, <1>l DEF Insert
<1>5. /\ after \in Seq(S) /\ Len(after) = n + 1 + (l - n)
      /\ \A i \in 1 .. n + 1 + (l - n) :
           after[i] = IF i <= n + 1 THEN c[i] ELSE b[i - (n + 1)]
  <2>1. /\ c \o b \in Seq(S) /\ Len(c \o b) = Len(c) + Len(b)
        /\ \A i \in 1 .. Len(c) + Len(b) :
             (c \o b)[i] = IF i <= Len(c) THEN c[i] ELSE b[i - Len(c)]
    <3>1. c \in Seq(S) /\ b \in Seq(S)
      BY <1>2, <1>3
    <3> QED  BY <3>1, Joined
  <2>2. Len(c) = n + 1 /\ Len(b) = l - n
    BY <1>2, <1>3
  <2> QED  BY <1>4, <2>1, <2>2
<1>6. n + 1 + (l - n) = l + 1
  BY <1>0
<1>7. ASSUME NEW i \in 1 .. l + 1
      PROVE  after[i] = IF i <= n THEN s[i] ELSE IF i = n + 1 THEN p ELSE s[i - 1]
  <2>0. after[i] = IF i <= n + 1 THEN c[i] ELSE b[i - (n + 1)]
    BY <1>5, <1>6
  <2>1. CASE i <= n + 1
    <3>1. i \in 1 .. n + 1 /\ (i <= n \/ i = n + 1) /\ ~(n + 1 <= n)
      BY <1>0, <2>1
    <3>2. c[i] = IF i <= n THEN s[i] ELSE p
      BY <1>3, <3>1
    <3> QED  BY <2>0, <2>1, <3>1, <3>2
  <2>2. CASE ~(i <= n + 1)
    <3>1. after[i] = b[i - (n + 1)]
      BY <2>0, <2>2
    <3>2. i - (n + 1) \in 1 .. l - n /\ n + (i - (n + 1)) = i - 1
      BY <1>0, <2>2
    <3>3. ~(i <= n) /\ i # n + 1
      BY <1>0, <2>2
    <3> QED  BY <1>2, <3>1, <3>2, <3>3
  <2> QED  BY <2>1, <2>2
<1>8. DOMAIN after = 1 .. Len(after)
  BY <1>5
<1>9. /\ \A i \in 1 .. n : after[i] = s[i]
      /\ after[n + 1] = p
      /\ \A i \in n + 2 .. l + 1 : after[i] = s[i - 1]
  <2>1. /\ \A i \in 1 .. n : i \in 1 .. l + 1
        /\ n + 1 \in 1 .. l + 1 /\ ~(n + 1 <= n)
        /\ \A i \in n + 2 .. l + 1 : i \in 1 .. l + 1 /\ ~(i <= n) /\ i # n + 1
    BY <1>0
  <2> QED  BY <1>7, <2>1
<1> QED  BY <1>l, <1>5, <1>6, <1>8, <1>9

LEMMA LiveGrows ==
  ASSUME Typed, Sorted, Live, NEW p \in Coordinate,
         \A k \in DOMAIN locations : locations[k].ts <= p.ts,
         NEW new, Outcome(live, ActiveIn(live), p, new)
  PROVE  /\ new \in Seq(Trip)
         /\ \A j \in DOMAIN new : Fine(new[j]) /\ new[j].end_time \in Nat
         /\ \A j \in DOMAIN live :
              /\ j \in DOMAIN new /\ new[j].start_time = live[j].start_time
              /\ live[j].end_time <= new[j].end_time
              /\ \/ new[j].end_time = live[j].end_time
                 \/ /\ new[j].end_time = p.ts /\ p.ts - live[j].end_time <= GapTimeout
                    /\ live[j].end_time = locations[Len(locations)].ts
              /\ new[j].is_active => j = Len(new) /\ new[j].end_time = p.ts
         /\ \A j \in DOMAIN new : j \notin DOMAIN live =>
              j = Len(new) /\ Starts(p) /\ new[j] = NewTrip(p)
         /\ Starts(p) =>
              \/ \E j \in DOMAIN new : new[j].start_time = p.ts
              \/ \E j \in DOMAIN live : /\ p.ts - live[j].end_time <= GapTimeout
                                        /\ live[j].end_time = locations[Len(locations)].ts
<1>s. PICK selected : selected = ActiveIn(live)
  OBVIOUS
<1>1. /\ new \in Seq(Trip) /\ \A j \in DOMAIN new : Fine(new[j]) /\ new[j].end_time \in Nat
  BY DEF Outcome, Fine, Trip
<1>n. PICK n \in Nat : n = Len(live) /\ DOMAIN live = 1 .. n
  BY Types
<1>m. PICK m \in Nat : m = Len(new) /\ DOMAIN new = 1 .. m
  BY <1>1
<1>2. /\ p.ts \in Nat /\ GapTimeout \in Nat
      /\ \A j \in DOMAIN live : /\ live[j].end_time \in Nat
                                /\ live[j].start_time <= live[j].end_time
  BY CoordinateType, Constants, Types
<1>3. \A j \in DOMAIN live : live[j].end_time <= p.ts
  BY DEF Live
<1>4. \A j \in selected : /\ j \in DOMAIN live /\ j = n
                          /\ live[j].end_time = locations[Len(locations)].ts
  BY <1>s, <1>n DEF ActiveIn, Live
<1>5. /\ \A j \in DOMAIN live : /\ j \in DOMAIN new
                                /\ new[j].start_time = live[j].start_time
                                /\ new[j].is_active => live[j].is_active
                                /\ j \notin selected => new[j] = live[j]
      /\ m = n + 1 \/ m = n
  BY <1>s, <1>n, <1>m DEF Outcome
<1>6. ASSUME NEW j \in selected
      PROVE  \/ /\ new[j].end_time = live[j].end_time
                /\ ~new[j].is_active \/ (p.ts = live[j].end_time /\ m = n)
             \/ /\ new[j].end_time = p.ts /\ p.ts - live[j].end_time <= GapTimeout /\ m = n
  <2>1. j \in DOMAIN live
    BY <1>4
  <2>2. m = n + 1 => /\ new[j].end_time = live[j].end_time /\ ~new[j].is_active
    <3>1. n + 1 # n
      OBVIOUS
    <3> QED  BY <1>s, <1>n, <1>m, <1>6, <3>1 DEF Outcome
  <2>3. CASE m = n
    <3>0. n + 1 # n
      OBVIOUS
    <3>1. \/ Late(live[j], p) /\ new[j] = live[j]
          \/ new[j].end_time = live[j].end_time /\ ~new[j].is_active
          \/ InTime(live[j], p) /\ new[j].end_time = p.ts
      BY <1>s, <1>n, <1>m, <1>6, <2>3, <3>0 DEF Outcome
    <3>2. Late(live[j], p) => p.ts = live[j].end_time
      BY <1>2, <1>3, <2>1 DEF Late
    <3>3. InTime(live[j], p) => p.ts - live[j].end_time <= GapTimeout
      BY <1>2, <2>1 DEF InTime, AfterGap
    <3> QED  BY <2>3, <3>1, <3>2, <3>3
  <2> QED  BY <1>5, <2>2, <2>3
<1>7. ASSUME NEW j \in DOMAIN live
      PROVE  /\ live[j].end_time <= new[j].end_time
             /\ \/ new[j].end_time = live[j].end_time
                \/ /\ new[j].end_time = p.ts /\ p.ts - live[j].end_time <= GapTimeout
                   /\ live[j].end_time = locations[Len(locations)].ts
             /\ new[j].is_active => j = m /\ new[j].end_time = p.ts
  <2>1. CASE j \in selected
    BY <1>2, <1>3, <1>4, <1>6, <2>1
  <2>2. CASE j \notin selected
    <3>1. new[j] = live[j] /\ ~live[j].is_active
      BY <1>s, <1>5, <2>2 DEF ActiveIn
    <3> QED  BY <1>2, <3>1
  <2> QED  BY <2>1, <2>2
<1>8. ASSUME NEW j \in DOMAIN new, j \notin DOMAIN live
      PROVE  j = m /\ Starts(p) /\ new[j] = NewTrip(p)
  <2>1. j = n + 1 /\ m = n + 1 /\ n + 1 # n
    BY <1>n, <1>m, <1>5, <1>8
  <2> QED  BY <1>n, <1>m, <2>1 DEF Outcome
<1>9. ASSUME Starts(p)
      PROVE  \/ \E j \in DOMAIN new : new[j].start_time = p.ts
             \/ \E j \in DOMAIN live : /\ p.ts - live[j].end_time <= GapTimeout
                                       /\ live[j].end_time = locations[Len(locations)].ts
  <2>1. CASE m = n + 1
    <3>1. m \in DOMAIN new /\ n + 1 # n
      BY <1>m, <2>1
    <3>2. new[m] = NewTrip(p)
      BY <1>n, <1>m, <2>1, <3>1 DEF Outcome
    <3>3. new[m].start_time = p.ts
      BY <3>2, NewTripIsFine
    <3> QED  BY <3>1, <3>3
  <2>2. CASE m = n
    <3>0. n + 1 # n
      OBVIOUS
    <3>1. selected # {}
      BY <1>s, <1>n, <1>m, <1>9, <2>2, <3>0 DEF Outcome
    <3>2. PICK j \in selected : TRUE
      BY <3>1
    <3>3. \/ Late(live[j], p) \/ InTime(live[j], p)
      BY <1>s, <1>n, <1>m, <1>9, <2>2, <3>0 DEF Outcome
    <3>4. j \in DOMAIN live /\ live[j].end_time = locations[Len(locations)].ts
      BY <1>4
    <3>5. p.ts - live[j].end_time <= GapTimeout
      BY <1>2, <3>3, <3>4 DEF Late, InTime, AfterGap
    <3> QED  BY <3>4, <3>5
  <2> QED  BY <1>5, <2>1, <2>2
<1> QED  BY <1>1, <1>m, <1>5, <1>7, <1>8, <1>9

LEMMA LiveStays ==
  ASSUME Typed, Sorted, Live, NEW p \in Coordinate,
         \A k \in DOMAIN locations : locations[k].ts <= p.ts,
         NEW after, DOMAIN after = 1 .. Len(locations) + 1, Len(after) = Len(locations) + 1,
         \A k \in DOMAIN locations : after[k] = locations[k],
         after[Len(locations) + 1] = p,
         NEW new, Outcome(live, ActiveIn(live), p, new),
         locations' = after, live' = new
  PROVE  Live'
<1>n. PICK n \in Nat : n = Len(locations) /\ DOMAIN locations = 1 .. n
  BY Types
<1>1. /\ new \in Seq(Trip)
      /\ \A j \in DOMAIN new : Fine(new[j]) /\ new[j].end_time \in Nat
      /\ \A j \in DOMAIN live :
           /\ j \in DOMAIN new /\ new[j].start_time = live[j].start_time
           /\ live[j].end_time <= new[j].end_time
           /\ \/ new[j].end_time = live[j].end_time
              \/ /\ new[j].end_time = p.ts /\ p.ts - live[j].end_time <= GapTimeout
                 /\ live[j].end_time = locations[n].ts
           /\ new[j].is_active => j = Len(new) /\ new[j].end_time = p.ts
      /\ \A j \in DOMAIN new : j \notin DOMAIN live =>
           j = Len(new) /\ Starts(p) /\ new[j] = NewTrip(p)
      /\ Starts(p) =>
           \/ \E j \in DOMAIN new : new[j].start_time = p.ts
           \/ \E j \in DOMAIN live : /\ p.ts - live[j].end_time <= GapTimeout
                                     /\ live[j].end_time = locations[n].ts
  BY <1>n, LiveGrows
<1>2. /\ p.ts \in Nat /\ GapTimeout \in Nat
      /\ \A k \in DOMAIN locations : locations[k].ts \in Nat
      /\ \A j \in DOMAIN live : /\ live[j].start_time \in Nat /\ live[j].end_time \in Nat
                                /\ live[j].start_time <= live[j].end_time
  BY CoordinateType, Constants, Types
<1>3. /\ DOMAIN after = 1 .. n + 1 /\ Len(after) = n + 1 /\ after[n + 1] = p
      /\ \A k \in DOMAIN locations : k \in DOMAIN after /\ after[k] = locations[k] /\ k <= n
      /\ \A k \in DOMAIN after : k \in DOMAIN locations \/ k = n + 1
      /\ n + 1 \in DOMAIN after
  BY <1>n
\* the trip that ended last lies on the last location
<1>4. ASSUME NEW j \in DOMAIN live
      PROVE  /\ Begun(j) /\ Chained(j)
             /\ \E h \in DOMAIN locations : live[j].end_time = locations[h].ts
  BY DEF Live
<1>5. ASSUME NEW j \in DOMAIN new, j \notin DOMAIN live
      PROVE  Starts(p) /\ new[j].start_time = p.ts /\ new[j].end_time = p.ts
  BY <1>1, <1>5, NewTripIsFine
<1>6. ASSUME NEW j \in DOMAIN new
      PROVE  \E k \in DOMAIN after : Starts(after[k]) /\ after[k].ts = new[j].start_time
  <2>1. CASE j \in DOMAIN live
    <3>1. PICK k \in DOMAIN locations :
            Starts(locations[k]) /\ locations[k].ts = live[j].start_time
      BY <1>4, <2>1 DEF Begun
    <3> QED  BY <1>1, <1>3, <2>1, <3>1
  <2>2. CASE j \notin DOMAIN live
    BY <1>3, <1>5, <2>2
  <2> QED  BY <2>1, <2>2
<1>7. ASSUME NEW j \in DOMAIN new
      PROVE  \E k \in DOMAIN after : new[j].end_time = after[k].ts
  <2>1. CASE j \in DOMAIN live
    BY <1>1, <1>3, <1>4, <2>1
  <2>2. CASE j \notin DOMAIN live
    BY <1>3, <1>5, <2>2
  <2> QED  BY <2>1, <2>2
<1>8. ASSUME NEW j \in DOMAIN new, NEW k \in DOMAIN after,
             new[j].start_time < after[k].ts, after[k].ts <= new[j].end_time
      PROVE  \E h \in DOMAIN after : /\ h < k /\ new[j].start_time <= after[h].ts
                                     /\ after[k].ts - after[h].ts <= GapTimeout
  <2>1. j \in DOMAIN live
    <3>1. ASSUME j \notin DOMAIN live PROVE FALSE
      <4>1. new[j].start_time = p.ts /\ new[j].end_time = p.ts /\ after[k].ts \in Nat
        BY <1>2, <1>3, <1>5, <3>1
      <4> QED  BY <1>2, <1>8, <4>1
    <3> QED  BY <3>1
  <2>2. new[j].start_time = live[j].start_time
    BY <1>1, <2>1
  <2>3. CASE k \in DOMAIN locations
    <3>1. after[k] = locations[k]
      BY <1>3, <2>3
    <3>2. locations[k].ts <= live[j].end_time
      <4>1. CASE new[j].end_time = live[j].end_time
        BY <1>8, <3>1, <4>1
      <4>2. CASE live[j].end_time = locations[n].ts
        <5>1. k \in 1 .. n /\ n \in DOMAIN locations
          BY <1>n, <2>3
        <5>2. k = n \/ locations[k].ts <= locations[n].ts
          BY <1>n, <5>1 DEF Sorted
        <5>3. locations[n].ts \in Nat
          BY <1>2, <5>1
        <5> QED  BY <4>2, <5>2, <5>3
      <4> QED  BY <1>1, <2>1, <4>1, <4>2
    <3>3. PICK h \in DOMAIN locations : /\ h < k /\ live[j].start_time <= locations[h].ts
                                        /\ locations[k].ts - locations[h].ts <= GapTimeout
      BY <1>4, <1>8, <2>1, <2>2, <2>3, <3>1, <3>2 DEF Chained
    <3> QED  BY <1>3, <2>2, <3>1, <3>3
  <2>4. CASE k = n + 1
    <3>1. after[k] = p
      BY <1>3, <2>4
    <3>2. PICK h \in DOMAIN locations : live[j].end_time = locations[h].ts
      BY <1>4, <2>1
    <3>3. h < k /\ h \in DOMAIN after /\ after[h] = locations[h]
      BY <1>n, <1>3, <2>4
    <3>4. live[j].start_time <= locations[h].ts
      BY <1>2, <2>1, <3>2
    <3>5. p.ts - locations[h].ts <= GapTimeout
      <4>1. CASE new[j].end_time = live[j].end_time
        <5>1. locations[h].ts <= p.ts /\ p.ts <= locations[h].ts /\ locations[h].ts \in Nat
          BY <1>2, <1>8, <3>1, <3>2, <4>1
        <5> QED  BY <1>2, <5>1
      <4>2. CASE p.ts - live[j].end_time <= GapTimeout
        BY <3>2, <4>2
      <4> QED  BY <1>1, <2>1, <4>1, <4>2
    <3> QED  BY <2>2, <3>1, <3>3, <3>4, <3>5
  <2> QED  BY <1>3, <2>3, <2>4
<1>9. ASSUME NEW j \in DOMAIN new, new[j].is_active
      PROVE  j = Len(new) /\ new[j].end_time = after[Len(after)].ts
  <2>1. CASE j \in DOMAIN live
    BY <1>1, <1>3, <1>9, <2>1
  <2>2. CASE j \notin DOMAIN live
    BY <1>1, <1>3, <1>5, <2>2
  <2> QED  BY <2>1, <2>2
<1>10. ASSUME NEW k \in DOMAIN after, Starts(after[k])
       PROVE  \/ \E j \in DOMAIN new : new[j].start_time = after[k].ts
              \/ \E h \in DOMAIN after : \E j \in DOMAIN new :
                   /\ h < k /\ after[k].ts - after[h].ts <= GapTimeout
                   /\ new[j].start_time <= after[h].ts /\ after[h].ts <= new[j].end_time
  <2>1. CASE k \in DOMAIN locations
    <3>1. after[k] = locations[k] /\ Starts(locations[k])
      BY <1>3, <1>10, <2>1
    <3>2. CASE \E j \in DOMAIN live : live[j].start_time = locations[k].ts
      BY <1>1, <3>1, <3>2
    <3>3. CASE Near(k)
      <4>1. PICK h \in DOMAIN locations, j \in DOMAIN live :
              /\ h < k /\ locations[k].ts - locations[h].ts <= GapTimeout
              /\ live[j].start_time <= locations[h].ts
              /\ locations[h].ts <= live[j].end_time
        BY <3>3 DEF Near
      <4>2. /\ j \in DOMAIN new /\ new[j].start_time = live[j].start_time
            /\ live[j].end_time <= new[j].end_time
        BY <1>1
      <4>3. locations[h].ts <= new[j].end_time
        <5>1. /\ new[j].end_time \in Nat /\ live[j].end_time \in Nat
              /\ locations[h].ts \in Nat
          BY <1>1, <1>2, <4>2
        <5> QED  BY <4>1, <4>2, <5>1
      <4>4. h \in DOMAIN after /\ after[h] = locations[h]
        BY <1>3
      <4> QED  BY <3>1, <4>1, <4>2, <4>3, <4>4
    <3> QED  BY <2>1, <3>1, <3>2, <3>3 DEF Live
  <2>2. CASE k = n + 1
    <3>1. after[k] = p
      BY <1>3, <2>2
    <3>2. CASE \E j \in DOMAIN new : new[j].start_time = p.ts
      BY <3>1, <3>2
    <3>3. CASE \E j \in DOMAIN live : /\ p.ts - live[j].end_time <= GapTimeout
                                      /\ live[j].end_time = locations[n].ts
      <4>1. PICK j \in DOMAIN live : /\ p.ts - live[j].end_time <= GapTimeout
                                     /\ live[j].end_time = locations[n].ts
        BY <3>3
      <4>2. PICK h \in DOMAIN locations : live[j].end_time = locations[h].ts
        BY <1>4
      <4>3. h < k /\ h \in DOMAIN after /\ after[h] = locations[h]
        BY <1>n, <1>3, <2>2
      <4>4. /\ j \in DOMAIN new /\ new[j].start_time <= locations[h].ts
            /\ locations[h].ts <= new[j].end_time
        <5>1. /\ j \in DOMAIN new /\ new[j].start_time = live[j].start_time
              /\ live[j].end_time <= new[j].end_time
          BY <1>1
        <5> QED  BY <1>2, <4>2, <5>1
      <4> QED  BY <3>1, <4>1, <4>2, <4>3, <4>4
    <3> QED  BY <1>1, <1>10, <3>1, <3>2, <3>3
  <2> QED  BY <1>3, <2>1, <2>2
<1> QED  BY <1>6, <1>7, <1>8, <1>9, <1>10 DEF Live, Begun, Chained, Near

LEMMA IngestKeeps ==
  ASSUME IInv, NEW p \in Coordinate, NEW n \in Places(p), Ingest(p, n)
  PROVE  IInv'
<1>1. Typed /\ Sorted /\ Lagging /\ Rebuilt /\ (inOrder => Live /\ Merged)
  BY DEF IInv
<1>l. PICK l \in Nat : l = Len(locations) /\ DOMAIN locations = 1 .. l
  BY <1>1, Types
<1>a. PICK after : after = Insert(locations, p, n)
  OBVIOUS
<1>2. /\ pc = "ingest" /\ locations' = after /\ inOrder' = (inOrder /\ n = l)
      /\ UNCHANGED <<trips, open, next, pc>>
  BY <1>a, <1>l DEF Ingest, Insert
<1>3. /\ n \in 0 .. l
      /\ \A m \in 1 .. n : locations[m].ts <= p.ts
      /\ \A m \in n + 1 .. l : p.ts <= locations[m].ts
  BY <1>l DEF Places
<1>4. /\ after \in Seq(Coordinate) /\ Len(after) = l + 1 /\ DOMAIN after = 1 .. l + 1
      /\ \A i \in 1 .. n : after[i] = locations[i]
      /\ after[n + 1] = p
      /\ \A i \in n + 2 .. l + 1 : after[i] = locations[i - 1]
  <2>0. p \in Coordinate
    OBVIOUS
  <2>1. locations \in Seq(Coordinate) /\ n \in 0 .. Len(locations)
    BY <1>1, <1>3, <1>l DEF Typed
  <2>2. after \in Seq(Coordinate) /\ Len(after) = Len(locations) + 1
    BY <1>a, <2>0, <2>1, Inserted
  <2>4. DOMAIN after = 1 .. Len(locations) + 1
    BY <2>2
  <2>3. \A i \in 1 .. n : after[i] = locations[i]
    BY <1>a, <2>0, <2>1, Inserted
  <2>5. after[n + 1] = p
    BY <1>a, <2>0, <2>1, Inserted
  <2>6. \A i \in n + 2 .. Len(locations) + 1 : after[i] = locations[i - 1]
    BY <1>a, <2>0, <2>1, Inserted
  <2> QED  BY <1>l, <2>2, <2>3, <2>4, <2>5, <2>6
<1>5. trips = <<>> /\ next = 1
  BY <1>1, <1>2 DEF Typed
<1>6. Sorted'
  <2>1. ASSUME NEW i \in 1 .. l + 1, NEW j \in 1 .. l + 1, i < j
        PROVE  after[i].ts <= after[j].ts
    <3>1. n \in Nat /\ n <= l
      BY <1>3
    <3>2. \A a, b \in 1 .. l : a < b => locations[a].ts <= locations[b].ts
      BY <1>1, <1>l DEF Sorted
    <3>3. CASE j <= n
      <4>1. after[i] = locations[i] /\ after[j] = locations[j] /\ i \in 1 .. l /\ j \in 1 .. l
        BY <1>4, <2>1, <3>1, <3>3
      <4> QED  BY <2>1, <3>2, <4>1
    <3>4. CASE j = n + 1
      <4>1. after[i] = locations[i] /\ after[j] = p /\ i \in 1 .. n
        BY <1>4, <2>1, <3>1, <3>4
      <4> QED  BY <1>3, <4>1
    <3>5. CASE j > n + 1 /\ i = n + 1
      <4>1. after[i] = p /\ after[j] = locations[j - 1] /\ j - 1 \in n + 1 .. l
        BY <1>4, <2>1, <3>1, <3>5
      <4> QED  BY <1>3, <4>1
    <3>6. CASE j > n + 1 /\ i < n + 1
      <4>1. /\ after[i] = locations[i] /\ after[j] = locations[j - 1]
            /\ i \in 1 .. l /\ j - 1 \in 1 .. l /\ i < j - 1
        BY <1>4, <2>1, <3>1, <3>6
      <4> QED  BY <3>2, <4>1
    <3>7. CASE j > n + 1 /\ i > n + 1
      <4>1. /\ after[i] = locations[i - 1] /\ after[j] = locations[j - 1]
            /\ i - 1 \in 1 .. l /\ j - 1 \in 1 .. l /\ i - 1 < j - 1
        BY <1>4, <2>1, <3>1, <3>7
      <4> QED  BY <3>2, <4>1
    <3> QED  BY <3>1, <3>3, <3>4, <3>5, <3>6, <3>7
  <2> QED  BY <1>2, <1>4, <2>1 DEF Sorted
<1>7. ASSUME inOrder /\ n = l PROVE Typed' /\ Live'
  <2>1. Live /\ Merged
    BY <1>1, <1>7
  <2>2. PICK moving : live' = Evaluated(live, ActiveIn(live), p, moving)
    BY <1>7, <1>a, <1>l DEF Ingest, Insert
  <2>new. PICK new : new = Evaluated(live, ActiveIn(live), p, moving)
    OBVIOUS
  <2>3. live \in Seq(Trip) /\ \A j \in DOMAIN live : Fine(live[j])
    BY <1>1 DEF Typed
  <2>4. ActiveIn(live) \subseteq {Len(live)} /\ ActiveIn(live) \subseteq DOMAIN live
    BY <2>1 DEF ActiveIn, Live
  <2>s. PICK selected : selected = ActiveIn(live)
    OBVIOUS
  <2>5. Outcome(live, selected, p, new)
    BY <2>new, <2>s, <2>3, <2>4, EvaluatedOutcome
  <2>6. new \in Seq(Trip) /\ \A j \in DOMAIN new : Fine(new[j])
    BY <2>5 DEF Outcome
  <2>7. Typed'
    <3>1. live' = new
      BY <2>2, <2>new
    <3>2. next \in 1 .. Len(after) + 1
      BY <1>4, <1>5
    <3> QED  BY <1>1, <1>2, <1>4, <1>5, <2>6, <3>1, <3>2 DEF Typed
  <2>8. Live'
    <3>1. \A k \in DOMAIN locations : locations[k].ts <= p.ts
      BY <1>3, <1>7, <1>l
    <3>2. \A k \in DOMAIN locations : after[k] = locations[k]
      BY <1>4, <1>7, <1>l
    <3>3. after[Len(locations) + 1] = p
      BY <1>4, <1>7, <1>l
    <3>4. DOMAIN after = 1 .. Len(locations) + 1 /\ Len(after) = Len(locations) + 1
      BY <1>4, <1>l
    <3>5. locations' = after /\ live' = new /\ Outcome(live, ActiveIn(live), p, new)
      BY <1>2, <2>2, <2>new, <2>s, <2>5
    <3>6. Typed /\ Sorted /\ Live /\ p \in Coordinate
      BY <1>1, <2>1
    <3> QED  BY ONLY <3>1, <3>2, <3>3, <3>4, <3>5, <3>6, LiveStays
  <2> QED  BY <2>7, <2>8
<1>8. ASSUME ~(inOrder /\ n = l) PROVE Typed' /\ ~inOrder'
  <2>1. live' = <<>>
    BY <1>8, <1>l DEF Ingest
  <2>2. next \in 1 .. Len(after) + 1
    BY <1>4, <1>5
  <2>3. inOrder' \in BOOLEAN
    BY <1>1, <1>2
  <2>4. Typed'
    BY <1>1, <1>2, <1>4, <1>5, <2>1, <2>2, <2>3 DEF Typed
  <2>5. ~inOrder'
    BY <1>2, <1>8
  <2> QED  BY <2>4, <2>5
<1>9. Typed' /\ (inOrder' => Live')
  <2>1. CASE inOrder /\ n = l
    BY <1>7, <2>1
  <2>2. CASE ~(inOrder /\ n = l)
    BY <1>8, <2>2
  <2> QED  BY <2>1, <2>2
<1>10. Lagging' /\ Rebuilt' /\ Merged'
  <2>1. trips' = <<>> /\ next' = 1 /\ DOMAIN trips' = {} /\ 1 .. next' - 1 = {}
    BY <1>2, <1>5
  <2>2. Lagging'
    BY <1>1, <1>2, <1>5 DEF Lagging
  <2>3. Rebuilt'
    BY <2>1 DEF Rebuilt, Done
  <2>4. Merged'
    BY <2>1 DEF Merged, Done
  <2> QED  BY <2>2, <2>3, <2>4
<1> QED  BY <1>6, <1>9, <1>10 DEF IInv

LEMMA InitHolds == Init => IInv
<1> SUFFICES ASSUME Init PROVE IInv
  OBVIOUS
<1>1. /\ locations = <<>> /\ inOrder = TRUE /\ live = <<>> /\ trips = <<>>
      /\ open = {} /\ next = 1 /\ pc = "ingest"
      /\ DOMAIN locations = {} /\ DOMAIN live = {} /\ DOMAIN trips = {} /\ 1 .. next - 1 = {}
  BY DEF Init
<1>2. Typed
  BY <1>1 DEF Typed
<1>3. Sorted /\ Lagging
  BY <1>1 DEF Sorted, Lagging
<1>4. Rebuilt /\ Live /\ Merged
  BY <1>1 DEF Rebuilt, Live, Merged, Done
<1> QED  BY <1>2, <1>3, <1>4 DEF IInv

(***************************************************************************)
(* The inductive invariant of a rebuild.                                   *)
(***************************************************************************)
THEOREM RebuildInvariant == Spec => []IInv
<1>1. Init => IInv
  BY InitHolds
<1>2. IInv /\ [Next]_vars => IInv'
  <2> SUFFICES ASSUME IInv, [Next]_vars PROVE IInv'
    OBVIOUS
  <2>1. CASE \E p \in Coordinate : \E n \in Places(p) : Ingest(p, n)
    BY <2>1, IngestKeeps
  <2>2. CASE StartRebuild
    BY <2>2, StartRebuildKeeps
  <2>3. CASE EvaluateNext
    BY <2>3, EvaluateNextKeeps
  <2>4. CASE CloseLingering
    BY <2>4, CloseLingeringKeeps
  <2>5. CASE UNCHANGED vars
    BY <2>5, StutterKeeps
  <2> QED  BY <2>1, <2>2, <2>3, <2>4, <2>5 DEF Next
<1> QED  BY <1>1, <1>2, PTL DEF Spec

-----------------------------------------------------------------------------
(***************************************************************************)
(* The select of _get_active_trip sees the rows of the last flush: what it *)
(* returns is the newest trip, the only one that may be active, so that    *)
(* the loop neither loses an active trip nor leaves one open.              *)
(***************************************************************************)
THEOREM NoTripIsLost == Spec => []NothingLeftOpen
<1>1. ASSUME IInv PROVE NothingLeftOpen
  <2>1. Typed /\ Lagging
    BY <1>1 DEF IInv
  <2>n. PICK n \in Nat : n = Len(trips) /\ DOMAIN trips = 1 .. n
    BY <2>1, Types
  <2>2. trips # <<>> => n \in DOMAIN trips
    BY <2>1, <2>n DEF Typed
  <2>3. open \subseteq {n} /\ open \subseteq DOMAIN trips
    BY <2>1, <2>2, <2>n DEF Lagging, Typed
  <2>4. TypeOK
    BY <2>1, <2>3 DEF TypeOK, Typed
  <2>5. \A i \in DOMAIN trips : trips[i].is_active => i \in open
    <3> TAKE i \in DOMAIN trips
    <3> HAVE trips[i].is_active
    <3>1. i = n /\ pc # "done" /\ trips # <<>>
      BY <2>1, <2>n DEF Lagging
    <3> QED  BY <2>1, <2>n, <3>1 DEF Lagging
  <2>6. ActiveIn(trips) \subseteq open
    BY <2>5 DEF ActiveIn
  <2>7. ASSUME pc = "done" PROVE open = {} /\ \A i \in DOMAIN trips : trips[i].status # "ACTIVE"
    <3>1. \A i \in DOMAIN trips : ~trips[i].is_active /\ Fine(trips[i])
      BY <2>1, <2>7 DEF Lagging, Typed
    <3> QED  BY <2>1, <2>7, <3>1 DEF Lagging, Fine
  <2> QED  BY <2>3, <2>4, <2>6, <2>7, <2>n DEF NothingLeftOpen
<1> QED  BY <1>1, RebuildInvariant, PTL

(***************************************************************************)
(* In whatever order the locations were stored, rebuild_vehicle_trips      *)
(* makes trips of them that follow each other without overlap and leave no *)
(* location out at which the vehicle moves.                                *)
(***************************************************************************)
THEOREM RebuiltTripsFollowEachOther == Spec => []RebuiltHistory
<1>1. ASSUME IInv PROVE RebuiltHistory
  <2>1. Typed /\ Rebuilt
    BY <1>1 DEF IInv
  <2>2. ASSUME NEW i \in DOMAIN trips, NEW j \in DOMAIN trips, i < j
        PROVE  trips[i].end_time < trips[j].start_time
    <3>1. trips[j].start_time - trips[i].end_time > GapTimeout
      BY <2>1, <2>2 DEF Rebuilt
    <3>2. trips[j].start_time \in Nat /\ trips[i].end_time \in Nat /\ GapTimeout \in Nat
      BY <2>1, Types, Constants
    <3> QED  BY <3>1, <3>2
  <2>3. ASSUME NEW n \in 1 .. next - 1, locations[n].speed >= StartSpeed
        PROVE  \E i \in DOMAIN trips : /\ trips[i].start_time <= locations[n].ts
                                       /\ locations[n].ts <= trips[i].end_time
    <3>1. Starts(locations[n])
      BY <2>3 DEF Starts
    <3> QED  BY <2>1, <3>1 DEF Rebuilt, Done
  <2> QED  BY <2>2, <2>3 DEF RebuiltHistory
<1> QED  BY <1>1, RebuildInvariant, PTL

(***************************************************************************)
(* Of locations that arrived in order, a rebuild makes the trips that live *)
(* evaluation made of them, some of them merged: a live trip that an       *)
(* ignition or a timeout ended goes on in the rebuild, whose select still  *)
(* returns it, until a gap ends it.                                        *)
(***************************************************************************)
THEOREM ARebuildOnlyMerges == Spec => []RebuildMergesLive
<1>1. ASSUME IInv PROVE RebuildMergesLive
  <2> SUFFICES ASSUME pc = "done", inOrder
               PROVE  /\ \A i \in DOMAIN trips : \E j \in DOMAIN live :
                           live[j].start_time = trips[i].start_time
                      /\ \A j \in DOMAIN live : \E i \in DOMAIN trips :
                           /\ trips[i].start_time <= live[j].start_time
                           /\ live[j].end_time <= trips[i].end_time
    BY DEF RebuildMergesLive
  <2>1. Typed /\ Live /\ Merged
    BY <1>1 DEF IInv
  <2>2. \A n \in DOMAIN locations : n \in Done
    <3>1. next = Len(locations) + 1 /\ Len(locations) \in Nat
          /\ DOMAIN locations = 1 .. Len(locations)
      BY <2>1, Types DEF Typed
    <3> QED  BY <3>1 DEF Done
  <2>3. ASSUME NEW j \in DOMAIN live
        PROVE  \E i \in DOMAIN trips : /\ trips[i].start_time <= live[j].start_time
                                       /\ live[j].end_time <= trips[i].end_time
    <3>1. PICK n \in DOMAIN locations : live[j].end_time = locations[n].ts
      BY <2>1 DEF Live
    <3>2. PICK m \in DOMAIN locations :
            Starts(locations[m]) /\ locations[m].ts = live[j].start_time
      BY <2>1 DEF Live, Begun
    <3>3. \/ live[j].start_time < live[j].end_time
          \/ live[j].start_time = live[j].end_time
      BY <2>1, Types
    <3>4. CASE live[j].start_time < live[j].end_time
      <4>1. locations[n].ts <= live[j].end_time
        <5>1. live[j].end_time \in Nat
          BY <2>1, Types
        <5> QED  BY <3>1, <5>1
      <4>2. Within(j, n)
        BY <3>1, <3>4, <4>1 DEF Within
      <4> QED  BY <2>1, <2>2, <3>1, <4>2 DEF Merged
    <3>5. CASE live[j].start_time = live[j].end_time
      <4>1. Within(j, m)
        BY <3>2 DEF Within
      <4> QED  BY <2>1, <2>2, <3>2, <3>5, <4>1 DEF Merged
    <3> QED  BY <3>3, <3>4, <3>5
  <2>4. \A i \in DOMAIN trips : \E j \in DOMAIN live :
          live[j].start_time = trips[i].start_time
    BY <2>1 DEF Merged
  <2> QED  BY <2>3, <2>4
<1> QED  BY <1>1, RebuildInvariant, PTL

-----------------------------------------------------------------------------
(***************************************************************************)
(* Jobs: the inductive invariant, and its parts.                           *)
(***************************************************************************)
Stamps(locs) == {locs[n].ts : n \in DOMAIN locs}

OnRecord(t, stamps) ==
  Consistent(t) /\ t.start_time \in stamps /\ t.end_time \in stamps

\* The timestamps session x has seen: a job brings one of its own.
SeenBy(x, s, locs) ==
  Stamps(locs) \cup (IF x = Rebuild THEN {} ELSE {s.packet.ts})

Shaped(s) ==
  s \in [at : {s.at}, packet : {s.packet}, selected : {s.selected}, loaded : {s.loaded},
         now : {s.now}, mine : {s.mine}, gone : {s.gone}, todo : {s.todo}]

\* An object that was loaded closed, or flushed as closed, never changes again.
ObjectsOK(s, stamps) ==
  /\ DOMAIN s.now = DOMAIN s.loaded
  /\ s.selected \subseteq DOMAIN s.now
  /\ \A i, k \in s.selected : i = k
  /\ \A i \in DOMAIN s.now :
       /\ OnRecord(s.loaded[i], stamps)
       /\ OnRecord(s.now[i], stamps)
       /\ \/ s.loaded[i].is_active
          \/ s.now[i] = s.loaded[i] /\ i \in DOMAIN s.mine /\ ~s.mine[i].is_active
  /\ \A i \in DOMAIN s.mine : OnRecord(s.mine[i], stamps)

\* What a session wrote opens no row that is closed.
WritesOK(s, rs, last) ==
  /\ \A i \in DOMAIN s.mine \cap DOMAIN rs : s.mine[i].is_active => rs[i].is_active
  /\ DOMAIN s.mine \cup s.gone \subseteq 1 .. last

SessionOK(x, s, rs, locs, last) ==
  /\ Shaped(s)
  /\ s.at \in IF x = Rebuild THEN {"closed", "deleted", "loop", "done"}
                             ELSE {"closed", "selected", "evaluated", "completed"}
  /\ s.at \in {"closed", "done"} => s = [Closed EXCEPT !.at = s.at]
  /\ x # Rebuild /\ s.at # "closed" => s.packet \in Arrivals /\ s.gone = {}
  /\ s.at = "selected" => \A i \in s.selected : s.loaded[i].is_active
  /\ s.todo \subseteq DOMAIN locs
  /\ ObjectsOK(s, SeenBy(x, s, locs))
  /\ WritesOK(s, rs, last)

RowsOK ==
  \A i \in DOMAIN rows : i \in 1 .. lastId /\ OnRecord(rows[i], Stamps(located))

LocksApart ==
  \A x, y \in Sessions : x # y => LockedBy(x) \cap LockedBy(y) = {}

OpenJobs == {j \in Jobs : session[j].at # "closed"}

Counted ==
  /\ arrived \in Nat /\ IsFiniteSet(OpenJobs)
  /\ Cardinality(OpenJobs) + Len(located) <= arrived

JobsIInv ==
  /\ located \in Seq(Arrivals) /\ lastId \in Nat /\ serial \in BOOLEAN
  /\ session = [x \in Sessions |-> session[x]]
  /\ RowsOK
  /\ \A x \in Sessions : SessionOK(x, session[x], rows, located, lastId)
  /\ LocksApart
  /\ Counted

-----------------------------------------------------------------------------
(***************************************************************************)
(* What the rules and a flush do to one row.                               *)
(***************************************************************************)
LEMMA CloseKeeps ==
  ASSUME NEW t, Consistent(t), NEW st \in {"COMPLETED", "CANCELLED"}
  PROVE  /\ Consistent(Close(t, st)) /\ ~Close(t, st).is_active
         /\ Close(t, st).start_time = t.start_time
         /\ Close(t, st).end_time = t.end_time
BY DEF Consistent, Close, Trip, TripStatus

LEMMA UpdateKeeps ==
  ASSUME NEW t, Consistent(t), NEW p \in Coordinate, InTime(t, p), NEW moving
  PROVE  /\ Consistent(Update(t, p, moving)) /\ (Update(t, p, moving).is_active => t.is_active)
         /\ Update(t, p, moving).start_time = t.start_time
         /\ Update(t, p, moving).end_time = p.ts
<1>e. PICK e : e = Extend(t, p)
  OBVIOUS
<1>1. Consistent(e) /\ e.is_active = t.is_active /\ e.start_time = t.start_time /\ e.end_time = p.ts
  BY <1>e, ExtendIsTrip
<1>2. Update(t, p, moving) = e \/ \E st \in {"COMPLETED", "CANCELLED"} :
                                    Update(t, p, moving) = Close(e, st)
  BY <1>e DEF Update, EndStatus
<1> QED  BY <1>1, <1>2, CloseKeeps

LEMMA RouteCloseKeeps ==
  ASSUME NEW t, Consistent(t), NEW p \in Coordinate
  PROVE  /\ Consistent(RouteClose(t, p, TRUE)) /\ ~RouteClose(t, p, TRUE).is_active
         /\ RouteClose(t, p, TRUE).start_time = t.start_time
         /\ RouteClose(t, p, TRUE).end_time = p.ts
BY CoordinateType DEF Consistent, RouteClose, Close, Trip, TripStatus

LEMMA NewTripKeeps ==
  ASSUME NEW p \in Coordinate
  PROVE  /\ Consistent(NewTrip(p)) /\ NewTrip(p).is_active
         /\ NewTrip(p).start_time = p.ts /\ NewTrip(p).end_time = p.ts
BY NewTripIsFine DEF Consistent, Fine

LEMMA ReplaceOnly ==
  ASSUME NEW t, NEW c
  PROVE  [<<t>> EXCEPT ![1] = c] = <<c>>
<1>1. /\ <<t>> \in Seq({t, c}) /\ <<c>> \in Seq({t, c})
      /\ Len(<<t>>) = 1 /\ Len(<<c>>) = 1 /\ <<c>>[1] = c
  OBVIOUS
<1>2. /\ [<<t>> EXCEPT ![1] = c] \in Seq({t, c}) /\ Len([<<t>> EXCEPT ![1] = c]) = 1
      /\ [<<t>> EXCEPT ![1] = c][1] = c
  OBVIOUS
<1>3. \A i \in 1 .. 1 : i = 1
  OBVIOUS
<1> QED  BY <1>1, <1>2, <1>3, SeqEqual

LEMMA AppendSecond ==
  ASSUME NEW c, NEW n
  PROVE  Append(<<c>>, n) = <<c, n>>
<1>1. /\ <<c>> \in Seq({n, c}) /\ <<c, n>> \in Seq({n, c}) /\ Len(<<c, n>>) = 2
      /\ Len(<<c>>) = 1 /\ <<c>>[1] = c /\ <<c, n>>[1] = c /\ <<c, n>>[2] = n
  OBVIOUS
<1>2. /\ Append(<<c>>, n) \in Seq({n, c}) /\ Len(Append(<<c>>, n)) = 2
      /\ Append(<<c>>, n)[1] = c /\ Append(<<c>>, n)[2] = n
  OBVIOUS
<1>3. \A i \in 1 .. 2 : i = 1 \/ i = 2
  OBVIOUS
<1> QED  BY <1>1, <1>2, <1>3, SeqEqual

\* What evaluating a coordinate makes of the one trip the select returned.
LEMMA SingleOutcome ==
  ASSUME NEW t, Consistent(t), NEW p \in Coordinate, NEW moving
  PROVE  LET new == Evaluated(<<t>>, DOMAIN <<t>>, p, moving)
         IN  \/ Late(t, p) /\ new = <<t>>
             \/ AfterGap(t, p) /\ ~Starts(p) /\ new = <<Close(t, "COMPLETED")>>
             \/ AfterGap(t, p) /\ Starts(p) /\ new = <<Close(t, "COMPLETED"), NewTrip(p)>>
             \/ InTime(t, p) /\ new = <<Update(t, p, moving)>>
<1>1. DOMAIN <<t>> = {1} /\ {1} # {} /\ (CHOOSE j \in {1} : TRUE) = 1 /\ <<t>>[1] = t
  OBVIOUS
<1>c. PICK c : c = Close(t, "COMPLETED")
  OBVIOUS
<1>u. PICK u : u = Update(t, p, moving)
  OBVIOUS
<1>n. PICK n : n = NewTrip(p)
  OBVIOUS
<1>r. PICK new : new = Evaluated(<<t>>, {1}, p, moving)
  OBVIOUS
<1>2. [<<t>> EXCEPT ![1] = c] = <<c>> /\ [<<t>> EXCEPT ![1] = u] = <<u>>
  BY ReplaceOnly
<1>3. Append(<<c>>, n) = <<c, n>>
  BY AppendSecond
<1>4. CASE Late(t, p)
  <2>1. t.end_time \in Nat /\ p.ts \in Nat /\ GapTimeout \in Nat
    BY CoordinateType, Constants DEF Consistent, Trip
  <2>2. ~AfterGap(t, p) /\ ~InTime(t, p)
    BY <1>4, <2>1 DEF AfterGap, InTime, Late
  <2>3. new = <<t>>
    BY <1>1, <1>r, <1>4, <2>2 DEF Evaluated
  <2> QED  BY <1>1, <1>r, <1>4, <2>3
<1>5. CASE ~Late(t, p) /\ AfterGap(t, p)
  <2>1. new = IF Starts(p) THEN Append([<<t>> EXCEPT ![1] = c], n) ELSE [<<t>> EXCEPT ![1] = c]
    BY <1>1, <1>c, <1>n, <1>r, <1>5 DEF Evaluated, InTime
  <2> QED  BY <1>1, <1>2, <1>3, <1>c, <1>n, <1>r, <1>5, <2>1
<1>6. CASE ~Late(t, p) /\ ~AfterGap(t, p)
  <2>1. new = [<<t>> EXCEPT ![1] = u]
    BY <1>1, <1>u, <1>r, <1>6 DEF Evaluated, InTime
  <2> QED  BY <1>1, <1>2, <1>u, <1>r, <1>6, <2>1 DEF InTime
<1> QED  BY <1>4, <1>5, <1>6

LEMMA NoneOutcome ==
  ASSUME NEW p, NEW moving
  PROVE  Evaluated(<<>>, DOMAIN <<>>, p, moving) = IF Starts(p) THEN <<NewTrip(p)>> ELSE <<>>
<1>1. DOMAIN <<>> = {} /\ Append(<<>>, NewTrip(p)) = <<NewTrip(p)>>
  OBVIOUS
<1> QED  BY <1>1 DEF Evaluated

LEMMA WriteKeeps ==
  ASSUME NEW stamps, NEW row, NEW old, NEW new,
         OnRecord(row, stamps), OnRecord(old, stamps), OnRecord(new, stamps), old.is_active
  PROVE  /\ OnRecord(Write(row, old, new), stamps)
         /\ Write(row, old, new).is_active <=> row.is_active /\ new.is_active
<1>w. PICK w : w = Write(row, old, new)
  OBVIOUS
<1>1. row \in Trip /\ old \in Trip /\ new \in Trip
  BY DEF OnRecord, Consistent
<1>2. \A c \in DOMAIN row : w[c] = row[c] \/ w[c] = new[c]
  BY <1>w DEF Write
<1>3. w \in Trip
  BY <1>1, <1>2, <1>w DEF Write, Trip
<1>4. /\ w.is_active = IF new.is_active = old.is_active THEN row.is_active ELSE new.is_active
      /\ w.status = IF new.status = old.status THEN row.status ELSE new.status
      /\ w.start_time \in {row.start_time, new.start_time}
      /\ w.end_time \in {row.end_time, new.end_time}
  BY <1>1, <1>w DEF Write, Trip
<1>5. w.is_active <=> row.is_active /\ new.is_active
  BY <1>1, <1>4 DEF Trip
<1>6. w.is_active <=> w.status = "ACTIVE"
  BY <1>1, <1>4 DEF OnRecord, Consistent, Trip
<1> QED  BY <1>w, <1>3, <1>4, <1>5, <1>6 DEF OnRecord, Consistent

-----------------------------------------------------------------------------
(***************************************************************************)
(* What a session does to its objects.                                     *)
(***************************************************************************)
LEMMA SeenRow ==
  ASSUME NEW s
  PROVE  /\ DOMAIN Seen(s) = DOMAIN s.mine \cup (DOMAIN rows \ s.gone)
         /\ \A i \in DOMAIN s.mine : Seen(s)[i] = s.mine[i]
         /\ \A i \in DOMAIN Seen(s) : i \notin DOMAIN s.mine =>
              i \in DOMAIN rows /\ Seen(s)[i] = rows[i]
<1>1. PICK kept : kept = [i \in DOMAIN rows \ s.gone |-> rows[i]]
  OBVIOUS
<1>2. Seen(s) = Over(s.mine, kept)
  BY <1>1 DEF Seen
<1>3. DOMAIN kept = DOMAIN rows \ s.gone /\ \A i \in DOMAIN kept : kept[i] = rows[i]
  BY <1>1
<1> QED  BY <1>2, <1>3 DEF Over

LEMMA LoadKeeps ==
  ASSUME NEW s, NEW stamps, NEW last, NEW ids \in Selections(s),
         Shaped(s), ObjectsOK(s, stamps), WritesOK(s, rows, last),
         \A i \in DOMAIN rows : OnRecord(rows[i], stamps)
  PROVE  LET r == Load(s, ids)
         IN  /\ Shaped(r) /\ ObjectsOK(r, stamps) /\ WritesOK(r, rows, last)
             /\ r.at = s.at /\ r.packet = s.packet /\ r.selected = ids /\ r.mine = s.mine
             /\ r.gone = s.gone /\ r.todo = s.todo
             /\ \A i \in ids : r.loaded[i].is_active
<1>1. ids = {} \/ \E i \in ActiveIn(Seen(s)) : ids = {i}
  BY DEF Selections
<1>2. \A i \in ids : i \in DOMAIN Seen(s) /\ Seen(s)[i].is_active
  BY <1>1 DEF ActiveIn
<1>3. \A i \in ids : OnRecord(Seen(s)[i], stamps)
  BY <1>2, SeenRow DEF ObjectsOK
<1>f. PICK fresh : fresh = [i \in ids |-> Seen(s)[i]]
  OBVIOUS
<1>r. PICK r : r = Load(s, ids)
  OBVIOUS
<1>4. /\ Shaped(r) /\ r.at = s.at /\ r.packet = s.packet /\ r.selected = ids /\ r.mine = s.mine
      /\ r.gone = s.gone /\ r.todo = s.todo
      /\ r.loaded = Over(s.loaded, fresh) /\ r.now = Over(s.now, fresh)
  BY <1>r, <1>f DEF Load, Shaped
<1>5. DOMAIN fresh = ids /\ \A i \in ids : fresh[i] = Seen(s)[i]
  BY <1>f
<1>6. DOMAIN r.now = DOMAIN s.now \cup ids /\ DOMAIN r.loaded = DOMAIN r.now
  BY <1>4, <1>5 DEF ObjectsOK, Over
<1>7. \A i \in DOMAIN s.now : r.now[i] = s.now[i] /\ r.loaded[i] = s.loaded[i]
  BY <1>4 DEF ObjectsOK, Over
<1>8. \A i \in ids : i \notin DOMAIN s.now => r.now[i] = Seen(s)[i] /\ r.loaded[i] = Seen(s)[i]
  BY <1>4, <1>5 DEF ObjectsOK, Over
<1>9. \A i \in ids : r.loaded[i].is_active
  <2> SUFFICES ASSUME NEW i \in ids PROVE r.loaded[i].is_active
    OBVIOUS
  <2>1. CASE i \in DOMAIN s.now
    <3>1. ~(i \in DOMAIN s.mine /\ ~s.mine[i].is_active)
      BY <1>2, SeenRow
    <3> QED  BY <1>7, <2>1, <3>1 DEF ObjectsOK
  <2>2. CASE i \notin DOMAIN s.now
    BY <1>2, <1>8, <2>2
  <2> QED  BY <2>1, <2>2
<1>10. \A i \in DOMAIN r.now :
         /\ OnRecord(r.loaded[i], stamps) /\ OnRecord(r.now[i], stamps)
         /\ \/ r.loaded[i].is_active
            \/ r.now[i] = r.loaded[i] /\ i \in DOMAIN r.mine /\ ~r.mine[i].is_active
  <2> SUFFICES ASSUME NEW i \in DOMAIN r.now
               PROVE  /\ OnRecord(r.loaded[i], stamps) /\ OnRecord(r.now[i], stamps)
                      /\ \/ r.loaded[i].is_active
                         \/ r.now[i] = r.loaded[i] /\ i \in DOMAIN r.mine /\ ~r.mine[i].is_active
    OBVIOUS
  <2>1. CASE i \in DOMAIN s.now
    BY <1>4, <1>7, <2>1 DEF ObjectsOK
  <2>2. CASE i \notin DOMAIN s.now
    BY <1>3, <1>6, <1>8, <1>9, <2>2
  <2> QED  BY <2>1, <2>2
<1>11. ObjectsOK(r, stamps)
  <2>1. r.selected \subseteq DOMAIN r.now /\ \A i, k \in r.selected : i = k
    BY <1>1, <1>4, <1>6
  <2>2. \A i \in DOMAIN r.mine : OnRecord(r.mine[i], stamps)
    BY <1>4 DEF ObjectsOK
  <2> QED  BY <1>6, <1>10, <2>1, <2>2 DEF ObjectsOK
<1>12. WritesOK(r, rows, last)
  BY <1>4 DEF WritesOK
<1> QED  BY <1>r, <1>4, <1>9, <1>11, <1>12

\* The objects put in place of others are changes of rows that were active.
LEMMA PutKeeps ==
  ASSUME NEW s, NEW stamps, NEW last, NEW put,
         Shaped(s), ObjectsOK(s, stamps), WritesOK(s, rows, last),
         DOMAIN put \subseteq DOMAIN s.now,
         \A i \in DOMAIN put : s.loaded[i].is_active /\ OnRecord(put[i], stamps)
  PROVE  LET r == [s EXCEPT !.now = Over(put, @)]
         IN  /\ Shaped(r) /\ ObjectsOK(r, stamps) /\ WritesOK(r, rows, last)
             /\ r.at = s.at /\ r.packet = s.packet /\ r.selected = s.selected
             /\ r.mine = s.mine /\ r.gone = s.gone /\ r.todo = s.todo
             /\ r.loaded = s.loaded /\ r.now = Over(put, s.now)
<1>r. PICK r : r = [s EXCEPT !.now = Over(put, @)]
  OBVIOUS
<1>1. /\ Shaped(r)
      /\ r.at = s.at /\ r.packet = s.packet /\ r.selected = s.selected
      /\ r.mine = s.mine /\ r.gone = s.gone /\ r.todo = s.todo
      /\ r.loaded = s.loaded /\ r.now = Over(put, s.now)
  BY <1>r DEF Shaped
<1>2. /\ DOMAIN r.now = DOMAIN s.now
      /\ \A i \in DOMAIN put : r.now[i] = put[i]
      /\ \A i \in DOMAIN s.now : i \notin DOMAIN put => r.now[i] = s.now[i]
  BY <1>1 DEF Over
<1>3. ObjectsOK(r, stamps)
  BY <1>1, <1>2 DEF ObjectsOK
<1>4. WritesOK(r, rows, last)
  BY <1>1 DEF WritesOK
<1> QED  BY <1>r, <1>1, <1>3, <1>4

LEMMA FlushKeeps ==
  ASSUME NEW s, NEW stamps, NEW last,
         Shaped(s), ObjectsOK(s, stamps), WritesOK(s, rows, last),
         \A i \in DOMAIN rows : OnRecord(rows[i], stamps) /\ i \in 1 .. last,
         Dirty(s) \subseteq DOMAIN Seen(s)
  PROVE  LET r == Flushed(s)
         IN  /\ Shaped(r) /\ ObjectsOK(r, stamps) /\ WritesOK(r, rows, last)
             /\ r.at = s.at /\ r.packet = s.packet /\ r.selected = s.selected
             /\ r.gone = s.gone /\ r.todo = s.todo /\ r.loaded = s.now /\ r.now = s.now
             /\ DOMAIN r.mine = DOMAIN s.mine \cup Dirty(s)
<1>w. PICK w : w = [i \in Dirty(s) |-> Write(Seen(s)[i], s.loaded[i], s.now[i])]
  OBVIOUS
<1>r. PICK r : r = Flushed(s)
  OBVIOUS
<1>1. /\ Shaped(r)
      /\ r.at = s.at /\ r.packet = s.packet /\ r.selected = s.selected
      /\ r.gone = s.gone /\ r.todo = s.todo /\ r.loaded = s.now /\ r.now = s.now
      /\ r.mine = Over(w, s.mine)
  BY <1>r, <1>w DEF Shaped, Flushed
<1>2. DOMAIN w = Dirty(s)
      /\ \A i \in Dirty(s) : w[i] = Write(Seen(s)[i], s.loaded[i], s.now[i])
  BY <1>w
<1>3. /\ DOMAIN r.mine = Dirty(s) \cup DOMAIN s.mine
      /\ \A i \in Dirty(s) : r.mine[i] = Write(Seen(s)[i], s.loaded[i], s.now[i])
      /\ \A i \in DOMAIN s.mine : i \notin Dirty(s) => r.mine[i] = s.mine[i]
  BY <1>1, <1>2 DEF Over
<1>4. \A i \in Dirty(s) :
        /\ i \in DOMAIN s.now /\ s.loaded[i].is_active
        /\ OnRecord(s.loaded[i], stamps) /\ OnRecord(s.now[i], stamps)
        /\ i \in DOMAIN Seen(s) /\ OnRecord(Seen(s)[i], stamps)
  <2>1. \A i \in DOMAIN Seen(s) : OnRecord(Seen(s)[i], stamps)
    BY SeenRow DEF ObjectsOK
  <2>2. \A i \in Dirty(s) : i \in DOMAIN s.now /\ s.now[i] # s.loaded[i]
    BY DEF Dirty
  <2> QED  BY <2>1, <2>2 DEF ObjectsOK
<1>5. \A i \in Dirty(s) :
        /\ OnRecord(r.mine[i], stamps)
        /\ r.mine[i].is_active <=> Seen(s)[i].is_active /\ s.now[i].is_active
  BY <1>3, <1>4, WriteKeeps
<1>6. \A i \in DOMAIN r.mine : OnRecord(r.mine[i], stamps)
  BY <1>3, <1>5 DEF ObjectsOK
<1>7. \A i \in DOMAIN r.now :
        \/ r.loaded[i].is_active
        \/ r.now[i] = r.loaded[i] /\ i \in DOMAIN r.mine /\ ~r.mine[i].is_active
  <2> SUFFICES ASSUME NEW i \in DOMAIN s.now, ~s.now[i].is_active
               PROVE  i \in DOMAIN r.mine /\ ~r.mine[i].is_active
    BY <1>1
  <2>1. CASE i \in Dirty(s)
    BY <1>3, <1>5, <2>1
  <2>2. CASE i \notin Dirty(s)
    <3>1. s.now[i] = s.loaded[i]
      BY <2>2 DEF Dirty
    <3> QED  BY <1>3, <2>2, <3>1 DEF ObjectsOK
  <2> QED  BY <2>1, <2>2
<1>8. ObjectsOK(r, stamps)
  BY <1>1, <1>6, <1>7 DEF ObjectsOK
<1>9. WritesOK(r, rows, last)
  <2>1. \A i \in DOMAIN r.mine \cap DOMAIN rows : r.mine[i].is_active => rows[i].is_active
    <3> SUFFICES ASSUME NEW i \in DOMAIN r.mine \cap DOMAIN rows, r.mine[i].is_active
                 PROVE  rows[i].is_active
      OBVIOUS
    <3>1. CASE i \in Dirty(s)
      <4>1. Seen(s)[i].is_active /\ i \in DOMAIN Seen(s)
        BY <1>4, <1>5, <3>1
      <4> QED  BY <4>1, SeenRow DEF WritesOK
    <3>2. CASE i \notin Dirty(s)
      BY <1>3, <3>2 DEF WritesOK
    <3> QED  BY <3>1, <3>2
  <2>2. Dirty(s) \subseteq DOMAIN s.mine \cup DOMAIN rows
    BY SeenRow
  <2> QED  BY <1>1, <1>3, <2>1, <2>2 DEF WritesOK
<1> QED  BY <1>r, <1>1, <1>3, <1>8, <1>9

\* The insert of a trip: an object of its own, and a row that nobody has.
Added(s, made) ==
  [s EXCEPT !.mine = Over(made, @), !.loaded = Over(made, @), !.now = Over(made, @)]

LEMMA InsertKeeps ==
  ASSUME NEW s, NEW stamps, NEW made, NEW t, lastId \in Nat,
         Shaped(s), ObjectsOK(s, stamps), WritesOK(s, rows, lastId), RowsOK,
         DOMAIN made = {lastId + 1}, made[lastId + 1] = t,
         OnRecord(t, stamps), t.is_active,
         NEW r, r = Added(s, made)
  PROVE  /\ Shaped(r) /\ ObjectsOK(r, stamps) /\ WritesOK(r, rows, lastId + 1)
         /\ r.at = s.at /\ r.packet = s.packet /\ r.selected = s.selected
         /\ r.gone = s.gone /\ r.todo = s.todo
         /\ r.mine = Over(made, s.mine) /\ r.loaded = Over(made, s.loaded)
         /\ r.now = Over(made, s.now)
<1>n. PICK n : n = lastId + 1
  OBVIOUS
<1>1. /\ Shaped(r)
      /\ r.at = s.at /\ r.packet = s.packet /\ r.selected = s.selected
      /\ r.gone = s.gone /\ r.todo = s.todo
      /\ r.mine = Over(made, s.mine) /\ r.loaded = Over(made, s.loaded)
      /\ r.now = Over(made, s.now)
  BY DEF Shaped, Added
<1>2. /\ DOMAIN r.mine = DOMAIN s.mine \cup {n} /\ r.mine[n] = t
      /\ \A i \in DOMAIN s.mine : i # n => r.mine[i] = s.mine[i]
  BY <1>n, <1>1 DEF Over
<1>3. /\ DOMAIN r.loaded = DOMAIN s.loaded \cup {n} /\ r.loaded[n] = t
      /\ \A i \in DOMAIN s.loaded : i # n => r.loaded[i] = s.loaded[i]
  BY <1>n, <1>1 DEF Over
<1>4. /\ DOMAIN r.now = DOMAIN s.now \cup {n} /\ r.now[n] = t
      /\ \A i \in DOMAIN s.now : i # n => r.now[i] = s.now[i]
  BY <1>n, <1>1 DEF Over
<1>5. \A i \in DOMAIN r.now :
        /\ OnRecord(r.loaded[i], stamps) /\ OnRecord(r.now[i], stamps)
        /\ \/ r.loaded[i].is_active
           \/ r.now[i] = r.loaded[i] /\ i \in DOMAIN r.mine /\ ~r.mine[i].is_active
  <2> SUFFICES ASSUME NEW i \in DOMAIN r.now
               PROVE  /\ OnRecord(r.loaded[i], stamps) /\ OnRecord(r.now[i], stamps)
                      /\ \/ r.loaded[i].is_active
                         \/ r.now[i] = r.loaded[i] /\ i \in DOMAIN r.mine /\ ~r.mine[i].is_active
    OBVIOUS
  <2>1. CASE i = n
    BY <1>3, <1>4, <2>1
  <2>2. CASE i # n
    BY <1>2, <1>3, <1>4, <2>2 DEF ObjectsOK
  <2> QED  BY <2>1, <2>2
<1>6. ObjectsOK(r, stamps)
  BY <1>1, <1>2, <1>3, <1>4, <1>5 DEF ObjectsOK
<1>7. WritesOK(r, rows, n)
  <2>1. n \notin DOMAIN rows
    BY <1>n DEF RowsOK
  <2>2. \A i \in 1 .. lastId : i \in 1 .. n
    BY <1>n
  <2>3. n \in 1 .. n
    BY <1>n
  <2> QED  BY <1>1, <1>2, <2>1, <2>2, <2>3 DEF WritesOK
<1> QED  BY <1>n, <1>1, <1>6, <1>7

\* evaluate_coordinate_for_trip leaves a session whose writes can be committed.
LEMMA EvaluateInKeeps ==
  ASSUME JobsIInv, NEW x \in Sessions, NEW s, NEW stamps,
         Shaped(s), ObjectsOK(s, stamps), WritesOK(s, rows, lastId),
         s.mine = session[x].mine, s.gone = session[x].gone,
         \A i \in s.selected : s.loaded[i].is_active,
         NEW p \in Coordinate, p.ts \in stamps, Stamps(located) \subseteq stamps,
         NEW moving, EvaluateIn(x, s, p, moving)
  PROVE  /\ lastId' \in Nat /\ lastId' >= lastId
         /\ \E r : /\ session' = [session EXCEPT ![x] = r]
                   /\ Shaped(r) /\ ObjectsOK(r, stamps) /\ WritesOK(r, rows, lastId')
                   /\ r.at = s.at /\ r.packet = s.packet /\ r.gone = s.gone /\ r.todo = s.todo
                   /\ \A y \in Sessions \ {x} :
                        (DOMAIN r.mine \cup r.gone) \cap LockedBy(y) = {}
<1>l. PICK l \in Nat : l = lastId
  BY DEF JobsIInv
<1> DEFINE old  == IF s.selected = {} THEN <<>>
                   ELSE <<s.now[CHOOSE i \in s.selected : TRUE]>>
           new  == Evaluated(old, DOMAIN old, p, moving)
           put  == [i \in s.selected |-> new[1]]
           kept == [s EXCEPT !.now = Over(put, @)]
           made == [i \in {lastId + 1} |-> new[Len(new)]]
<1>4. IF Len(new) = Len(old)
      THEN session' = [session EXCEPT ![x] = kept] /\ lastId' = lastId
      ELSE /\ CanFlush(x, kept) /\ lastId' = lastId + 1
           /\ session' = [session EXCEPT ![x] =
                [Flushed(kept) EXCEPT !.mine = Over(made, @), !.loaded = Over(made, @),
                                      !.now  = Over(made, @)]]
  BY DEF EvaluateIn
<1>old. old = IF s.selected = {} THEN <<>> ELSE <<s.now[CHOOSE i \in s.selected : TRUE]>>
  OBVIOUS
<1>new. new = Evaluated(old, DOMAIN old, p, moving)
  OBVIOUS
<1>put. DOMAIN put = s.selected /\ \A i \in s.selected : put[i] = new[1]
  OBVIOUS
<1>kept. kept = [s EXCEPT !.now = Over(put, @)]
  OBVIOUS
<1>made. DOMAIN made = {l + 1} /\ made[l + 1] = new[Len(new)]
  BY <1>l
<1> HIDE DEF old, new, put, kept, made
<1>1. \/ /\ s.selected = {} /\ Len(old) = 0
         /\ (new = <<>> \/ new = <<NewTrip(p)>>)
      \/ /\ \E i \in DOMAIN s.now : s.selected = {i}
         /\ Len(old) = 1 /\ OnRecord(new[1], stamps)
         /\ Len(new) = 1 \/ (Len(new) = 2 /\ new[2] = NewTrip(p))
  <2>1. CASE s.selected = {}
    <3>1. old = <<>> /\ Len(old) = 0
      BY <1>old, <2>1
    <3>2. new = <<>> \/ new = <<NewTrip(p)>>
      BY <1>new, <3>1, NoneOutcome
    <3> QED  BY <2>1, <3>1, <3>2
  <2>2. CASE s.selected # {}
    <3>1. PICK i \in s.selected : i = CHOOSE k \in s.selected : TRUE
      BY <2>2
    <3>2. i \in DOMAIN s.now /\ s.selected = {i} /\ OnRecord(s.now[i], stamps)
      BY <3>1 DEF ObjectsOK
    <3>t. PICK t : t = s.now[i]
      OBVIOUS
    <3>3. old = <<t>> /\ Len(old) = 1 /\ OnRecord(t, stamps)
      BY <1>old, <2>2, <3>1, <3>2, <3>t
    <3>4. Consistent(t)
      BY <3>3 DEF OnRecord
    <3>5. \/ new = <<t>>
          \/ new = <<Close(t, "COMPLETED")>>
          \/ new = <<Close(t, "COMPLETED"), NewTrip(p)>>
          \/ InTime(t, p) /\ new = <<Update(t, p, moving)>>
      BY <1>new, <3>3, <3>4, SingleOutcome
    <3>6. OnRecord(Close(t, "COMPLETED"), stamps)
      BY <3>3, <3>4, CloseKeeps DEF OnRecord
    <3>7. InTime(t, p) => OnRecord(Update(t, p, moving), stamps)
      BY <3>3, <3>4, UpdateKeeps DEF OnRecord
    <3>c. PICK c : c = Close(t, "COMPLETED")
      OBVIOUS
    <3>u. PICK u : u = Update(t, p, moving)
      OBVIOUS
    <3>n. PICK n : n = NewTrip(p)
      OBVIOUS
    <3>9. new = <<t>> \/ new = <<c>> \/ new = <<c, n>> \/ (new = <<u>> /\ OnRecord(u, stamps))
      BY <3>5, <3>7, <3>c, <3>u, <3>n
    <3>10. OnRecord(c, stamps)
      BY <3>6, <3>c
    <3>8. OnRecord(new[1], stamps) /\ (Len(new) = 1 \/ (Len(new) = 2 /\ new[2] = n))
      BY <3>3, <3>9, <3>10
    <3> QED  BY <3>2, <3>3, <3>8, <3>n
  <2> QED  BY <2>1, <2>2
<1>2. /\ DOMAIN put \subseteq DOMAIN s.now
      /\ \A i \in DOMAIN put : s.loaded[i].is_active /\ OnRecord(put[i], stamps)
  BY <1>1, <1>put DEF ObjectsOK
<1>3. /\ Shaped(kept) /\ ObjectsOK(kept, stamps) /\ WritesOK(kept, rows, l)
      /\ kept.at = s.at /\ kept.packet = s.packet
      /\ kept.mine = s.mine /\ kept.gone = s.gone /\ kept.todo = s.todo
  BY <1>l, <1>kept, <1>2, PutKeeps
<1>5. \A y \in Sessions \ {x} :
        /\ (DOMAIN s.mine \cup s.gone) \cap LockedBy(y) = {}
        /\ LockedBy(y) \subseteq 1 .. l
  <2> SUFFICES ASSUME NEW y \in Sessions \ {x}
               PROVE  /\ (DOMAIN s.mine \cup s.gone) \cap LockedBy(y) = {}
                      /\ LockedBy(y) \subseteq 1 .. l
    OBVIOUS
  <2>1. LockedBy(x) \cap LockedBy(y) = {}
    BY DEF JobsIInv, LocksApart
  <2>2. LockedBy(x) = DOMAIN s.mine \cup s.gone
    BY DEF LockedBy
  <2>3. WritesOK(session[y], rows, lastId)
    BY DEF JobsIInv, SessionOK
  <2>4. LockedBy(y) \subseteq 1 .. l
    BY <1>l, <2>3 DEF LockedBy, WritesOK
  <2> QED  BY <2>1, <2>2, <2>4
<1>6. CASE Len(new) = Len(old)
  <2>1. session' = [session EXCEPT ![x] = kept] /\ lastId' = l
    BY <1>l, <1>4, <1>6
  <2>2. \A y \in Sessions \ {x} : (DOMAIN kept.mine \cup kept.gone) \cap LockedBy(y) = {}
    BY <1>3, <1>5
  <2>3. WritesOK(kept, rows, lastId')
    BY <1>3, <2>1
  <2>4. lastId' \in Nat /\ lastId' >= lastId
    BY <1>l, <2>1
  <2> QED  BY <1>3, <2>1, <2>2, <2>3, <2>4
<1>7. CASE Len(new) # Len(old)
  <2>f. PICK f : f = Flushed(kept)
    OBVIOUS
  <2>r. PICK r : r = Added(f, made)
    OBVIOUS
  <2>1. CanFlush(x, kept) /\ lastId' = l + 1 /\ session' = [session EXCEPT ![x] = r]
    BY <1>l, <1>4, <1>7, <2>f, <2>r DEF Added
  <2>2. Dirty(kept) \subseteq DOMAIN Seen(kept)
        /\ \A y \in Sessions \ {x} : Dirty(kept) \cap LockedBy(y) = {}
    BY <2>1 DEF CanFlush
  <2>3. \A i \in DOMAIN rows : OnRecord(rows[i], stamps) /\ i \in 1 .. l
    BY <1>l DEF JobsIInv, RowsOK, OnRecord
  <2>4. /\ Shaped(f) /\ ObjectsOK(f, stamps) /\ WritesOK(f, rows, l)
        /\ f.at = s.at /\ f.packet = s.packet /\ f.gone = s.gone /\ f.todo = s.todo
        /\ DOMAIN f.mine = DOMAIN s.mine \cup Dirty(kept)
    BY <1>3, <2>f, <2>2, <2>3, FlushKeeps
  <2>5. new[Len(new)] = NewTrip(p)
    BY <1>1, <1>7
  <2>6. OnRecord(NewTrip(p), stamps) /\ NewTrip(p).is_active
    BY NewTripKeeps DEF OnRecord
  <2>7. DOMAIN made = {l + 1} /\ made[l + 1] = NewTrip(p)
    BY <1>made, <2>5
  <2>8. /\ Shaped(r) /\ ObjectsOK(r, stamps) /\ WritesOK(r, rows, l + 1)
        /\ r.at = f.at /\ r.packet = f.packet /\ r.gone = f.gone /\ r.todo = f.todo
        /\ r.mine = Over(made, f.mine)
    <3>1. RowsOK
      BY DEF JobsIInv
    <3>2. lastId \in Nat /\ WritesOK(f, rows, lastId) /\ DOMAIN made = {lastId + 1}
          /\ made[lastId + 1] = NewTrip(p)
      BY <1>l, <2>4, <2>7
    <3>3. /\ Shaped(r) /\ ObjectsOK(r, stamps) /\ WritesOK(r, rows, lastId + 1)
          /\ r.at = f.at /\ r.packet = f.packet /\ r.gone = f.gone /\ r.todo = f.todo
          /\ r.mine = Over(made, f.mine)
      <4>n. PICK n : n = NewTrip(p)
        OBVIOUS
      <4>1. OnRecord(n, stamps) /\ n.is_active /\ made[lastId + 1] = n
        BY <2>6, <3>2, <4>n
      <4> QED  BY ONLY <2>r, <2>4, <3>1, <3>2, <4>1, InsertKeeps
    <3> QED  BY <1>l, <3>3
  <2>9. DOMAIN r.mine = {l + 1} \cup DOMAIN s.mine \cup Dirty(kept)
    BY <2>4, <2>7, <2>8 DEF Over
  <2>10. \A y \in Sessions \ {x} : (DOMAIN r.mine \cup r.gone) \cap LockedBy(y) = {}
    BY <1>5, <2>2, <2>4, <2>8, <2>9
  <2>11. WritesOK(r, rows, lastId')
    BY <2>1, <2>8
  <2>12. lastId' \in Nat /\ lastId' >= lastId
    BY <1>l, <2>1
  <2> QED  BY <2>1, <2>4, <2>8, <2>10, <2>11, <2>12
<1> QED  BY <1>6, <1>7

-----------------------------------------------------------------------------
(***************************************************************************)
(* Every action of a session keeps the invariant.                          *)
(***************************************************************************)
Extends(new, old) == \A n \in DOMAIN old : n \in DOMAIN new /\ new[n] = old[n]

LEMMA StaysSound ==
  ASSUME NEW x, NEW s, NEW rs, NEW locs, NEW last \in Nat,
         NEW rs2, NEW locs2, NEW last2 \in Nat,
         SessionOK(x, s, rs, locs, last), Extends(locs2, locs), last2 >= last,
         \A i \in DOMAIN s.mine : i \in DOMAIN rs2 => i \in DOMAIN rs /\ rs2[i] = rs[i]
  PROVE  SessionOK(x, s, rs2, locs2, last2)
<1>1. Stamps(locs) \subseteq Stamps(locs2)
  BY DEF Stamps, Extends
<1>a. PICK a : a = SeenBy(x, s, locs)
  OBVIOUS
<1>b. PICK b : b = SeenBy(x, s, locs2)
  OBVIOUS
<1>2. a \subseteq b
  BY <1>1, <1>a, <1>b DEF SeenBy
<1>3. ObjectsOK(s, a)
  BY <1>a DEF SessionOK
<1>4. ObjectsOK(s, b)
  BY <1>2, <1>3 DEF ObjectsOK, OnRecord
<1>5. WritesOK(s, rs2, last2)
  <2>1. WritesOK(s, rs, last)
    BY DEF SessionOK
  <2>2. 1 .. last \subseteq 1 .. last2
    OBVIOUS
  <2> QED  BY <2>1, <2>2 DEF WritesOK
<1>6. s.todo \subseteq DOMAIN locs2
  BY DEF SessionOK, Extends
<1> QED  BY <1>b, <1>4, <1>5, <1>6 DEF SessionOK

LEMMA ClosedSound ==
  ASSUME NEW x \in Sessions, NEW s, NEW rs, NEW locs, NEW last, NEW at,
         s = [Closed EXCEPT !.at = at], at = "closed" \/ (at = "done" /\ x = Rebuild)
  PROVE  /\ SessionOK(x, s, rs, locs, last)
         /\ DOMAIN s.mine = {} /\ s.gone = {} /\ s.at = at
<1>1. /\ s.at = at /\ s.packet = Empty /\ s.selected = {} /\ s.loaded = Empty
      /\ s.now = Empty /\ s.mine = Empty /\ s.gone = {} /\ s.todo = {} /\ Shaped(s)
  BY DEF Closed, Shaped
<1>2. DOMAIN Empty = {}
  BY DEF Empty
<1>3. ObjectsOK(s, SeenBy(x, s, locs))
  BY <1>1, <1>2 DEF ObjectsOK
<1>4. WritesOK(s, rs, last)
  BY <1>1, <1>2 DEF WritesOK
<1> QED  BY <1>1, <1>2, <1>3, <1>4 DEF SessionOK

\* Session x steps to r; what it commits is nothing that another has locked.
LEMMA SessionStep ==
  ASSUME JobsIInv, NEW x \in Sessions, NEW r, session' = [session EXCEPT ![x] = r],
         SessionOK(x, r, rows', located', lastId'), lastId' \in Nat, lastId' >= lastId,
         Extends(located', located),
         \A y \in Sessions \ {x} : (DOMAIN r.mine \cup r.gone) \cap LockedBy(y) = {},
         \A y \in Sessions \ {x} : \A i \in LockedBy(y) :
           i \in DOMAIN rows' => i \in DOMAIN rows /\ rows'[i] = rows[i]
  PROVE  /\ session' = [y \in Sessions |-> session'[y]]
         /\ \A y \in Sessions : SessionOK(y, session'[y], rows', located', lastId')
         /\ LocksApart'
<1>1. /\ DOMAIN session = Sessions /\ session'[x] = r
      /\ \A y \in Sessions \ {x} : session'[y] = session[y]
      /\ session' = [y \in Sessions |-> session'[y]]
  BY DEF JobsIInv
<1>2. \A y \in Sessions : SessionOK(y, session'[y], rows', located', lastId')
  <2> SUFFICES ASSUME NEW y \in Sessions, y # x
               PROVE  SessionOK(y, session[y], rows', located', lastId')
    BY <1>1
  <2>1. SessionOK(y, session[y], rows, located, lastId) /\ lastId \in Nat
    BY DEF JobsIInv
  <2>2. \A i \in DOMAIN session[y].mine : i \in DOMAIN rows' => i \in DOMAIN rows /\ rows'[i] = rows[i]
    BY DEF LockedBy
  <2>s. PICK s : s = session[y]
    OBVIOUS
  <2>r. PICK rs, rs2, locs, locs2 : rs = rows /\ rs2 = rows' /\ locs = located /\ locs2 = located'
    OBVIOUS
  <2>l. PICK last \in Nat, last2 \in Nat : last = lastId /\ last2 = lastId'
    BY <2>1
  <2>3. SessionOK(y, s, rs, locs, last) /\ Extends(locs2, locs) /\ last2 >= last
    BY <2>1, <2>s, <2>r, <2>l
  <2>4. \A i \in DOMAIN s.mine : i \in DOMAIN rs2 => i \in DOMAIN rs /\ rs2[i] = rs[i]
    BY <2>2, <2>s, <2>r
  <2>5. SessionOK(y, s, rs2, locs2, last2)
    BY <2>3, <2>4, StaysSound
  <2> QED  BY <2>5, <2>s, <2>r, <2>l
<1>3. LocksApart'
  <2> SUFFICES ASSUME NEW y \in Sessions, NEW z \in Sessions, y # z
               PROVE  LockedBy(y)' \cap LockedBy(z)' = {}
    BY DEF LocksApart
  <2>1. LockedBy(x)' = DOMAIN r.mine \cup r.gone
    BY <1>1 DEF LockedBy
  <2>2. \A w \in Sessions \ {x} : LockedBy(w)' = LockedBy(w)
    BY <1>1 DEF LockedBy
  <2>3. CASE y = x
    BY <2>1, <2>2, <2>3
  <2>4. CASE z = x
    BY <2>1, <2>2, <2>4
  <2>5. CASE y # x /\ z # x
    BY <2>2, <2>5 DEF JobsIInv, LocksApart
  <2> QED  BY <2>3, <2>4, <2>5
<1> QED  BY <1>1, <1>2, <1>3

LEMMA CommitKeeps ==
  ASSUME JobsIInv, NEW x \in Sessions, NEW s, NEW stamps,
         Shaped(s), ObjectsOK(s, stamps), WritesOK(s, rows, lastId),
         s.mine = session[x].mine, s.gone = session[x].gone,
         Stamps(located) \subseteq stamps, CommitOf(x, s)
  PROVE  /\ session' = [session EXCEPT ![x] = Ended(x)]
         /\ \A i \in DOMAIN rows' : i \in 1 .. lastId /\ OnRecord(rows'[i], stamps)
         /\ \A i \in DOMAIN rows \cap DOMAIN rows' : rows'[i].is_active => rows[i].is_active
         /\ \A y \in Sessions \ {x} : \A i \in LockedBy(y) :
              i \in DOMAIN rows' => i \in DOMAIN rows /\ rows'[i] = rows[i]
<1>f. PICK f : f = Flushed(s)
  OBVIOUS
<1>kept. PICK kept : kept = [i \in DOMAIN rows \ s.gone |-> rows[i]]
  OBVIOUS
<1>1. /\ Dirty(s) \subseteq DOMAIN Seen(s)
      /\ \A y \in Sessions \ {x} : Dirty(s) \cap LockedBy(y) = {}
      /\ rows' = Over(f.mine, kept)
      /\ session' = [session EXCEPT ![x] = Ended(x)]
  BY <1>f, <1>kept DEF CommitOf, CanFlush
<1>2. \A i \in DOMAIN rows : OnRecord(rows[i], stamps) /\ i \in 1 .. lastId
  BY DEF JobsIInv, RowsOK, OnRecord
<1>3. /\ ObjectsOK(f, stamps) /\ WritesOK(f, rows, lastId)
      /\ DOMAIN f.mine = DOMAIN s.mine \cup Dirty(s)
  <2>l. PICK l : l = lastId
    OBVIOUS
  <2>1. /\ WritesOK(s, rows, l)
        /\ \A i \in DOMAIN rows : OnRecord(rows[i], stamps) /\ i \in 1 .. l
    BY <1>2, <2>l
  <2>2. /\ ObjectsOK(f, stamps) /\ WritesOK(f, rows, l)
        /\ DOMAIN f.mine = DOMAIN s.mine \cup Dirty(s)
    BY <1>1, <1>f, <2>1, FlushKeeps
  <2> QED  BY <2>l, <2>2
<1>4. /\ DOMAIN rows' = DOMAIN f.mine \cup (DOMAIN rows \ s.gone)
      /\ \A i \in DOMAIN f.mine : rows'[i] = f.mine[i]
      /\ \A i \in DOMAIN rows' : i \notin DOMAIN f.mine => i \in DOMAIN rows /\ rows'[i] = rows[i]
  BY <1>1, <1>kept DEF Over
<1>5. \A i \in DOMAIN rows' : i \in 1 .. lastId /\ OnRecord(rows'[i], stamps)
  BY <1>2, <1>3, <1>4 DEF ObjectsOK, WritesOK
<1>6. \A i \in DOMAIN rows \cap DOMAIN rows' : rows'[i].is_active => rows[i].is_active
  BY <1>3, <1>4 DEF WritesOK
<1>7. \A y \in Sessions \ {x} : \A i \in LockedBy(y) : i \notin DOMAIN f.mine
  <2> SUFFICES ASSUME NEW y \in Sessions \ {x}, NEW i \in LockedBy(y)
               PROVE  i \notin DOMAIN f.mine
    OBVIOUS
  <2>1. LockedBy(x) \cap LockedBy(y) = {}
    BY DEF JobsIInv, LocksApart
  <2>2. DOMAIN s.mine \subseteq LockedBy(x)
    BY DEF LockedBy
  <2>3. Dirty(s) \cap LockedBy(y) = {}
    BY <1>1
  <2> QED  BY <1>3, <2>1, <2>2, <2>3
<1> QED  BY <1>1, <1>4, <1>5, <1>6, <1>7

\* A step that commits nothing: only session x and the counters move.
LEMMA QuietStep ==
  ASSUME JobsIInv, NEW x \in Sessions, NEW r, session' = [session EXCEPT ![x] = r],
         UNCHANGED <<rows, located>>, lastId' \in Nat, lastId' >= lastId,
         SessionOK(x, r, rows, located, lastId'), serial' \in BOOLEAN,
         \A y \in Sessions \ {x} : (DOMAIN r.mine \cup r.gone) \cap LockedBy(y) = {},
         Counted'
  PROVE  JobsIInv'
<1>1. SessionOK(x, r, rows', located', lastId')
  <2>r. PICK rs, locs : rs = rows /\ locs = located
    OBVIOUS
  <2>1. rs = rows' /\ locs = located' /\ SessionOK(x, r, rs, locs, lastId')
    BY <2>r
  <2> QED  BY <2>1
<1>2. Extends(located', located)
  BY DEF Extends
<1>3. /\ session' = [y \in Sessions |-> session'[y]]
      /\ \A y \in Sessions : SessionOK(y, session'[y], rows', located', lastId')
      /\ LocksApart'
  BY <1>1, <1>2, SessionStep
<1>4. RowsOK'
  <2>1. \A i \in 1 .. lastId : i \in 1 .. lastId'
    BY DEF JobsIInv
  <2> QED  BY <2>1 DEF JobsIInv, RowsOK
<1>5. located' \in Seq(Arrivals)
  BY DEF JobsIInv
<1> QED  BY <1>3, <1>4, <1>5 DEF JobsIInv

LEMMA OpenStays ==
  ASSUME JobsIInv, NEW x \in Sessions, NEW r, session' = [session EXCEPT ![x] = r],
         x = Rebuild \/ session[x].at # "closed", UNCHANGED <<located, arrived>>
  PROVE  Counted'
<1>1. OpenJobs' \subseteq OpenJobs
  <2> SUFFICES ASSUME NEW j \in Jobs, session'[j].at # "closed"
               PROVE  session[j].at # "closed"
    BY DEF OpenJobs
  <2>1. j # Rebuild
    BY JobConstants DEF Rebuild
  <2> QED  BY <2>1 DEF Sessions, JobsIInv
<1>2. /\ IsFiniteSet(OpenJobs') /\ Cardinality(OpenJobs') <= Cardinality(OpenJobs)
      /\ Cardinality(OpenJobs') \in Nat /\ Cardinality(OpenJobs) \in Nat
  BY <1>1, FS_Subset, FS_CardinalityType DEF JobsIInv, Counted
<1>l. PICK l : l = Len(located)
  OBVIOUS
<1>3. Cardinality(OpenJobs) + l <= arrived /\ arrived \in Nat
  BY <1>l DEF JobsIInv, Counted
<1>4. l \in Int
  BY <1>l, LenProperties DEF JobsIInv
<1> QED  BY <1>2, <1>3, <1>l DEF Counted

LEMMA ArrivalsType == \A p \in Arrivals : p \in Coordinate /\ p.ts \in Nat
BY JobConstants, CoordinateType

LEMMA BeginJobKeeps ==
  ASSUME JobsIInv, NEW j \in Jobs, NEW p \in Arrivals, BeginJob(j, p)
  PROVE  JobsIInv'
<1>1. PICK ids \in Selections(Closed) :
        session' = [session EXCEPT ![j] =
                      [Load(Closed, ids) EXCEPT !.at = "selected", !.packet = p]]
  BY DEF BeginJob
<1>s. PICK s : s = Load(Closed, ids)
  OBVIOUS
<1>r. PICK r : r = [s EXCEPT !.at = "selected", !.packet = p]
  OBVIOUS
<1>st. PICK stamps : stamps = Stamps(located) \cup {p.ts}
  OBVIOUS
<1>2. j \in Sessions /\ j # Rebuild
  BY JobConstants DEF Sessions, Rebuild
<1>3. Shaped(Closed) /\ ObjectsOK(Closed, stamps) /\ WritesOK(Closed, rows, lastId)
      /\ Closed.mine = Empty /\ Closed.gone = {} /\ Closed.todo = {} /\ DOMAIN Empty = {}
  <2>1. DOMAIN Empty = {}
    BY DEF Empty
  <2> QED  BY <2>1 DEF Closed, Shaped, ObjectsOK, WritesOK
<1>4. \A i \in DOMAIN rows : OnRecord(rows[i], stamps)
  BY <1>st DEF JobsIInv, RowsOK, OnRecord
<1>5. /\ Shaped(s) /\ ObjectsOK(s, stamps) /\ WritesOK(s, rows, lastId)
      /\ s.selected = ids /\ s.mine = Empty /\ s.gone = {} /\ s.todo = {}
      /\ \A i \in ids : s.loaded[i].is_active
  <2>l. PICK l : l = lastId
    OBVIOUS
  <2>c. PICK c : c = Closed
    OBVIOUS
  <2>1. /\ Shaped(c) /\ ObjectsOK(c, stamps) /\ WritesOK(c, rows, l) /\ ids \in Selections(c)
        /\ s = Load(c, ids) /\ c.mine = Empty /\ c.gone = {} /\ c.todo = {}
    BY <1>1, <1>3, <1>s, <2>c, <2>l
  <2>2. /\ Shaped(s) /\ ObjectsOK(s, stamps) /\ WritesOK(s, rows, l)
        /\ s.selected = ids /\ s.mine = Empty /\ s.gone = {} /\ s.todo = {}
        /\ \A i \in ids : s.loaded[i].is_active
    BY <1>4, <2>1, LoadKeeps
  <2> QED  BY <2>l, <2>2
<1>6. /\ Shaped(r) /\ r.at = "selected" /\ r.packet = p
      /\ r.selected = s.selected /\ r.loaded = s.loaded /\ r.now = s.now
      /\ r.mine = s.mine /\ r.gone = s.gone /\ r.todo = s.todo
  BY <1>5, <1>r DEF Shaped
<1>7. ObjectsOK(r, stamps) /\ WritesOK(r, rows, lastId)
  BY <1>5, <1>6 DEF ObjectsOK, WritesOK
<1>8. SeenBy(j, r, located) = stamps
  BY <1>2, <1>6, <1>st DEF SeenBy
<1>9. SessionOK(j, r, rows, located, lastId)
  <2>1. \A i \in r.selected : r.loaded[i].is_active
    BY <1>5, <1>6
  <2> QED  BY <1>2, <1>5, <1>6, <1>7, <1>8, <2>1 DEF SessionOK
<1>10. session' = [session EXCEPT ![j] = r]
  BY <1>1, <1>s, <1>r
<1>11. /\ UNCHANGED <<rows, located, lastId>> /\ lastId' \in Nat /\ lastId' >= lastId
       /\ serial' \in BOOLEAN /\ arrived' = arrived + 1 /\ session[j].at = "closed"
  BY DEF BeginJob, JobsIInv
<1>12. Counted'
  <2>1. OpenJobs' \subseteq OpenJobs \cup {j} /\ j \notin OpenJobs
    <3>1. \A k \in Jobs \ {j} : session'[k] = session[k]
      BY <1>10 DEF JobsIInv, Sessions
    <3> QED  BY <1>11, <3>1 DEF OpenJobs
  <2>2. /\ IsFiniteSet(OpenJobs \cup {j})
        /\ Cardinality(OpenJobs \cup {j}) = Cardinality(OpenJobs) + 1
    BY <2>1, FS_AddElement DEF JobsIInv, Counted
  <2>3. /\ IsFiniteSet(OpenJobs') /\ Cardinality(OpenJobs') <= Cardinality(OpenJobs) + 1
        /\ Cardinality(OpenJobs') \in Nat /\ Cardinality(OpenJobs) \in Nat
    BY <2>1, <2>2, FS_Subset, FS_CardinalityType DEF JobsIInv, Counted
  <2>l. PICK l : l = Len(located)
    OBVIOUS
  <2>4. l \in Int /\ Cardinality(OpenJobs) + l <= arrived /\ arrived \in Nat
    BY <2>l, LenProperties DEF JobsIInv, Counted
  <2>5. Len(located') = l
    BY <1>11, <2>l
  <2> QED  BY <1>11, <2>3, <2>4, <2>5 DEF Counted
<1>13. \A y \in Sessions \ {j} : (DOMAIN r.mine \cup r.gone) \cap LockedBy(y) = {}
  BY <1>3, <1>5, <1>6
<1>14. SessionOK(j, r, rows, located, lastId')
  BY <1>9, <1>11
<1> QED  BY <1>2, <1>10, <1>11, <1>12, <1>13, <1>14, QuietStep

LEMMA EvaluateJobKeeps ==
  ASSUME JobsIInv, NEW j \in Jobs, EvaluateJob(j)
  PROVE  JobsIInv'
<1>s. PICK s : s = session[j]
  OBVIOUS
<1>e. PICK e : e = [s EXCEPT !.at = "evaluated"]
  OBVIOUS
<1>p. PICK p : p = s.packet
  OBVIOUS
<1>1. j \in Sessions /\ j # Rebuild /\ s.at = "selected"
  BY <1>s, JobConstants DEF Sessions, Rebuild, EvaluateJob
<1>2. SessionOK(j, s, rows, located, lastId)
  BY <1>1, <1>s DEF JobsIInv
<1>st. PICK stamps : stamps = SeenBy(j, s, located)
  OBVIOUS
<1>3. /\ Shaped(s) /\ ObjectsOK(s, stamps) /\ WritesOK(s, rows, lastId)
      /\ p \in Arrivals /\ s.gone = {} /\ s.todo \subseteq DOMAIN located
      /\ \A i \in s.selected : s.loaded[i].is_active
  BY <1>1, <1>2, <1>st, <1>p DEF SessionOK
<1>4. p \in Coordinate /\ stamps = Stamps(located) \cup {p.ts}
  BY <1>1, <1>3, <1>st, <1>p, ArrivalsType DEF SeenBy
<1>5. /\ Shaped(e) /\ e.at = "evaluated" /\ e.packet = p
      /\ e.selected = s.selected /\ e.loaded = s.loaded /\ e.now = s.now
      /\ e.mine = s.mine /\ e.gone = s.gone /\ e.todo = s.todo
  BY <1>3, <1>e, <1>p DEF Shaped
<1>6. ObjectsOK(e, stamps) /\ WritesOK(e, rows, lastId)
  BY <1>3, <1>5 DEF ObjectsOK, WritesOK
<1>7. PICK moving : EvaluateIn(j, e, p, moving)
  BY <1>s, <1>e, <1>p DEF EvaluateJob
<1>8. /\ lastId' \in Nat /\ lastId' >= lastId
      /\ \E r : /\ session' = [session EXCEPT ![j] = r]
                /\ Shaped(r) /\ ObjectsOK(r, stamps) /\ WritesOK(r, rows, lastId')
                /\ r.at = e.at /\ r.packet = e.packet /\ r.gone = e.gone /\ r.todo = e.todo
                /\ \A y \in Sessions \ {j} : (DOMAIN r.mine \cup r.gone) \cap LockedBy(y) = {}
  <2>1. /\ e.mine = session[j].mine /\ e.gone = session[j].gone
        /\ \A i \in e.selected : e.loaded[i].is_active
        /\ p.ts \in stamps /\ Stamps(located) \subseteq stamps
    BY <1>s, <1>3, <1>4, <1>5
  <2> QED  BY <1>1, <1>4, <1>5, <1>6, <1>7, <2>1, EvaluateInKeeps
<1>9. PICK r : /\ session' = [session EXCEPT ![j] = r]
               /\ Shaped(r) /\ ObjectsOK(r, stamps) /\ WritesOK(r, rows, lastId')
               /\ r.at = e.at /\ r.packet = e.packet /\ r.gone = e.gone /\ r.todo = e.todo
               /\ \A y \in Sessions \ {j} : (DOMAIN r.mine \cup r.gone) \cap LockedBy(y) = {}
  BY <1>8
<1>10. SeenBy(j, r, located) = stamps
  BY <1>1, <1>4, <1>5, <1>9 DEF SeenBy
<1>11. SessionOK(j, r, rows, located, lastId')
  BY <1>1, <1>3, <1>5, <1>9, <1>10 DEF SessionOK
<1>12. UNCHANGED <<rows, located, arrived>> /\ serial' \in BOOLEAN
  BY DEF EvaluateJob, JobsIInv
<1>13. Counted'
  BY <1>1, <1>s, <1>9, <1>12, OpenStays
<1> QED  BY <1>1, <1>8, <1>9, <1>11, <1>12, <1>13, QuietStep

LEMMA CompleteRouteKeeps ==
  ASSUME JobsIInv, NEW j \in Jobs, CompleteRoute(j)
  PROVE  JobsIInv'
<1>o. PICK o : o = session[j]
  OBVIOUS
<1>1. PICK ids \in Selections(o) :
        LET s == Load(o, ids)
        IN  session' = [session EXCEPT ![j] =
              [s EXCEPT !.at  = "completed",
                        !.now = Over([i \in ids |-> RouteClose(s.now[i], s.packet, TRUE)], @)]]
  BY <1>o DEF CompleteRoute
<1>s. PICK s : s = Load(o, ids)
  OBVIOUS
<1>put. PICK put : put = [i \in ids |-> RouteClose(s.now[i], s.packet, TRUE)]
  OBVIOUS
<1>t. PICK t : t = [s EXCEPT !.now = Over(put, @)]
  OBVIOUS
<1>r. PICK r : r = [s EXCEPT !.at = "completed", !.now = Over(put, @)]
  OBVIOUS
<1>2. session' = [session EXCEPT ![j] = r]
  BY <1>1, <1>s, <1>put, <1>r
<1>3. j \in Sessions /\ j # Rebuild /\ o.at = "evaluated"
  BY <1>o, JobConstants DEF Sessions, Rebuild, CompleteRoute
<1>4. SessionOK(j, o, rows, located, lastId)
  BY <1>3, <1>o DEF JobsIInv
<1>st. PICK stamps : stamps = SeenBy(j, o, located)
  OBVIOUS
<1>p. PICK p : p = o.packet
  OBVIOUS
<1>l. PICK l : l = lastId
  OBVIOUS
<1>5. /\ Shaped(o) /\ ObjectsOK(o, stamps) /\ WritesOK(o, rows, l)
      /\ p \in Arrivals /\ o.gone = {} /\ o.todo \subseteq DOMAIN located
  BY <1>3, <1>4, <1>st, <1>p, <1>l DEF SessionOK
<1>6. p \in Coordinate /\ stamps = Stamps(located) \cup {p.ts}
  BY <1>3, <1>5, <1>st, <1>p, ArrivalsType DEF SeenBy
<1>7. \A i \in DOMAIN rows : OnRecord(rows[i], stamps)
  BY <1>6 DEF JobsIInv, RowsOK, OnRecord
<1>8. /\ Shaped(s) /\ ObjectsOK(s, stamps) /\ WritesOK(s, rows, l)
      /\ s.packet = p /\ s.selected = ids /\ s.mine = o.mine /\ s.gone = o.gone
      /\ s.todo = o.todo /\ \A i \in ids : s.loaded[i].is_active
  <2>1. ids \in Selections(o) /\ s = Load(o, ids)
    BY <1>1, <1>s
  <2>2. /\ Shaped(s) /\ ObjectsOK(s, stamps) /\ WritesOK(s, rows, l)
        /\ s.packet = o.packet /\ s.selected = ids /\ s.mine = o.mine /\ s.gone = o.gone
        /\ s.todo = o.todo /\ \A i \in ids : s.loaded[i].is_active
    BY <1>5, <1>7, <2>1, LoadKeeps, SMTT(30)
  <2> QED  BY <1>p, <2>2
<1>9. DOMAIN put = ids /\ ids \subseteq DOMAIN s.now
      /\ \A i \in ids : put[i] = RouteClose(s.now[i], p, TRUE)
  BY <1>8, <1>put DEF ObjectsOK
<1>10. \A i \in ids : OnRecord(put[i], stamps)
  <2> SUFFICES ASSUME NEW i \in ids PROVE OnRecord(put[i], stamps)
    OBVIOUS
  <2>v. PICK v : v = s.now[i]
    OBVIOUS
  <2>1. OnRecord(v, stamps) /\ put[i] = RouteClose(v, p, TRUE)
    BY <1>8, <1>9, <2>v DEF ObjectsOK
  <2> QED  BY <1>6, <2>1, RouteCloseKeeps DEF OnRecord
<1>11. /\ Shaped(t) /\ ObjectsOK(t, stamps) /\ WritesOK(t, rows, l)
       /\ t.packet = s.packet /\ t.selected = s.selected
       /\ t.mine = s.mine /\ t.gone = s.gone /\ t.todo = s.todo
       /\ t.loaded = s.loaded /\ t.now = Over(put, s.now)
  <2>1. DOMAIN put \subseteq DOMAIN s.now
        /\ \A i \in DOMAIN put : s.loaded[i].is_active /\ OnRecord(put[i], stamps)
    BY <1>8, <1>9, <1>10
  <2> QED  BY <1>8, <1>t, <2>1, PutKeeps
<1>12. /\ Shaped(r) /\ r.at = "completed" /\ r.packet = p
       /\ r.selected = t.selected /\ r.loaded = t.loaded /\ r.now = t.now
       /\ r.mine = t.mine /\ r.gone = t.gone /\ r.todo = t.todo
  BY <1>8, <1>11, <1>r DEF Shaped
<1>13. ObjectsOK(r, stamps) /\ WritesOK(r, rows, l)
  BY <1>11, <1>12 DEF ObjectsOK, WritesOK
<1>14. SeenBy(j, r, located) = stamps
  BY <1>3, <1>6, <1>12 DEF SeenBy
<1>15. SessionOK(j, r, rows, located, lastId)
  BY <1>3, <1>5, <1>8, <1>11, <1>12, <1>13, <1>14, <1>l DEF SessionOK
<1>16. /\ UNCHANGED <<rows, located, arrived, lastId>> /\ serial' \in BOOLEAN
       /\ lastId' \in Nat /\ lastId' >= lastId
  BY DEF CompleteRoute, JobsIInv
<1>17. Counted'
  BY <1>2, <1>3, <1>o, <1>16, OpenStays
<1>18. \A y \in Sessions \ {j} : (DOMAIN r.mine \cup r.gone) \cap LockedBy(y) = {}
  <2>1. DOMAIN r.mine \cup r.gone = LockedBy(j)
    BY <1>8, <1>11, <1>12, <1>o DEF LockedBy
  <2> QED  BY <1>3, <2>1 DEF JobsIInv, LocksApart
<1>19. SessionOK(j, r, rows, located, lastId')
  BY <1>15, <1>16
<1> QED  BY <1>2, <1>3, <1>16, <1>17, <1>18, <1>19, QuietStep

LEMMA EndedForm ==
  ASSUME NEW x
  PROVE  \E at : /\ Ended(x) = [Closed EXCEPT !.at = at]
                 /\ at = "closed" \/ (at = "done" /\ x = Rebuild)
<1>1. CASE x = Rebuild
  BY <1>1 DEF Ended
<1>2. CASE x # Rebuild
  <2>1. Closed = [Closed EXCEPT !.at = "closed"]
    BY DEF Closed
  <2> QED  BY <1>2, <2>1 DEF Ended
<1> QED  BY <1>1, <1>2

\* A session that ends without a commit.
LEMMA EndKeeps ==
  ASSUME JobsIInv, NEW x \in Sessions, session' = [session EXCEPT ![x] = Ended(x)],
         x = Rebuild \/ session[x].at # "closed",
         UNCHANGED <<rows, located, lastId, arrived, serial>>
  PROVE  JobsIInv'
<1>r. PICK r : r = Ended(x)
  OBVIOUS
<1>1. \E at : r = [Closed EXCEPT !.at = at] /\ (at = "closed" \/ (at = "done" /\ x = Rebuild))
  BY <1>r, EndedForm
<1>2. SessionOK(x, r, rows, located, lastId) /\ DOMAIN r.mine = {} /\ r.gone = {}
  <2>r. PICK rs, locs, last : rs = rows /\ locs = located /\ last = lastId
    OBVIOUS
  <2>1. SessionOK(x, r, rs, locs, last) /\ DOMAIN r.mine = {} /\ r.gone = {}
    BY <1>1, ClosedSound
  <2> QED  BY <2>r, <2>1
<1>3. session' = [session EXCEPT ![x] = r] /\ SessionOK(x, r, rows, located, lastId')
  BY <1>r, <1>2
<1>4. Counted'
  BY <1>3, OpenStays
<1>5. lastId' \in Nat /\ lastId' >= lastId /\ serial' \in BOOLEAN
  BY DEF JobsIInv
<1>6. \A y \in Sessions \ {x} : (DOMAIN r.mine \cup r.gone) \cap LockedBy(y) = {}
  BY <1>2
<1> QED  BY <1>3, <1>4, <1>5, <1>6, QuietStep

LEMMA FailJobKeeps ==
  ASSUME JobsIInv, NEW j \in Jobs, FailJob(j)
  PROVE  JobsIInv'
<1>1. j \in Sessions /\ j # Rebuild
  BY JobConstants DEF Sessions, Rebuild
<1>2. Ended(j) = Closed
  BY <1>1 DEF Ended
<1> QED  BY <1>1, <1>2, EndKeeps DEF FailJob

LEMMA FailRebuildKeeps ==
  ASSUME JobsIInv, FailRebuild
  PROVE  JobsIInv'
BY EndKeeps DEF FailRebuild, Sessions

\* A commit of session x, whose writes rest on the locations stored with them.
LEMMA CommitStep ==
  ASSUME JobsIInv, NEW x \in Sessions, session' = [session EXCEPT ![x] = Ended(x)],
         \A i \in DOMAIN rows' : i \in 1 .. lastId /\ OnRecord(rows'[i], Stamps(located')),
         \A y \in Sessions \ {x} : \A i \in LockedBy(y) :
           i \in DOMAIN rows' => i \in DOMAIN rows /\ rows'[i] = rows[i],
         Extends(located', located), located' \in Seq(Arrivals),
         UNCHANGED <<lastId, arrived, serial>>, Counted'
  PROVE  JobsIInv'
<1>r. PICK r : r = Ended(x)
  OBVIOUS
<1>1. \E at : r = [Closed EXCEPT !.at = at] /\ (at = "closed" \/ (at = "done" /\ x = Rebuild))
  BY <1>r, EndedForm
<1>2. SessionOK(x, r, rows', located', lastId') /\ DOMAIN r.mine = {} /\ r.gone = {}
  <2>r. PICK rs, locs, last : rs = rows' /\ locs = located' /\ last = lastId'
    OBVIOUS
  <2>1. SessionOK(x, r, rs, locs, last) /\ DOMAIN r.mine = {} /\ r.gone = {}
    BY <1>1, ClosedSound
  <2> QED  BY <2>r, <2>1
<1>3. session' = [session EXCEPT ![x] = r]
  BY <1>r
<1>4. lastId' \in Nat /\ lastId' >= lastId /\ serial' \in BOOLEAN
  BY DEF JobsIInv
<1>5. \A y \in Sessions \ {x} : (DOMAIN r.mine \cup r.gone) \cap LockedBy(y) = {}
  BY <1>2
<1>6. /\ session' = [y \in Sessions |-> session'[y]]
      /\ \A y \in Sessions : SessionOK(y, session'[y], rows', located', lastId')
      /\ LocksApart'
  BY <1>2, <1>3, <1>4, <1>5, SessionStep
<1>7. RowsOK'
  BY DEF RowsOK
<1> QED  BY <1>4, <1>6, <1>7 DEF JobsIInv

Forward == \A i \in DOMAIN rows \cap DOMAIN rows' : rows'[i].is_active => rows[i].is_active

LEMMA CommitJobKeeps ==
  ASSUME JobsIInv, NEW j \in Jobs, CommitJob(j)
  PROVE  JobsIInv' /\ Forward
<1>s. PICK s : s = session[j]
  OBVIOUS
<1>p. PICK p : p = s.packet
  OBVIOUS
<1>1. /\ j \in Sessions /\ j # Rebuild /\ s.at # "closed"
      /\ CommitOf(j, s) /\ located' = Append(located, p)
      /\ UNCHANGED <<lastId, arrived, serial>>
  BY <1>s, <1>p, JobConstants DEF Sessions, Rebuild, CommitJob
<1>2. SessionOK(j, s, rows, located, lastId)
  BY <1>1, <1>s DEF JobsIInv
<1>st. PICK stamps : stamps = SeenBy(j, s, located)
  OBVIOUS
<1>3. Shaped(s) /\ ObjectsOK(s, stamps) /\ WritesOK(s, rows, lastId) /\ p \in Arrivals
  BY <1>1, <1>2, <1>st, <1>p DEF SessionOK
<1>4. stamps = Stamps(located) \cup {p.ts} /\ located \in Seq(Arrivals)
  BY <1>1, <1>st, <1>p DEF SeenBy, JobsIInv
<1>5. /\ located' \in Seq(Arrivals) /\ Len(located') = Len(located) + 1
      /\ DOMAIN located' = DOMAIN located \cup {Len(located) + 1}
      /\ \A n \in DOMAIN located : located'[n] = located[n]
      /\ located'[Len(located) + 1] = p
  BY <1>1, <1>3, <1>4, Appended
<1>6. stamps = Stamps(located') /\ Extends(located', located)
  <2>1. Stamps(located') = Stamps(located) \cup {p.ts}
    <3>1. \A n \in DOMAIN located : n \in DOMAIN located' /\ located'[n].ts = located[n].ts
      BY <1>5
    <3>2. \A n \in DOMAIN located' : n \in DOMAIN located \/ located'[n].ts = p.ts
      BY <1>5
    <3>3. Len(located) + 1 \in DOMAIN located' /\ located'[Len(located) + 1].ts = p.ts
      BY <1>5
    <3> QED  BY <3>1, <3>2, <3>3 DEF Stamps
  <2> QED  BY <1>4, <1>5, <2>1 DEF Extends
<1>7. /\ session' = [session EXCEPT ![j] = Ended(j)]
      /\ \A i \in DOMAIN rows' : i \in 1 .. lastId /\ OnRecord(rows'[i], stamps)
      /\ Forward
      /\ \A y \in Sessions \ {j} : \A i \in LockedBy(y) :
           i \in DOMAIN rows' => i \in DOMAIN rows /\ rows'[i] = rows[i]
  <2>1. s.mine = session[j].mine /\ s.gone = session[j].gone /\ Stamps(located) \subseteq stamps
    BY <1>s, <1>4
  <2> QED  BY <1>1, <1>3, <2>1, CommitKeeps DEF Forward
<1>8. Counted'
  <2>1. OpenJobs' \subseteq OpenJobs \ {j} /\ j \in OpenJobs
    <3>1. \A k \in Jobs \ {j} : session'[k] = session[k]
      BY <1>7 DEF JobsIInv, Sessions
    <3>2. session'[j].at = "closed"
      BY <1>1, <1>7 DEF JobsIInv, Ended, Closed
    <3> QED  BY <1>1, <1>s, <3>1, <3>2 DEF OpenJobs
  <2>2. /\ IsFiniteSet(OpenJobs \ {j})
        /\ Cardinality(OpenJobs \ {j}) = Cardinality(OpenJobs) - 1
    BY <2>1, FS_RemoveElement DEF JobsIInv, Counted
  <2>3. /\ IsFiniteSet(OpenJobs') /\ Cardinality(OpenJobs') <= Cardinality(OpenJobs) - 1
        /\ Cardinality(OpenJobs') \in Nat /\ Cardinality(OpenJobs) \in Nat
    BY <2>1, <2>2, FS_Subset, FS_CardinalityType DEF JobsIInv, Counted
  <2>l. PICK l : l = Len(located)
    OBVIOUS
  <2>4. l \in Int /\ Cardinality(OpenJobs) + l <= arrived /\ arrived \in Nat
    BY <2>l, LenProperties DEF JobsIInv, Counted
  <2>5. Len(located') = l + 1 /\ arrived' = arrived
    BY <1>1, <1>5, <2>l
  <2> QED  BY <2>3, <2>4, <2>5 DEF Counted
<1>9. \A i \in DOMAIN rows' : i \in 1 .. lastId /\ OnRecord(rows'[i], Stamps(located'))
  BY <1>6, <1>7
<1>10. JobsIInv'
  BY <1>1, <1>5, <1>6, <1>7, <1>8, <1>9, CommitStep
<1> QED  BY <1>7, <1>10

LEMMA BeginRebuildKeeps ==
  ASSUME JobsIInv, BeginRebuild
  PROVE  JobsIInv'
<1>r. PICK r : r = [Closed EXCEPT !.at = "deleted", !.gone = DOMAIN rows]
  OBVIOUS
<1>1. /\ session' = [session EXCEPT ![Rebuild] = r] /\ serial' = FALSE
      /\ \A j \in Jobs : DOMAIN rows \cap LockedBy(j) = {}
      /\ UNCHANGED <<rows, located, lastId, arrived>>
  BY <1>r DEF BeginRebuild
<1>2. /\ Shaped(r) /\ r.at = "deleted" /\ r.packet = Empty /\ r.selected = {} /\ r.loaded = Empty
      /\ r.now = Empty /\ r.mine = Empty /\ r.gone = DOMAIN rows /\ r.todo = {}
      /\ DOMAIN Empty = {}
  <2>1. DOMAIN Empty = {}
    BY DEF Empty
  <2> QED  BY <1>r, <2>1 DEF Closed, Shaped
<1>3. DOMAIN rows \subseteq 1 .. lastId
  BY DEF JobsIInv, RowsOK
<1>4. SessionOK(Rebuild, r, rows, located, lastId')
  <2>1. ObjectsOK(r, SeenBy(Rebuild, r, located))
    BY <1>2 DEF ObjectsOK
  <2>2. WritesOK(r, rows, lastId')
    BY <1>1, <1>2, <1>3 DEF WritesOK
  <2> QED  BY <1>2, <2>1, <2>2 DEF SessionOK
<1>5. \A y \in Sessions \ {Rebuild} : (DOMAIN r.mine \cup r.gone) \cap LockedBy(y) = {}
  <2> SUFFICES ASSUME NEW y \in Sessions \ {Rebuild}
               PROVE  (DOMAIN r.mine \cup r.gone) \cap LockedBy(y) = {}
    OBVIOUS
  <2>1. DOMAIN rows \cap LockedBy(y) = {}
    BY <1>1 DEF Sessions
  <2>2. DOMAIN r.mine \cup r.gone = DOMAIN rows
    BY <1>2
  <2> QED  BY <2>1, <2>2
<1>6. Rebuild \in Sessions /\ lastId' \in Nat /\ lastId' >= lastId /\ serial' \in BOOLEAN
  <2>1. Rebuild \in Sessions
    BY DEF Sessions
  <2>2. lastId \in Nat /\ lastId' = lastId /\ serial' = FALSE
    BY <1>1 DEF JobsIInv
  <2>3. lastId' >= lastId
    BY <2>2
  <2> QED  BY <2>1, <2>2, <2>3
<1>7. Counted'
  BY <1>1, <1>6, OpenStays
<1> QED  BY <1>1, <1>4, <1>5, <1>6, <1>7, QuietStep

LEMMA SelectLocationsKeeps ==
  ASSUME JobsIInv, SelectLocations
  PROVE  JobsIInv'
<1>s. PICK s : s = session[Rebuild]
  OBVIOUS
<1>r. PICK r : r = [s EXCEPT !.at = "loop", !.todo = DOMAIN located]
  OBVIOUS
<1>0. Rebuild \in Sessions
  BY DEF Sessions
<1>1. /\ session' = [session EXCEPT ![Rebuild] = r] /\ s.at = "deleted"
      /\ UNCHANGED <<rows, located, lastId, arrived, serial>>
  BY <1>0, <1>r, <1>s DEF SelectLocations, JobsIInv
<1>2. SessionOK(Rebuild, s, rows, located, lastId)
  BY <1>0, <1>s DEF JobsIInv
<1>st. PICK stamps : stamps = SeenBy(Rebuild, s, located)
  OBVIOUS
<1>3. Shaped(s) /\ ObjectsOK(s, stamps) /\ WritesOK(s, rows, lastId)
  BY <1>2, <1>st DEF SessionOK
<1>4. /\ Shaped(r) /\ r.at = "loop" /\ r.packet = s.packet
      /\ r.selected = s.selected /\ r.loaded = s.loaded /\ r.now = s.now
      /\ r.mine = s.mine /\ r.gone = s.gone /\ r.todo = DOMAIN located
  BY <1>3, <1>r DEF Shaped
<1>5. ObjectsOK(r, stamps) /\ WritesOK(r, rows, lastId')
  BY <1>1, <1>3, <1>4 DEF ObjectsOK, WritesOK
<1>6. SeenBy(Rebuild, r, located) = stamps
  BY <1>st DEF SeenBy
<1>7. SessionOK(Rebuild, r, rows, located, lastId')
  BY <1>4, <1>5, <1>6 DEF SessionOK
<1>8. \A y \in Sessions \ {Rebuild} : (DOMAIN r.mine \cup r.gone) \cap LockedBy(y) = {}
  <2>1. DOMAIN r.mine \cup r.gone = LockedBy(Rebuild)
    BY <1>4, <1>s DEF LockedBy
  <2> QED  BY <1>0, <2>1 DEF JobsIInv, LocksApart
<1>9. lastId' \in Nat /\ lastId' >= lastId /\ serial' \in BOOLEAN
  BY <1>1 DEF JobsIInv
<1>10. Counted'
  BY <1>0, <1>1, OpenStays
<1> QED  BY <1>0, <1>1, <1>7, <1>8, <1>9, <1>10, QuietStep

LEMMA RebuildNextKeeps ==
  ASSUME JobsIInv, RebuildNext
  PROVE  JobsIInv'
<1>o. PICK o : o = session[Rebuild]
  OBVIOUS
<1>0. Rebuild \in Sessions /\ o.at = "loop"
  BY <1>o DEF Sessions, RebuildNext
<1>1. PICK n \in o.todo : \E ids \in Selections(o) :
        EvaluateIn(Rebuild, [Load(o, ids) EXCEPT !.todo = @ \ {n}], located[n], Moving(located))
  BY <1>o DEF RebuildNext
<1>2. PICK ids \in Selections(o) :
        EvaluateIn(Rebuild, [Load(o, ids) EXCEPT !.todo = @ \ {n}], located[n], Moving(located))
  BY <1>1
<1>s. PICK s : s = Load(o, ids)
  OBVIOUS
<1>e. PICK e : e = [s EXCEPT !.todo = @ \ {n}]
  OBVIOUS
<1>p. PICK p : p = located[n]
  OBVIOUS
<1>m. PICK moving : moving = Moving(located)
  OBVIOUS
<1>3. EvaluateIn(Rebuild, e, p, moving)
  BY <1>2, <1>s, <1>e, <1>p, <1>m
<1>4. SessionOK(Rebuild, o, rows, located, lastId)
  BY <1>0, <1>o DEF JobsIInv
<1>st. PICK stamps : stamps = Stamps(located)
  OBVIOUS
<1>l. PICK l : l = lastId
  OBVIOUS
<1>5. /\ Shaped(o) /\ ObjectsOK(o, stamps) /\ WritesOK(o, rows, l)
      /\ o.todo \subseteq DOMAIN located
  BY <1>0, <1>4, <1>st, <1>l DEF SessionOK, SeenBy
<1>6. p \in Coordinate /\ p.ts \in stamps
  BY <1>5, <1>p, <1>st, ArrivalsType DEF Stamps, JobsIInv
<1>7. \A i \in DOMAIN rows : OnRecord(rows[i], stamps)
  BY <1>st DEF JobsIInv, RowsOK
<1>8. /\ Shaped(s) /\ ObjectsOK(s, stamps) /\ WritesOK(s, rows, l)
      /\ s.at = o.at /\ s.selected = ids /\ s.mine = o.mine /\ s.gone = o.gone
      /\ s.todo = o.todo /\ \A i \in ids : s.loaded[i].is_active
  <2>1. ids \in Selections(o) /\ s = Load(o, ids)
    BY <1>2, <1>s
  <2>2. Shaped(o) /\ ObjectsOK(o, stamps) /\ WritesOK(o, rows, l)
    BY <1>5
  <2>3. Shaped(s) /\ ObjectsOK(s, stamps)
    BY <1>7, <2>1, <2>2, LoadKeeps
  <2>4. WritesOK(s, rows, l)
    BY <1>7, <2>1, <2>2, LoadKeeps
  <2>5. s.at = o.at /\ s.selected = ids
    BY <1>7, <2>1, <2>2, LoadKeeps
  <2>6. s.mine = o.mine /\ s.gone = o.gone /\ s.todo = o.todo
    BY <1>7, <2>1, <2>2, LoadKeeps, ZenonT(30)
  <2>7. \A i \in ids : s.loaded[i].is_active
    BY <1>7, <2>1, <2>2, LoadKeeps
  <2> QED  BY <2>3, <2>4, <2>5, <2>6, <2>7
<1>9. /\ Shaped(e) /\ e.at = "loop" /\ e.packet = s.packet
      /\ e.selected = s.selected /\ e.loaded = s.loaded /\ e.now = s.now
      /\ e.mine = s.mine /\ e.gone = s.gone /\ e.todo \subseteq DOMAIN located
  BY <1>0, <1>5, <1>8, <1>e DEF Shaped
<1>10. ObjectsOK(e, stamps) /\ WritesOK(e, rows, lastId)
  BY <1>8, <1>9, <1>l DEF ObjectsOK, WritesOK
<1>11. /\ lastId' \in Nat /\ lastId' >= lastId
       /\ \E r : /\ session' = [session EXCEPT ![Rebuild] = r]
                 /\ Shaped(r) /\ ObjectsOK(r, stamps) /\ WritesOK(r, rows, lastId')
                 /\ r.at = e.at /\ r.packet = e.packet /\ r.gone = e.gone /\ r.todo = e.todo
                 /\ \A y \in Sessions \ {Rebuild} :
                      (DOMAIN r.mine \cup r.gone) \cap LockedBy(y) = {}
  <2>1. /\ e.mine = session[Rebuild].mine /\ e.gone = session[Rebuild].gone
        /\ \A i \in e.selected : e.loaded[i].is_active
        /\ Stamps(located) \subseteq stamps
    BY <1>o, <1>st, <1>8, <1>9
  <2> QED  BY <1>0, <1>3, <1>6, <1>9, <1>10, <2>1, EvaluateInKeeps
<1>12. PICK r : /\ session' = [session EXCEPT ![Rebuild] = r]
                /\ Shaped(r) /\ ObjectsOK(r, stamps) /\ WritesOK(r, rows, lastId')
                /\ r.at = e.at /\ r.packet = e.packet /\ r.gone = e.gone /\ r.todo = e.todo
                /\ \A y \in Sessions \ {Rebuild} :
                     (DOMAIN r.mine \cup r.gone) \cap LockedBy(y) = {}
  BY <1>11
<1>13. SessionOK(Rebuild, r, rows, located, lastId')
  BY <1>9, <1>12, <1>st DEF SessionOK, SeenBy
<1>14. UNCHANGED <<rows, located, arrived>> /\ serial' \in BOOLEAN
  BY DEF RebuildNext, JobsIInv
<1>15. Counted'
  BY <1>0, <1>12, <1>14, OpenStays
<1> QED  BY <1>0, <1>11, <1>12, <1>13, <1>14, <1>15, QuietStep

LEMMA CommitRebuildKeeps ==
  ASSUME JobsIInv, CommitRebuild
  PROVE  JobsIInv' /\ Forward
<1>o. PICK o : o = session[Rebuild]
  OBVIOUS
<1>0. Rebuild \in Sessions /\ o.at = "loop"
  BY <1>o DEF Sessions, CommitRebuild
<1>1. PICK ids \in Selections(o) :
        LET s == Load(o, ids)
        IN  CommitOf(Rebuild, [s EXCEPT !.now =
                                 Over([i \in ids |-> Close(s.now[i], "COMPLETED")], @)])
  BY <1>o DEF CommitRebuild
<1>s. PICK s : s = Load(o, ids)
  OBVIOUS
<1>put. PICK put : put = [i \in ids |-> Close(s.now[i], "COMPLETED")]
  OBVIOUS
<1>t. PICK t : t = [s EXCEPT !.now = Over(put, @)]
  OBVIOUS
<1>2. CommitOf(Rebuild, t)
  BY <1>1, <1>s, <1>put, <1>t
<1>st. PICK stamps : stamps = Stamps(located)
  OBVIOUS
<1>l. PICK l : l = lastId
  OBVIOUS
<1>3. Shaped(o) /\ ObjectsOK(o, stamps) /\ WritesOK(o, rows, l)
  BY <1>0, <1>o, <1>st, <1>l, ZenonT(30) DEF JobsIInv, SessionOK, SeenBy
<1>4. \A i \in DOMAIN rows : OnRecord(rows[i], stamps)
  BY <1>st DEF JobsIInv, RowsOK
<1>5. /\ Shaped(s) /\ ObjectsOK(s, stamps) /\ WritesOK(s, rows, l)
      /\ s.selected = ids /\ s.mine = o.mine /\ s.gone = o.gone
      /\ \A i \in ids : s.loaded[i].is_active
  <2>1. ids \in Selections(o)
    BY <1>1
  <2> QED  BY <1>3, <1>4, <1>s, <2>1, LoadKeeps, ZenonT(30)
<1>6. DOMAIN put = ids /\ ids \subseteq DOMAIN s.now
      /\ \A i \in ids : put[i] = Close(s.now[i], "COMPLETED")
  BY <1>5, <1>put DEF ObjectsOK
<1>7. \A i \in ids : OnRecord(put[i], stamps)
  <2> SUFFICES ASSUME NEW i \in ids PROVE OnRecord(put[i], stamps)
    OBVIOUS
  <2>v. PICK v : v = s.now[i]
    OBVIOUS
  <2>1. OnRecord(v, stamps) /\ put[i] = Close(v, "COMPLETED")
    BY <1>5, <1>6, <2>v DEF ObjectsOK
  <2> QED  BY <2>1, CloseKeeps DEF OnRecord
<1>8. /\ Shaped(t) /\ ObjectsOK(t, stamps) /\ WritesOK(t, rows, l)
      /\ t.mine = s.mine /\ t.gone = s.gone
  <2>1. DOMAIN put \subseteq DOMAIN s.now
        /\ \A i \in DOMAIN put : s.loaded[i].is_active /\ OnRecord(put[i], stamps)
    BY <1>5, <1>6, <1>7
  <2> QED  BY <1>5, <1>t, <2>1, PutKeeps
<1>9. UNCHANGED <<located, lastId, arrived, serial>>
  BY DEF CommitRebuild
<1>10. /\ session' = [session EXCEPT ![Rebuild] = Ended(Rebuild)]
       /\ \A i \in DOMAIN rows' : i \in 1 .. lastId /\ OnRecord(rows'[i], stamps)
       /\ Forward
       /\ \A y \in Sessions \ {Rebuild} : \A i \in LockedBy(y) :
            i \in DOMAIN rows' => i \in DOMAIN rows /\ rows'[i] = rows[i]
  <2>1. /\ t.mine = session[Rebuild].mine /\ t.gone = session[Rebuild].gone
        /\ Stamps(located) \subseteq stamps /\ WritesOK(t, rows, lastId)
    BY <1>o, <1>l, <1>st, <1>5, <1>8
  <2> QED  BY <1>0, <1>2, <1>8, <2>1, CommitKeeps DEF Forward
<1>11. Stamps(located') = stamps /\ Extends(located', located) /\ located' \in Seq(Arrivals)
  BY <1>9, <1>st DEF Stamps, Extends, JobsIInv
<1>12. Counted'
  BY <1>0, <1>9, <1>10, OpenStays
<1>13. \A i \in DOMAIN rows' : i \in 1 .. lastId /\ OnRecord(rows'[i], Stamps(located'))
  BY <1>10, <1>11
<1>14. JobsIInv'
  BY <1>0, <1>9, <1>10, <1>11, <1>12, <1>13, CommitStep
<1> QED  BY <1>10, <1>14

LEMMA JobsInitHolds == JobsInit => JobsIInv
<1> SUFFICES ASSUME JobsInit PROVE JobsIInv
  OBVIOUS
<1>1. /\ DOMAIN rows = {} /\ located = <<>> /\ lastId = 0 /\ arrived = 0
      /\ session = [x \in Sessions |-> Closed] /\ serial = TRUE
  BY DEF JobsInit, Empty
<1>2. Closed = [Closed EXCEPT !.at = "closed"]
  BY DEF Closed
<1>3. \A x \in Sessions : /\ SessionOK(x, Closed, rows, located, lastId)
                          /\ DOMAIN Closed.mine = {} /\ Closed.gone = {} /\ Closed.at = "closed"
  <2>r. PICK rs, locs, last : rs = rows /\ locs = located /\ last = lastId
    OBVIOUS
  <2>c. PICK c : c = Closed
    OBVIOUS
  <2>1. \A x \in Sessions : /\ SessionOK(x, c, rs, locs, last)
                            /\ DOMAIN c.mine = {} /\ c.gone = {} /\ c.at = "closed"
    BY <1>2, <2>c, ClosedSound
  <2> QED  BY <2>r, <2>c, <2>1
<1>4. RowsOK /\ LocksApart
  BY <1>1, <1>3 DEF RowsOK, LocksApart, LockedBy
<1>5. Counted
  <2>1. OpenJobs = {}
    BY <1>1, <1>3 DEF OpenJobs, Sessions
  <2>2. IsFiniteSet({}) /\ Cardinality({}) = 0
    BY FS_EmptySet
  <2>3. Len(located) = 0
    BY <1>1
  <2> QED  BY <1>1, <2>1, <2>2, <2>3 DEF Counted
<1>6. located \in Seq(Arrivals) /\ lastId \in Nat /\ serial \in BOOLEAN
  BY <1>1
<1>7. session = [x \in Sessions |-> session[x]]
      /\ \A x \in Sessions : SessionOK(x, session[x], rows, located, lastId)
  BY <1>1, <1>3
<1> QED  BY <1>4, <1>5, <1>6, <1>7 DEF JobsIInv

LEMMA JobsNextKeeps ==
  ASSUME JobsIInv, [JobsNext]_jobVars
  PROVE  JobsIInv' /\ Forward
<1>1. CASE UNCHANGED jobVars
  <2>1. JobsIInv'
    BY <1>1 DEF jobVars, JobsIInv, RowsOK, LocksApart, LockedBy, Counted, OpenJobs
  <2> QED  BY <1>1, <2>1 DEF jobVars, Forward
<1>2. ASSUME NEW j \in Jobs, NEW p \in Arrivals, BeginJob(j, p) PROVE JobsIInv' /\ Forward
  BY <1>2, BeginJobKeeps DEF Forward, BeginJob
<1>3. ASSUME NEW j \in Jobs, EvaluateJob(j) PROVE JobsIInv' /\ Forward
  BY <1>3, EvaluateJobKeeps DEF Forward, EvaluateJob
<1>4. ASSUME NEW j \in Jobs, CompleteRoute(j) PROVE JobsIInv' /\ Forward
  BY <1>4, CompleteRouteKeeps DEF Forward, CompleteRoute
<1>5. ASSUME NEW j \in Jobs, CommitJob(j) PROVE JobsIInv' /\ Forward
  BY <1>5, CommitJobKeeps
<1>6. ASSUME NEW j \in Jobs, FailJob(j) PROVE JobsIInv' /\ Forward
  BY <1>6, FailJobKeeps DEF Forward, FailJob
<1>7. CASE BeginRebuild
  BY <1>7, BeginRebuildKeeps DEF Forward, BeginRebuild
<1>8. CASE SelectLocations
  BY <1>8, SelectLocationsKeeps DEF Forward, SelectLocations
<1>9. CASE RebuildNext
  BY <1>9, RebuildNextKeeps DEF Forward, RebuildNext
<1>10. CASE CommitRebuild
  BY <1>10, CommitRebuildKeeps
<1>11. CASE FailRebuild
  BY <1>11, FailRebuildKeeps DEF Forward, FailRebuild
<1> QED
  BY <1>1, <1>2, <1>3, <1>4, <1>5, <1>6, <1>7, <1>8, <1>9, <1>10, <1>11 DEF JobsNext

(***************************************************************************)
(* The inductive invariant of sessions that overlap: the objects a session *)
(* has loaded, what a flush of it would write, the locks that keep writers *)
(* apart, and the rows that are committed.                                 *)
(***************************************************************************)
THEOREM JobsInvariant == JobsSpec => []JobsIInv
<1>1. JobsIInv /\ [JobsNext]_jobVars => JobsIInv'
  BY JobsNextKeeps
<1> QED  BY JobsInitHolds, <1>1, PTL DEF JobsSpec

(***************************************************************************)
(* A trip is committed together with the locations it starts and ends at.  *)
(***************************************************************************)
LEMMA InvariantRests == JobsIInv => TripsRestOnLocations
<1> SUFFICES ASSUME JobsIInv PROVE TripsRestOnLocations
  OBVIOUS
<1>1. JobsTypeOK
  <2>1. \A i \in DOMAIN rows : i \in 1 .. lastId /\ rows[i] \in Trip
    BY DEF JobsIInv, RowsOK, OnRecord, Consistent
  <2>2. Len(located) <= arrived
    <3>1. Cardinality(OpenJobs) \in Nat
      BY FS_CardinalityType DEF JobsIInv, Counted
    <3>l. PICK l : l = Len(located)
      OBVIOUS
    <3>2. l \in Nat /\ Cardinality(OpenJobs) + l <= arrived /\ arrived \in Nat
      BY <3>l, LenProperties DEF JobsIInv, Counted
    <3>3. l <= arrived
      BY <3>1, <3>2
    <3> QED  BY <3>l, <3>3
  <2>3. \A x \in Sessions : /\ DOMAIN session[x].now = DOMAIN session[x].loaded
                            /\ session[x].selected \subseteq DOMAIN session[x].now
                            /\ session[x].todo \subseteq DOMAIN located
    BY DEF JobsIInv, SessionOK, ObjectsOK
  <2> QED  BY <2>1, <2>2, <2>3 DEF JobsIInv, JobsTypeOK
<1>2. \A i \in DOMAIN rows :
        /\ {rows[i].start_time, rows[i].end_time} \subseteq {located[n].ts : n \in DOMAIN located}
        /\ rows[i].is_active <=> rows[i].status = "ACTIVE"
  BY DEF JobsIInv, RowsOK, OnRecord, Consistent, Stamps
<1> QED  BY <1>1, <1>2 DEF TripsRestOnLocations

(***************************************************************************)
(* However the sessions of packets and of a rebuild overlap and fail, a    *)
(* committed trip starts and ends at a stored location, and its status and *)
(* its flag tell the same.                                                 *)
(***************************************************************************)
THEOREM CommittedTripsRest == JobsSpec => []TripsRestOnLocations
<1> QED  BY InvariantRests, JobsInvariant, PTL

-----------------------------------------------------------------------------
(***************************************************************************)
(* Jobs that do not overlap: what the session of the one open job holds    *)
(* is what TripEngine does to the committed trips in one step.             *)
(***************************************************************************)
\* Rows in the order of their ids.
Place(ids, i) == Cardinality({k \in ids : k <= i})
IdAt(ids, n)  == CHOOSE i \in ids : Place(ids, i) = n

Enumerated(ids) == \A n \in 1 .. Cardinality(ids) : \E i \in ids : Place(ids, i) = n

LEMMA PlaceFacts ==
  ASSUME NEW ids, ids \subseteq Nat, IsFiniteSet(ids), Enumerated(ids)
  PROVE  /\ \A n \in 1 .. Cardinality(ids) : IdAt(ids, n) \in ids /\ Place(ids, IdAt(ids, n)) = n
         /\ \A i \in ids : /\ Place(ids, i) \in 1 .. Cardinality(ids)
                           /\ IdAt(ids, Place(ids, i)) = i
<1>1. \A n \in 1 .. Cardinality(ids) : IdAt(ids, n) \in ids /\ Place(ids, IdAt(ids, n)) = n
  BY DEF Enumerated, IdAt
<1>2. Cardinality(ids) \in Nat
  BY FS_CardinalityType
<1>3. \A i \in ids : Place(ids, i) \in 1 .. Cardinality(ids)
  <2> SUFFICES ASSUME NEW i \in ids PROVE Place(ids, i) \in 1 .. Cardinality(ids)
    OBVIOUS
  <2>s. PICK S : S = {k \in ids : k <= i}
    OBVIOUS
  <2>1. S \subseteq ids /\ i \in S
    BY <2>s
  <2>2. IsFiniteSet(S) /\ Cardinality(S) <= Cardinality(ids) /\ Cardinality(S) \in Nat
    BY <2>1, FS_Subset, FS_CardinalityType
  <2>3. Cardinality(S) # 0
    BY <2>1, <2>2, FS_EmptySet
  <2> QED  BY <1>2, <2>2, <2>3, <2>s DEF Place
<1>4. \A i, k \in ids : i < k => Place(ids, i) # Place(ids, k)
  <2> SUFFICES ASSUME NEW i \in ids, NEW k \in ids, i < k
               PROVE  Place(ids, i) # Place(ids, k)
    OBVIOUS
  <2>s. PICK S : S = {m \in ids : m <= i}
    OBVIOUS
  <2>t. PICK T : T = {m \in ids : m <= k}
    OBVIOUS
  <2>1. S \subseteq T /\ k \in T /\ k \notin S
    <3>1. i \in Nat /\ k \in Nat /\ \A m \in ids : m \in Nat
      OBVIOUS
    <3>2. \A m \in Nat : m <= i => m <= k
      BY <3>1
    <3>3. ~(k <= i) /\ k <= k
      BY <3>1
    <3> QED  BY <3>1, <3>2, <3>3, <2>s, <2>t
  <2>2. IsFiniteSet(T)
    BY <2>t, FS_Subset
  <2>3. Cardinality(S) # Cardinality(T)
    BY <2>1, <2>2, FS_Subset
  <2> QED  BY <2>3, <2>s, <2>t DEF Place
<1>5. \A i \in ids : IdAt(ids, Place(ids, i)) = i
  <2> SUFFICES ASSUME NEW i \in ids PROVE IdAt(ids, Place(ids, i)) = i
    OBVIOUS
  <2>k. PICK k : k = IdAt(ids, Place(ids, i))
    OBVIOUS
  <2>1. k \in ids /\ Place(ids, k) = Place(ids, i)
    BY <1>1, <1>3, <2>k
  <2>2. ~(i < k) /\ ~(k < i) /\ i \in Nat /\ k \in Nat
    BY <1>4, <2>1
  <2> QED  BY <2>2, <2>k
<1> QED  BY <1>1, <1>3, <1>5

Begins(more, ids, c) == \A n \in 1 .. c : IdAt(more, n) = IdAt(ids, n)

\* A row whose id is greater than all others comes last.
LEMMA PlaceGrows ==
  ASSUME NEW ids, ids \subseteq Nat, IsFiniteSet(ids), Enumerated(ids),
         NEW m \in Nat, \A i \in ids : i < m, NEW more, more = ids \cup {m},
         NEW c \in Nat, c = Cardinality(ids)
  PROVE  /\ more \subseteq Nat /\ IsFiniteSet(more) /\ Enumerated(more)
         /\ Cardinality(more) = c + 1
         /\ Begins(more, ids, c) /\ IdAt(more, c + 1) = m
<1>1. m \notin ids
  OBVIOUS
<1>2. IsFiniteSet(more) /\ Cardinality(more) = c + 1 /\ c \in Nat
  BY <1>1, FS_AddElement, FS_CardinalityType
<1>3. \A i \in ids : Place(more, i) = Place(ids, i)
  <2> SUFFICES ASSUME NEW i \in ids PROVE {k \in more : k <= i} = {k \in ids : k <= i}
    BY DEF Place
  <2>1. ~(m <= i)
    OBVIOUS
  <2> QED  BY <2>1
<1>4. Place(more, m) = c + 1
  <2>0. m <= m /\ \A k \in ids : k <= m
    OBVIOUS
  <2>1. {k \in more : k <= m} = more
    BY <2>0
  <2> QED  BY <1>2, <2>1 DEF Place
<1>5. Enumerated(more)
  <2> SUFFICES ASSUME NEW n \in 1 .. c + 1 PROVE \E i \in more : Place(more, i) = n
    BY <1>2 DEF Enumerated
  <2>1. CASE n = c + 1
    BY <1>4, <2>1
  <2>2. CASE n # c + 1
    <3>1. n \in 1 .. c
      BY <1>2, <2>2
    <3>2. PICK i \in ids : Place(ids, i) = n
      BY <3>1 DEF Enumerated
    <3> QED  BY <1>3, <3>2
  <2> QED  BY <2>1, <2>2
<1>6. more \subseteq Nat
  OBVIOUS
<1>7. \A i \in more : IdAt(more, Place(more, i)) = i
  BY <1>2, <1>5, <1>6, PlaceFacts
<1>8. ASSUME NEW n \in 1 .. c PROVE IdAt(more, n) = IdAt(ids, n)
  <2>k. PICK k : k = IdAt(ids, n)
    OBVIOUS
  <2>1. k \in ids /\ Place(ids, k) = n
    BY <2>k, PlaceFacts
  <2>2. k \in more /\ Place(more, k) = n
    BY <1>3, <2>1
  <2> QED  BY <1>7, <2>2, <2>k
<1>9. IdAt(more, c + 1) = m
  BY <1>4, <1>7
<1> QED  BY <1>2, <1>5, <1>6, <1>8, <1>9 DEF Begins

LEMMA CommittedRows ==
  Committed = [n \in 1 .. Cardinality(DOMAIN rows) |-> rows[IdAt(DOMAIN rows, n)]]
BY DEF Committed, IdAt, Place

-----------------------------------------------------------------------------
\* What the queries for the last moving and for the newest location see.
LEMMA MovingAppend ==
  ASSUME NEW locs \in Seq(Arrivals), NEW p \in Arrivals
  PROVE  Moving(Append(locs, p)) =
           Moving(locs) \cup (IF p.speed >= StartSpeed THEN {p.ts} ELSE {})
<1>n. PICK n \in Nat : n = Len(locs) /\ DOMAIN locs = 1 .. n
  OBVIOUS
<1>a. PICK more : more = Append(locs, p)
  OBVIOUS
<1>1. /\ DOMAIN more = DOMAIN locs \cup {n + 1}
      /\ \A i \in DOMAIN locs : more[i] = locs[i]
      /\ more[n + 1] = p
  BY <1>n, <1>a, Appended
<1>2. \A t : t \in Moving(more) <=>
              \E m \in DOMAIN more : more[m].speed >= StartSpeed /\ t = more[m].ts
  BY DEF Moving
<1>3. \A t : t \in Moving(locs) <=>
              \E m \in DOMAIN locs : locs[m].speed >= StartSpeed /\ t = locs[m].ts
  BY DEF Moving
<1>4. \A t : t \in Moving(more) <=> t \in Moving(locs) \/ (p.speed >= StartSpeed /\ t = p.ts)
  BY <1>1, <1>2, <1>3
<1> QED  BY <1>4, <1>a

IsNewest(t, locs) ==
  /\ \E n \in DOMAIN locs : locs[n].ts = t
  /\ \A n \in DOMAIN locs : locs[n].ts <= t

NewestKnown == located # <<>> => \E t \in Times : IsNewest(t, located)

LEMMA NewestFact ==
  ASSUME located \in Seq(Arrivals), NewestKnown
  PROVE  IF located = <<>> THEN Newest = -1
         ELSE Newest \in Times /\ IsNewest(Newest, located)
<1>1. CASE located = <<>>
  BY <1>1 DEF Newest
<1>2. CASE located # <<>>
  <2>1. Newest = CHOOSE t \in Times : IsNewest(t, located)
    BY <1>2 DEF Newest, IsNewest
  <2>2. \E t \in Times : IsNewest(t, located)
    BY <1>2 DEF NewestKnown
  <2> QED  BY <1>2, <2>1, <2>2
<1> QED  BY <1>1, <1>2

InOrderOf(locs) ==
  \A n \in 2 .. Len(locs) : \A m \in 1 .. n - 1 : locs[m].ts <= locs[n].ts

LEMMA NewestStep ==
  ASSUME located \in Seq(Arrivals), NewestKnown, NEW p \in Arrivals,
         located' = Append(located, p)
  PROVE  /\ NewestKnown'
         /\ Newest' = IF p.ts > Newest THEN p.ts ELSE Newest
         /\ InOrderOf(located') <=> InOrderOf(located) /\ p.ts >= Newest
<1>n. PICK n \in Nat : n = Len(located) /\ DOMAIN located = 1 .. n
  OBVIOUS
<1>a. PICK locs, more : locs = located /\ more = located'
  OBVIOUS
<1>1. /\ more \in Seq(Arrivals) /\ Len(more) = n + 1 /\ DOMAIN more = DOMAIN locs \cup {n + 1}
      /\ \A i \in DOMAIN locs : more[i] = locs[i]
      /\ more[n + 1] = p
  BY <1>n, <1>a, Appended
<1>0. p.ts \in Times /\ p.ts \in Nat /\ Times \subseteq Nat
  BY JobConstants, Constants DEF Coordinate
<1>w. PICK w : w = Newest
  OBVIOUS
<1>2. IF locs = <<>> THEN w = -1 ELSE w \in Times /\ IsNewest(w, locs)
  BY <1>w, <1>a, NewestFact
<1>3. w \in Int /\ \A i \in DOMAIN locs : locs[i].ts \in Nat /\ locs[i].ts <= w
  <2>1. \A i \in DOMAIN locs : locs[i] \in Arrivals
    BY <1>a
  <2>2. CASE locs = <<>>
    BY <1>2, <2>2
  <2>3. CASE locs # <<>>
    BY <1>0, <1>2, <2>1, <2>3, ArrivalsType DEF IsNewest
  <2> QED  BY <2>2, <2>3
<1>v. PICK v : v = IF p.ts > w THEN p.ts ELSE w
  OBVIOUS
<1>4. v \in Times /\ IsNewest(v, more)
  <2>1. CASE p.ts > w
    <3>1. v = p.ts
      BY <1>v, <2>1
    <3>2. \A i \in DOMAIN more : more[i].ts <= p.ts
      BY <1>0, <1>1, <1>3, <2>1
    <3> QED  BY <1>0, <1>1, <3>1, <3>2 DEF IsNewest
  <2>2. CASE ~(p.ts > w)
    <3>1. locs # <<>> /\ v = w
      BY <1>0, <1>2, <1>v, <2>2
    <3>2. \A i \in DOMAIN more : more[i].ts <= w
      BY <1>0, <1>1, <1>3, <2>2
    <3>3. \E i \in DOMAIN more : more[i].ts = w
      BY <1>1, <1>2, <3>1 DEF IsNewest
    <3> QED  BY <1>2, <3>1, <3>2, <3>3 DEF IsNewest
  <2> QED  BY <2>1, <2>2
<1>5. more # <<>>
  BY <1>1
<1>6. NewestKnown'
  BY <1>4, <1>5, <1>a DEF NewestKnown
<1>7. Newest' = v
  <2>1. Newest' = CHOOSE t \in Times : IsNewest(t, more)
    BY <1>5, <1>a DEF Newest, IsNewest
  <2>2. \A t \in Times : IsNewest(t, more) => t = v
    <3>1. v \in Nat
      BY <1>0, <1>4
    <3> SUFFICES ASSUME NEW t \in Times, IsNewest(t, more) PROVE t = v
      OBVIOUS
    <3>2. t \in Nat /\ t <= v /\ v <= t
      BY <1>0, <1>4, <3>1 DEF IsNewest
    <3> QED  BY <3>1, <3>2
  <2> QED  BY <1>4, <2>1, <2>2
<1>8. InOrderOf(more) <=> InOrderOf(locs) /\ p.ts >= w
  <2>1. InOrderOf(more) <=> InOrderOf(locs) /\ \A m \in 1 .. n : locs[m].ts <= p.ts
    <3>1. Len(locs) = n /\ Len(more) = n + 1
      BY <1>a, <1>n, <1>1
    <3>2. ASSUME InOrderOf(more) PROVE InOrderOf(locs) /\ \A m \in 1 .. n : locs[m].ts <= p.ts
      <4>1. ASSUME NEW k \in 2 .. n, NEW m \in 1 .. k - 1 PROVE locs[m].ts <= locs[k].ts
        <5>1. k \in 2 .. n + 1 /\ more[m] = locs[m] /\ more[k] = locs[k]
          BY <1>a, <1>n, <1>1
        <5> QED  BY <3>1, <3>2, <5>1 DEF InOrderOf
      <4>2. ASSUME NEW m \in 1 .. n PROVE locs[m].ts <= p.ts
        <5>1. n + 1 \in 2 .. n + 1 /\ m \in 1 .. (n + 1) - 1 /\ more[m] = locs[m] /\ more[n + 1] = p
          BY <1>a, <1>n, <1>1
        <5> QED  BY <3>1, <3>2, <5>1 DEF InOrderOf
      <4> QED  BY <3>1, <4>1, <4>2 DEF InOrderOf
    <3>3. ASSUME InOrderOf(locs), \A m \in 1 .. n : locs[m].ts <= p.ts PROVE InOrderOf(more)
      <4> SUFFICES ASSUME NEW k \in 2 .. n + 1, NEW m \in 1 .. k - 1
                   PROVE  more[m].ts <= more[k].ts
        BY <3>1 DEF InOrderOf
      <4>1. CASE k = n + 1
        <5>1. m \in 1 .. n /\ more[m] = locs[m] /\ more[k] = p
          BY <1>a, <1>n, <1>1, <4>1
        <5> QED  BY <3>3, <5>1
      <4>2. CASE k # n + 1
        <5>1. k \in 2 .. n /\ more[m] = locs[m] /\ more[k] = locs[k]
          BY <1>a, <1>n, <1>1, <4>2
        <5> QED  BY <3>1, <3>3, <5>1 DEF InOrderOf
      <4> QED  BY <4>1, <4>2
    <3> QED  BY <3>2, <3>3
  <2>2. (\A m \in 1 .. n : locs[m].ts <= p.ts) <=> p.ts >= w
    <3>1. CASE locs = <<>>
      BY <1>0, <1>2, <1>a, <1>n, <3>1
    <3>2. CASE locs # <<>>
      <4>1. PICK k \in 1 .. n : locs[k].ts = w
        BY <1>2, <1>a, <1>n, <3>2 DEF IsNewest
      <4>2. \A m \in 1 .. n : locs[m].ts \in Nat /\ locs[m].ts <= w
        BY <1>3, <1>a, <1>n
      <4> QED  BY <1>0, <1>3, <4>1, <4>2
    <3> QED  BY <3>1, <3>2
  <2> QED  BY <2>1, <2>2
<1> QED  BY <1>6, <1>7, <1>8, <1>a, <1>v, <1>w

-----------------------------------------------------------------------------
\* The active trip, if there is one, is loaded as it was committed.
Fresh(s, rs) ==
  /\ DOMAIN s.mine = {}
  /\ s.selected = ActiveIn(rs) /\ DOMAIN s.now = ActiveIn(rs)
  /\ \A i \in ActiveIn(rs) : s.now[i] = rs[i] /\ s.loaded[i] = rs[i]

\* What the evaluation makes of a trip that it does not replace by a new one.
Ruled(t, p, v, locs) ==
  \/ Late(t, p) /\ v = t
  \/ AfterGap(t, p) /\ ~Starts(p) /\ v = Close(t, "COMPLETED")
  \/ InTime(t, p) /\ \E flushed \in BOOLEAN :
       v = Update(t, p, Moving(IF flushed THEN Append(locs, p) ELSE locs))

GoesOn(s, p, done, rs, locs) ==
  /\ DOMAIN s.mine = {} /\ DOMAIN s.now = ActiveIn(rs)
  /\ ActiveIn(rs) = {} => ~Starts(p)
  /\ \A i \in ActiveIn(rs) :
       /\ s.loaded[i] = rs[i]
       /\ \E v : Ruled(rs[i], p, v, locs) /\ s.now[i] = RouteClose(v, p, done)

StartsNew(s, p, done, rs, last) ==
  /\ Starts(p)
  /\ \A i \in DOMAIN rs : i < last
  /\ DOMAIN s.now = ActiveIn(rs) \cup {last} /\ DOMAIN s.mine = DOMAIN s.now
  /\ s.mine[last] = NewTrip(p) /\ s.loaded[last] = NewTrip(p)
  /\ s.now[last] = RouteClose(NewTrip(p), p, done)
  /\ \A i \in ActiveIn(rs) :
       /\ AfterGap(rs[i], p)
       /\ s.now[i] = Close(rs[i], "COMPLETED")
       /\ s.loaded[i] = s.now[i] /\ s.mine[i] = s.now[i]

Pending(s, rs, locs, last) ==
  IF s.at = "selected" THEN Fresh(s, rs)
  ELSE \/ GoesOn(s, s.packet, s.at = "completed", rs, locs)
       \/ StartsNew(s, s.packet, s.at = "completed", rs, last)

\* Nothing overlaps: a single job is open, and it finds at most one active trip.
Sole ==
  /\ session[Rebuild].at = "closed"
  /\ \A j, k \in OpenJobs : j = k
  /\ \A i, k \in ActiveIn(rows) : i = k
  /\ IsFiniteSet(DOMAIN rows) /\ Enumerated(DOMAIN rows)
  /\ \A j \in OpenJobs : Pending(session[j], rows, located, lastId)

SerialInv == (serial => Sole) /\ NewestKnown /\ arrived <= MaxPackets

-----------------------------------------------------------------------------
\* A session that wrote and deleted nothing sees what is committed.
LEMMA SeenCommitted ==
  ASSUME NEW s, s.gone = {}, DOMAIN s.mine = {}
  PROVE  \A i \in DOMAIN rows : Seen(s)[i] = rows[i]
<1>1. DOMAIN Seen(s) = DOMAIN rows
  BY SeenRow
<1>2. \A i \in DOMAIN Seen(s) : i \notin DOMAIN s.mine
  OBVIOUS
<1> QED  BY <1>1, <1>2, SeenRow

LEMMA WriteOver ==
  ASSUME NEW t \in Trip, NEW v \in Trip
  PROVE  Write(t, t, v) = v
<1>w. PICK w : w = Write(t, t, v)
  OBVIOUS
<1>1. /\ w = [c \in DOMAIN t |-> IF v[c] = t[c] THEN t[c] ELSE v[c]]
      /\ DOMAIN t = DOMAIN v /\ v = [c \in DOMAIN v |-> v[c]]
  BY <1>w DEF Write, Trip
<1>2. \A c \in DOMAIN t : (IF v[c] = t[c] THEN t[c] ELSE v[c]) = v[c]
  OBVIOUS
<1> QED  BY <1>1, <1>2, <1>w

LEMMA NotDone == ASSUME NEW t, NEW p PROVE RouteClose(t, p, FALSE) = t
BY DEF RouteClose

\* Of two jobs that do not overlap only one can take a step.
LEMMA Alone ==
  ASSUME Sole, NEW j \in Jobs, session[j].at # "closed"
  PROVE  \A k \in Jobs \ {j} : session[k].at = "closed"
BY DEF Sole, OpenJobs

LEMMA SoleStep ==
  ASSUME JobsIInv, Sole, NEW j \in Jobs, NEW r, session' = [session EXCEPT ![j] = r],
         \A k \in Jobs \ {j} : session[k].at = "closed",
         UNCHANGED <<rows, located>>,
         r.at = "closed" \/ Pending(r, rows, located, lastId')
  PROVE  Sole'
<1>1. j \in Sessions /\ Rebuild \in Sessions /\ j # Rebuild
  BY JobConstants DEF Sessions, Rebuild
<1>2. session'[Rebuild] = session[Rebuild] /\ session'[j] = r
      /\ \A k \in Jobs \ {j} : session'[k] = session[k]
  BY <1>1 DEF JobsIInv, Sessions
<1>3. \A k \in Jobs : session'[k].at # "closed" => k = j
  BY <1>2
<1>4. session'[Rebuild].at = "closed"
  BY <1>2 DEF Sole
<1>5. \A k, m \in OpenJobs' : k = m
  BY <1>3 DEF OpenJobs
<1>6. \A k \in OpenJobs' : Pending(session'[k], rows', located', lastId')
  <2>r. PICK rs, locs : rs = rows /\ locs = located
    OBVIOUS
  <2>1. rs = rows' /\ locs = located' /\ (r.at = "closed" \/ Pending(r, rs, locs, lastId'))
    BY <2>r
  <2>2. \A k \in OpenJobs' : k = j /\ r.at # "closed"
    BY <1>2, <1>3 DEF OpenJobs
  <2> QED  BY <1>2, <2>1, <2>2
<1>7. UNCHANGED rows
  OBVIOUS
<1>8. (\A i, k \in ActiveIn(rows') : i = k) /\ IsFiniteSet(DOMAIN rows') /\ Enumerated(DOMAIN rows')
  BY <1>7 DEF Sole
<1> QED  BY <1>4, <1>5, <1>6, <1>8 DEF Sole

LEMMA BeginSole ==
  ASSUME JobsIInv, Sole, NEW j \in Jobs, NEW p \in Arrivals, BeginJob(j, p), serial'
  PROVE  Sole'
<1>1. PICK ids \in Selections(Closed) :
        session' = [session EXCEPT ![j] =
                      [Load(Closed, ids) EXCEPT !.at = "selected", !.packet = p]]
  BY DEF BeginJob
<1>f. PICK fresh : fresh = [i \in ids |-> Seen(Closed)[i]]
  OBVIOUS
<1>r. PICK r : r = [Load(Closed, ids) EXCEPT !.at = "selected", !.packet = p]
  OBVIOUS
<1>2. DOMAIN Empty = {} /\ Closed.mine = Empty /\ Closed.gone = {}
  BY DEF Empty, Closed
<1>3. /\ r.at = "selected" /\ r.selected = ids /\ r.mine = Empty
      /\ r.loaded = Over(Empty, fresh) /\ r.now = Over(Empty, fresh)
  BY <1>r, <1>f DEF Load, Closed
<1>4. /\ DOMAIN Seen(Closed) = DOMAIN rows
      /\ \A i \in DOMAIN rows : Seen(Closed)[i] = rows[i]
  BY <1>2, SeenRow
<1>5. ActiveIn(Seen(Closed)) = ActiveIn(rows)
  BY <1>4 DEF ActiveIn
<1>6. ids = ActiveIn(rows)
  <2>1. (ids = {} /\ ActiveIn(rows) = {}) \/ \E i \in ActiveIn(rows) : ids = {i}
    BY <1>5 DEF Selections
  <2> QED  BY <2>1 DEF Sole
<1>7. ActiveIn(rows) \subseteq DOMAIN rows
  BY DEF ActiveIn
<1>8. /\ DOMAIN r.now = ids /\ \A i \in ids : r.now[i] = rows[i] /\ r.loaded[i] = rows[i]
  BY <1>2, <1>3, <1>4, <1>6, <1>7, <1>f DEF Over
<1>9. Fresh(r, rows)
  BY <1>2, <1>3, <1>6, <1>8 DEF Fresh
<1>10. \A k \in Jobs : session[k].at = "closed"
  BY DEF BeginJob
<1>11. Pending(r, rows, located, lastId') /\ UNCHANGED <<rows, located>>
  BY <1>3, <1>9 DEF Pending, BeginJob
<1> QED  BY <1>1, <1>r, <1>10, <1>11, SoleStep

LEMMA FailSole ==
  ASSUME JobsIInv, Sole, NEW j \in Jobs, FailJob(j)
  PROVE  Sole'
<1>r. PICK r : r = Closed
  OBVIOUS
<1>1. /\ session[j].at # "closed" /\ session' = [session EXCEPT ![j] = r]
      /\ UNCHANGED <<rows, located>> /\ r.at = "closed"
  BY <1>r DEF FailJob, Closed
<1> QED  BY <1>1, Alone, SoleStep

LEMMA EvaluateSole ==
  ASSUME JobsIInv, Sole, NEW j \in Jobs, EvaluateJob(j)
  PROVE  Sole'
<1>s. PICK s : s = session[j]
  OBVIOUS
<1>e. PICK e : e = [s EXCEPT !.at = "evaluated"]
  OBVIOUS
<1>p. PICK p : p = s.packet
  OBVIOUS
<1>l. PICK l \in Nat : l = lastId
  BY DEF JobsIInv
<1>1. /\ j \in Sessions /\ j # Rebuild /\ s.at = "selected"
      /\ UNCHANGED <<rows, located, arrived, serial>>
  BY <1>s, JobConstants DEF Sessions, Rebuild, EvaluateJob
<1>2. Shaped(s) /\ p \in Coordinate /\ s.gone = {} /\ DOMAIN s.loaded = DOMAIN s.now
  BY <1>1, <1>s, <1>p, ArrivalsType DEF JobsIInv, SessionOK, ObjectsOK
<1>3. /\ Shaped(e) /\ e.at = "evaluated" /\ e.packet = p
      /\ e.selected = s.selected /\ e.loaded = s.loaded /\ e.now = s.now
      /\ e.mine = s.mine /\ e.gone = s.gone /\ e.todo = s.todo
  BY <1>2, <1>e, <1>p DEF Shaped
<1>4. Fresh(s, rows)
  BY <1>1, <1>s DEF Sole, OpenJobs, Pending
<1>rs. PICK rs, locs : rs = rows /\ locs = located
  OBVIOUS
<1>5. /\ DOMAIN e.mine = {} /\ e.gone = {}
      /\ e.selected = ActiveIn(rs) /\ DOMAIN e.now = ActiveIn(rs) /\ DOMAIN e.loaded = ActiveIn(rs)
      /\ \A i \in ActiveIn(rs) : e.now[i] = rs[i] /\ e.loaded[i] = rs[i]
  BY <1>2, <1>3, <1>4, <1>rs DEF Fresh
<1>6. /\ \A i, k \in ActiveIn(rs) : i = k
      /\ \A i \in DOMAIN rs : i \in 1 .. l /\ Consistent(rs[i])
      /\ \A i \in ActiveIn(rs) : i \in DOMAIN rs /\ rs[i].is_active
  BY <1>rs, <1>l DEF Sole, JobsIInv, RowsOK, OnRecord, ActiveIn
<1>7. PICK flushed \in BOOLEAN :
        EvaluateIn(j, e, p, Moving(IF flushed THEN Append(located, p) ELSE located))
  BY <1>s, <1>e, <1>p DEF EvaluateJob
<1>m. PICK moving : moving = Moving(IF flushed THEN Append(locs, p) ELSE locs)
  OBVIOUS
<1>8. EvaluateIn(j, e, p, moving)
  BY <1>7, <1>m, <1>rs
<1> DEFINE old  == IF e.selected = {} THEN <<>>
                   ELSE <<e.now[CHOOSE i \in e.selected : TRUE]>>
           new  == Evaluated(old, DOMAIN old, p, moving)
           put  == [i \in e.selected |-> new[1]]
           kept == [e EXCEPT !.now = Over(put, @)]
           made == [i \in {lastId + 1} |-> new[Len(new)]]
<1>9. IF Len(new) = Len(old)
      THEN session' = [session EXCEPT ![j] = kept] /\ lastId' = l
      ELSE /\ CanFlush(j, kept) /\ lastId' = l + 1
           /\ session' = [session EXCEPT ![j] = Added(Flushed(kept), made)]
  BY <1>8, <1>l DEF EvaluateIn, Added
<1>old. old = IF e.selected = {} THEN <<>> ELSE <<e.now[CHOOSE i \in e.selected : TRUE]>>
  OBVIOUS
<1>new. new = Evaluated(old, DOMAIN old, p, moving)
  OBVIOUS
<1>put. DOMAIN put = e.selected /\ \A i \in e.selected : put[i] = new[1]
  OBVIOUS
<1>kept. kept = [e EXCEPT !.now = Over(put, @)]
  OBVIOUS
<1>made. DOMAIN made = {l + 1} /\ made[l + 1] = new[Len(new)]
  BY <1>l
<1> HIDE DEF old, new, put, kept, made
<1>10. /\ Shaped(kept) /\ kept.at = "evaluated" /\ kept.packet = p /\ kept.loaded = e.loaded
       /\ kept.mine = e.mine /\ kept.gone = e.gone /\ kept.now = Over(put, e.now)
  BY <1>kept, <1>3 DEF Shaped
<1>11. /\ DOMAIN kept.now = ActiveIn(rs)
       /\ \A i \in ActiveIn(rs) : kept.now[i] = new[1] /\ kept.loaded[i] = rs[i]
  BY <1>10, <1>put, <1>5 DEF Over
<1>12. \/ ActiveIn(rs) = {} /\ Len(old) = 0 /\ new = IF Starts(p) THEN <<NewTrip(p)>> ELSE <<>>
       \/ /\ Len(old) = 1
          /\ \E i \in DOMAIN rs :
               /\ ActiveIn(rs) = {i}
               /\ \/ Len(new) = 1 /\ Ruled(rs[i], p, new[1], locs)
                  \/ /\ Len(new) = 2 /\ AfterGap(rs[i], p) /\ Starts(p)
                     /\ new[1] = Close(rs[i], "COMPLETED") /\ new[2] = NewTrip(p)
  <2>1. CASE ActiveIn(rs) = {}
    <3>1. old = <<>> /\ Len(old) = 0
      BY <1>old, <1>5, <2>1
    <3> QED  BY <1>new, <2>1, <3>1, NoneOutcome
  <2>2. CASE ActiveIn(rs) # {}
    <3>1. PICK i \in ActiveIn(rs) : i = CHOOSE k \in ActiveIn(rs) : TRUE
      BY <2>2
    <3>2. i \in DOMAIN rs /\ ActiveIn(rs) = {i} /\ Consistent(rs[i])
      BY <1>6, <3>1
    <3>t. PICK t : t = rs[i]
      OBVIOUS
    <3>3. old = <<t>> /\ Len(old) = 1
      BY <1>old, <1>5, <2>2, <3>1, <3>t
    <3>4. \/ Late(t, p) /\ new = <<t>>
          \/ AfterGap(t, p) /\ ~Starts(p) /\ new = <<Close(t, "COMPLETED")>>
          \/ AfterGap(t, p) /\ Starts(p) /\ new = <<Close(t, "COMPLETED"), NewTrip(p)>>
          \/ InTime(t, p) /\ new = <<Update(t, p, moving)>>
      BY <1>2, <1>new, <3>2, <3>3, <3>t, SingleOutcome
    <3>c. PICK c : c = Close(t, "COMPLETED")
      OBVIOUS
    <3>u. PICK u : u = Update(t, p, moving)
      OBVIOUS
    <3>n. PICK n : n = NewTrip(p)
      OBVIOUS
    <3>5. \/ Late(t, p) /\ new = <<t>>
          \/ AfterGap(t, p) /\ ~Starts(p) /\ new = <<c>>
          \/ AfterGap(t, p) /\ Starts(p) /\ new = <<c, n>>
          \/ InTime(t, p) /\ new = <<u>>
      BY <3>4, <3>c, <3>u, <3>n
    <3>6. InTime(t, p) => Ruled(t, p, u, locs)
      BY <1>m, <3>u DEF Ruled
    <3>7. /\ Late(t, p) => Ruled(t, p, t, locs)
          /\ AfterGap(t, p) /\ ~Starts(p) => Ruled(t, p, c, locs)
      BY <3>c DEF Ruled
    <3>8. \/ Len(new) = 1 /\ Ruled(t, p, new[1], locs)
          \/ Len(new) = 2 /\ AfterGap(t, p) /\ Starts(p) /\ new[1] = c /\ new[2] = n
      BY <3>5, <3>6, <3>7
    <3> QED  BY <3>2, <3>3, <3>8, <3>t, <3>c, <3>n
  <2> QED  BY <2>1, <2>2
<1>13. CASE Len(new) = Len(old)
  <2>1. session' = [session EXCEPT ![j] = kept] /\ lastId' = l
    BY <1>9, <1>13
  <2>2. ActiveIn(rs) = {} => ~Starts(p)
    BY <1>12, <1>13
  <2>3. \A i \in ActiveIn(rs) : Ruled(rs[i], p, kept.now[i], locs)
    BY <1>11, <1>12, <1>13
  <2>4. GoesOn(kept, p, FALSE, rs, locs)
    <3>1. \A i \in ActiveIn(rs) :
            \E v : Ruled(rs[i], p, v, locs) /\ kept.now[i] = RouteClose(v, p, FALSE)
      <4> SUFFICES ASSUME NEW i \in ActiveIn(rs)
                   PROVE  \E v : Ruled(rs[i], p, v, locs) /\ kept.now[i] = RouteClose(v, p, FALSE)
        OBVIOUS
      <4>v. PICK v : v = kept.now[i]
        OBVIOUS
      <4>1. v = RouteClose(v, p, FALSE)
        BY NotDone
      <4> QED  BY <2>3, <4>v, <4>1
    <3> QED  BY <1>5, <1>10, <1>11, <2>2, <3>1 DEF GoesOn
  <2>5. Pending(kept, rows, located, lastId')
    BY <1>10, <1>rs, <2>4 DEF Pending
  <2> QED  BY <1>1, <1>s, <2>1, <2>5, Alone, SoleStep
<1>14. CASE Len(new) # Len(old)
  <2>f. PICK f : f = Flushed(kept)
    OBVIOUS
  <2>r. PICK r : r = Added(f, made)
    OBVIOUS
  <2>w. PICK w : w = [i \in Dirty(kept) |-> Write(Seen(kept)[i], kept.loaded[i], kept.now[i])]
    OBVIOUS
  <2>n. PICK n : n = NewTrip(p)
    OBVIOUS
  <2>1. session' = [session EXCEPT ![j] = r] /\ lastId' = l + 1
    BY <1>9, <1>14, <2>f, <2>r
  <2>2. /\ Starts(p) /\ made[l + 1] = n
        /\ \A i \in ActiveIn(rs) : AfterGap(rs[i], p) /\ kept.now[i] = Close(rs[i], "COMPLETED")
    BY <1>11, <1>12, <1>14, <1>made, <2>n
  <2>3. /\ Shaped(f) /\ f.at = "evaluated" /\ f.packet = p
        /\ f.loaded = kept.now /\ f.now = kept.now /\ f.mine = Over(w, kept.mine)
    BY <1>10, <2>f, <2>w DEF Shaped, Flushed
  <2>4. /\ r.at = "evaluated" /\ r.packet = p
        /\ r.loaded = Over(made, f.loaded) /\ r.now = Over(made, f.now) /\ r.mine = Over(made, f.mine)
    BY <2>3, <2>r DEF Shaped, Added
  <2>5. \A i \in ActiveIn(rs) : kept.now[i] # kept.loaded[i]
    BY <1>6, <1>11, <2>2, CloseKeeps
  <2>6. Dirty(kept) = ActiveIn(rs)
    BY <1>11, <2>5 DEF Dirty
  <2>7. \A i \in ActiveIn(rs) : w[i] = kept.now[i]
    <3> SUFFICES ASSUME NEW i \in ActiveIn(rs) PROVE w[i] = kept.now[i]
      OBVIOUS
    <3>1. Seen(kept)[i] = rs[i]
      <4>1. kept.gone = {} /\ DOMAIN kept.mine = {} /\ i \in DOMAIN rows
        BY <1>5, <1>6, <1>10, <1>rs
      <4> QED  BY <1>rs, <4>1, SeenCommitted
    <3>2. rs[i] \in Trip /\ kept.now[i] \in Trip
      BY <1>6, <2>2, CloseKeeps DEF Consistent
    <3> QED  BY <1>11, <2>6, <2>w, <3>1, <3>2, WriteOver
  <2>8. DOMAIN f.mine = ActiveIn(rs) /\ \A i \in ActiveIn(rs) : f.mine[i] = kept.now[i]
    BY <1>5, <1>10, <2>3, <2>6, <2>7, <2>w DEF Over
  <2>9. l + 1 \notin ActiveIn(rs) /\ \A i \in DOMAIN rs : i < l + 1
    BY <1>6
  <2>10. /\ DOMAIN r.now = ActiveIn(rs) \cup {l + 1} /\ DOMAIN r.mine = ActiveIn(rs) \cup {l + 1}
         /\ r.mine[l + 1] = n /\ r.loaded[l + 1] = n /\ r.now[l + 1] = n
         /\ \A i \in ActiveIn(rs) : /\ r.now[i] = kept.now[i] /\ r.loaded[i] = kept.now[i]
                                    /\ r.mine[i] = kept.now[i]
    <3>m. PICK m : m = l + 1
      OBVIOUS
    <3>1. DOMAIN made = {m} /\ made[m] = n /\ m \notin ActiveIn(rs)
      BY <1>made, <2>2, <2>9, <3>m
    <3>2. /\ DOMAIN r.now = ActiveIn(rs) \cup {m} /\ r.now[m] = n
          /\ \A i \in ActiveIn(rs) : r.now[i] = kept.now[i]
      BY <1>11, <2>3, <2>4, <3>1 DEF Over
    <3>3. r.loaded[m] = n /\ \A i \in ActiveIn(rs) : r.loaded[i] = kept.now[i]
      BY <1>11, <2>3, <2>4, <3>1 DEF Over
    <3>4. /\ DOMAIN r.mine = ActiveIn(rs) \cup {m} /\ r.mine[m] = n
          /\ \A i \in ActiveIn(rs) : r.mine[i] = kept.now[i]
      BY <2>4, <2>8, <3>1 DEF Over
    <3> QED  BY <3>m, <3>2, <3>3, <3>4
  <2>11. StartsNew(r, p, FALSE, rs, l + 1)
    BY <2>2, <2>9, <2>10, <2>n, NotDone DEF StartsNew
  <2>12. Pending(r, rows, located, lastId')
    BY <1>rs, <2>1, <2>4, <2>11 DEF Pending
  <2> QED  BY <1>1, <1>s, <2>1, <2>12, Alone, SoleStep
<1> QED  BY <1>13, <1>14

LEMMA CompleteSole ==
  ASSUME JobsIInv, Sole, NEW j \in Jobs, CompleteRoute(j)
  PROVE  Sole'
<1>o. PICK o : o = session[j]
  OBVIOUS
<1>1. PICK ids \in Selections(o) :
        LET s == Load(o, ids)
        IN  session' = [session EXCEPT ![j] =
              [s EXCEPT !.at  = "completed",
                        !.now = Over([i \in ids |-> RouteClose(s.now[i], s.packet, TRUE)], @)]]
  BY <1>o DEF CompleteRoute
<1>s. PICK s : s = Load(o, ids)
  OBVIOUS
<1>p. PICK p : p = o.packet
  OBVIOUS
<1>put. PICK put : put = [i \in ids |-> RouteClose(s.now[i], s.packet, TRUE)]
  OBVIOUS
<1>r. PICK r : r = [s EXCEPT !.at = "completed", !.now = Over(put, @)]
  OBVIOUS
<1>f. PICK fresh : fresh = [i \in ids |-> Seen(o)[i]]
  OBVIOUS
<1>2. /\ session' = [session EXCEPT ![j] = r] /\ o.at = "evaluated" /\ j \in Sessions /\ j # Rebuild
      /\ UNCHANGED <<rows, located, lastId>>
  BY <1>1, <1>s, <1>put, <1>r, <1>o, JobConstants DEF Sessions, Rebuild, CompleteRoute
<1>3. Shaped(o) /\ o.gone = {} /\ DOMAIN o.loaded = DOMAIN o.now
  BY <1>2, <1>o DEF JobsIInv, SessionOK, ObjectsOK
<1>4. /\ Shaped(s) /\ s.packet = p /\ s.mine = o.mine
      /\ s.loaded = Over(o.loaded, fresh) /\ s.now = Over(o.now, fresh)
  BY <1>3, <1>s, <1>f, <1>p DEF Shaped, Load
<1>5. /\ r.at = "completed" /\ r.packet = p /\ r.mine = o.mine
      /\ r.loaded = Over(o.loaded, fresh) /\ r.now = Over(put, Over(o.now, fresh))
  BY <1>4, <1>r DEF Shaped
<1>6. DOMAIN put = ids /\ DOMAIN fresh = ids
      /\ \A i \in ids : put[i] = RouteClose(s.now[i], p, TRUE)
  BY <1>put, <1>f, <1>4
<1>7. ASSUME ids \subseteq DOMAIN o.now
      PROVE  /\ DOMAIN r.now = DOMAIN o.now
             /\ \A i \in ids : r.now[i] = RouteClose(o.now[i], p, TRUE)
             /\ \A i \in DOMAIN o.now : i \notin ids => r.now[i] = o.now[i]
             /\ \A i \in DOMAIN o.now : r.loaded[i] = o.loaded[i]
  <2>1. \A i \in ids : s.now[i] = o.now[i]
    BY <1>4, <1>7 DEF Over
  <2>2. \A i \in DOMAIN o.now : r.loaded[i] = o.loaded[i]
    BY <1>3, <1>5 DEF Over
  <2> QED  BY <1>5, <1>6, <1>7, <2>1, <2>2 DEF Over
<1>rs. PICK rs, locs, last : rs = rows /\ locs = located /\ last = lastId
  OBVIOUS
<1>8. GoesOn(o, p, FALSE, rs, locs) \/ StartsNew(o, p, FALSE, rs, last)
  BY <1>2, <1>o, <1>p, <1>rs DEF Sole, OpenJobs, Pending
<1>9. /\ DOMAIN Seen(o) = DOMAIN o.mine \cup DOMAIN rs
      /\ \A i \in DOMAIN o.mine : Seen(o)[i] = o.mine[i]
      /\ \A i \in DOMAIN rs : i \notin DOMAIN o.mine => Seen(o)[i] = rs[i]
  BY <1>3, <1>rs, SeenRow
<1>10. (ids = {} /\ ActiveIn(Seen(o)) = {}) \/ \E i \in ActiveIn(Seen(o)) : ids = {i}
  BY DEF Selections
<1>11. \A i : i \in ActiveIn(rs) <=> i \in DOMAIN rs /\ rs[i].is_active
  BY DEF ActiveIn
<1>12. \A i : i \in ActiveIn(Seen(o)) <=> i \in DOMAIN Seen(o) /\ Seen(o)[i].is_active
  BY DEF ActiveIn
<1>13. CASE GoesOn(o, p, FALSE, rs, locs)
  <2>1. ActiveIn(Seen(o)) = ActiveIn(rs) /\ DOMAIN o.mine = {} /\ DOMAIN o.now = ActiveIn(rs)
    BY <1>9, <1>11, <1>12, <1>13, ZenonT(30) DEF GoesOn
  <2>2. ids = ActiveIn(rs)
    BY <1>10, <1>rs, <2>1 DEF Sole
  <2>3. \A i \in ActiveIn(rs) : \E v : Ruled(rs[i], p, v, locs) /\ r.now[i] = RouteClose(v, p, TRUE)
    <3> SUFFICES ASSUME NEW i \in ActiveIn(rs)
                 PROVE  \E v : Ruled(rs[i], p, v, locs) /\ r.now[i] = RouteClose(v, p, TRUE)
      OBVIOUS
    <3>1. PICK v : Ruled(rs[i], p, v, locs) /\ o.now[i] = RouteClose(v, p, FALSE)
      BY <1>13 DEF GoesOn
    <3>2. o.now[i] = v
      BY <3>1, NotDone
    <3> QED  BY <1>7, <2>1, <2>2, <3>1, <3>2
  <2>4. GoesOn(r, p, TRUE, rs, locs)
    BY <1>5, <1>7, <1>13, <2>1, <2>2, <2>3 DEF GoesOn
  <2>5. Pending(r, rows, located, lastId')
    BY <1>5, <1>rs, <2>4 DEF Pending
  <2> QED  BY <1>2, <1>o, <2>5, Alone, SoleStep
<1>14. CASE StartsNew(o, p, FALSE, rs, last)
  <2>1. /\ \A i \in DOMAIN rs : i # last /\ i < last
        /\ DOMAIN o.now = ActiveIn(rs) \cup {last} /\ DOMAIN o.mine = DOMAIN o.now
        /\ o.mine[last] = NewTrip(p) /\ o.now[last] = NewTrip(p)
    <3>1. \A i \in DOMAIN rs : i # last
      BY <1>14, <1>rs DEF StartsNew, JobsIInv, RowsOK
    <3> QED  BY <1>14, <3>1, NotDone DEF StartsNew
  <2>2. \A i \in ActiveIn(rs) : ~o.mine[i].is_active
    <3>1. \A i \in ActiveIn(rs) : Consistent(rs[i]) /\ o.mine[i] = Close(rs[i], "COMPLETED")
      BY <1>11, <1>14, <1>rs DEF StartsNew, JobsIInv, RowsOK, OnRecord
    <3> QED  BY <3>1, CloseKeeps
  <2>3. NewTrip(p).is_active
    BY DEF NewTrip
  <2>4. ActiveIn(Seen(o)) = {last}
    BY <1>9, <1>11, <1>12, <2>1, <2>2, <2>3
  <2>5. ids = {last}
    BY <1>10, <2>4
  <2>6. last \notin ActiveIn(rs)
    BY <1>11, <2>1
  <2>7. /\ DOMAIN r.now = DOMAIN o.now /\ r.now[last] = RouteClose(NewTrip(p), p, TRUE)
        /\ \A i \in ActiveIn(rs) : r.now[i] = o.now[i]
        /\ \A i \in DOMAIN o.now : r.loaded[i] = o.loaded[i]
    BY <1>7, <2>1, <2>5, <2>6
  <2>8. StartsNew(r, p, TRUE, rs, last)
    BY <1>5, <1>14, <2>1, <2>7 DEF StartsNew
  <2>9. Pending(r, rows, located, lastId')
    BY <1>2, <1>5, <1>rs, <2>8 DEF Pending
  <2> QED  BY <1>2, <1>o, <2>9, Alone, SoleStep
<1> QED  BY <1>8, <1>13, <1>14

-----------------------------------------------------------------------------
(***************************************************************************)
(* The commit of a job that nothing overlaps is a step of TripEngine.      *)
(***************************************************************************)
LEMMA Landed ==
  ASSUME JobsIInv, Sole, NEW j \in Jobs, CommitJob(j),
         NEW s, s = session[j], NEW p, p = s.packet, NEW done, done = (s.at = "completed")
  PROVE  \/ /\ GoesOn(s, p, done, rows, located)
            /\ DOMAIN rows' = DOMAIN rows
            /\ \A i \in DOMAIN rows : rows'[i] = IF i \in ActiveIn(rows) THEN s.now[i] ELSE rows[i]
         \/ /\ StartsNew(s, p, done, rows, lastId)
            /\ DOMAIN rows' = DOMAIN rows \cup {lastId}
            /\ rows'[lastId] = s.now[lastId]
            /\ \A i \in DOMAIN rows : rows'[i] = IF i \in ActiveIn(rows) THEN s.now[i] ELSE rows[i]
<1>rs. PICK rs, locs, last : rs = rows /\ locs = located /\ last = lastId
  OBVIOUS
<1>1. /\ s.at \in {"evaluated", "completed"} /\ CommitOf(j, s)
      /\ j \in Sessions /\ j # Rebuild
  BY JobConstants DEF CommitJob, Sessions, Rebuild
<1>2. GoesOn(s, p, done, rs, locs) \/ StartsNew(s, p, done, rs, last)
  BY <1>1, <1>rs DEF Sole, OpenJobs, Pending
<1>3. /\ Shaped(s) /\ s.gone = {} /\ DOMAIN s.loaded = DOMAIN s.now
      /\ \A i \in DOMAIN s.now : s.loaded[i] \in Trip /\ s.now[i] \in Trip
  BY <1>1 DEF JobsIInv, SessionOK, ObjectsOK, OnRecord, Consistent
<1>w. PICK w : w = [i \in Dirty(s) |-> Write(Seen(s)[i], s.loaded[i], s.now[i])]
  OBVIOUS
<1>f. PICK mine : mine = Over(w, s.mine)
  OBVIOUS
<1>4. Flushed(s).mine = mine
  BY <1>3, <1>w, <1>f DEF Shaped, Flushed
<1>kept. PICK kept : kept = [i \in DOMAIN rows \ s.gone |-> rows[i]]
  OBVIOUS
<1>5. rows' = Over(mine, kept) /\ DOMAIN kept = DOMAIN rs /\ \A i \in DOMAIN rs : kept[i] = rs[i]
  BY <1>1, <1>3, <1>4, <1>kept, <1>rs DEF CommitOf
<1>6. /\ DOMAIN mine = Dirty(s) \cup DOMAIN s.mine
      /\ \A i \in Dirty(s) : mine[i] = w[i]
      /\ \A i \in DOMAIN s.mine : i \notin Dirty(s) => mine[i] = s.mine[i]
  BY <1>f, <1>w DEF Over
<1>7. /\ DOMAIN rows' = DOMAIN mine \cup DOMAIN rs
      /\ \A i \in DOMAIN mine : rows'[i] = mine[i]
      /\ \A i \in DOMAIN rs : i \notin DOMAIN mine => rows'[i] = rs[i]
  BY <1>5 DEF Over
<1>8. \A i : i \in Dirty(s) <=> i \in DOMAIN s.now /\ s.now[i] # s.loaded[i]
  BY DEF Dirty
<1>9. \A i \in Dirty(s) : Seen(s)[i] = s.loaded[i] => w[i] = s.now[i]
  BY <1>3, <1>8, <1>w, WriteOver
<1>10. \A i \in ActiveIn(rs) : i \in DOMAIN rs
  BY DEF ActiveIn
<1>11. CASE GoesOn(s, p, done, rs, locs)
  <2>1. /\ DOMAIN s.mine = {} /\ DOMAIN s.now = ActiveIn(rs)
        /\ \A i \in ActiveIn(rs) : s.loaded[i] = rs[i]
    BY <1>11 DEF GoesOn
  <2>2. \A i \in DOMAIN rs : Seen(s)[i] = rs[i]
    <3>1. s.gone = {} /\ DOMAIN s.mine = {}
      BY <1>3, <2>1
    <3> QED  BY <1>rs, <3>1, SeenCommitted
  <2>3. \A i \in Dirty(s) : i \in ActiveIn(rs) /\ mine[i] = s.now[i]
    BY <1>6, <1>8, <1>9, <1>10, <2>1, <2>2
  <2>4. DOMAIN rows' = DOMAIN rs
    BY <1>6, <1>7, <1>10, <2>1, <2>3
  <2>5. \A i \in DOMAIN rs : rows'[i] = IF i \in ActiveIn(rs) THEN s.now[i] ELSE rs[i]
    BY <1>6, <1>7, <1>8, <2>1, <2>3
  <2> QED  BY <1>11, <1>rs, <2>4, <2>5
<1>12. CASE StartsNew(s, p, done, rs, last)
  <2>1. /\ DOMAIN s.now = ActiveIn(rs) \cup {last} /\ DOMAIN s.mine = DOMAIN s.now
        /\ s.mine[last] = s.loaded[last]
        /\ \A i \in ActiveIn(rs) : s.loaded[i] = s.now[i] /\ s.mine[i] = s.now[i]
        /\ last \notin DOMAIN rs
    <3>1. last \notin DOMAIN rs
      BY <1>12, <1>rs DEF StartsNew, JobsIInv, RowsOK
    <3> QED  BY <1>12, <3>1 DEF StartsNew
  <2>2. Seen(s)[last] = s.loaded[last]
    <3>1. last \in DOMAIN s.mine
      BY <2>1
    <3>2. Seen(s)[last] = s.mine[last]
      BY <3>1, SeenRow
    <3> QED  BY <2>1, <3>2
  <2>3. \A i \in Dirty(s) : i = last
    BY <1>8, <2>1
  <2>4. DOMAIN mine = ActiveIn(rs) \cup {last}
    BY <1>6, <2>1, <2>3
  <2>5. mine[last] = s.now[last]
    <3>1. CASE last \in Dirty(s)
      BY <1>6, <1>9, <2>2, <3>1
    <3>2. CASE last \notin Dirty(s)
      BY <1>6, <1>8, <2>1, <3>2
    <3> QED  BY <3>1, <3>2
  <2>6. \A i \in ActiveIn(rs) : mine[i] = s.now[i]
    BY <1>6, <1>10, <2>1, <2>3
  <2>7. DOMAIN rows' = DOMAIN rs \cup {last}
    BY <1>7, <1>10, <2>4
  <2>8. rows'[last] = s.now[last]
    BY <1>7, <2>4, <2>5
  <2>9. \A i \in DOMAIN rs : rows'[i] = IF i \in ActiveIn(rs) THEN s.now[i] ELSE rs[i]
    BY <1>7, <2>1, <2>4, <2>6
  <2> QED  BY <1>12, <1>rs, <2>7, <2>8, <2>9
<1> QED  BY <1>2, <1>11, <1>12

LEMMA RowsFinite ==
  ASSUME JobsIInv
  PROVE  DOMAIN rows \subseteq Nat /\ IsFiniteSet(DOMAIN rows)
<1>1. DOMAIN rows \subseteq 1 .. lastId /\ lastId \in Nat
  BY DEF JobsIInv, RowsOK
<1>2. IsFiniteSet(1 .. lastId)
  BY <1>1, FS_Interval
<1> QED  BY <1>1, <1>2, FS_Subset

LEMMA CommitSole ==
  ASSUME JobsIInv, Sole, NEW j \in Jobs, CommitJob(j)
  PROVE  Sole'
<1>s. PICK s : s = session[j]
  OBVIOUS
<1>p. PICK p : p = s.packet
  OBVIOUS
<1>d. PICK done : done = (s.at = "completed")
  OBVIOUS
<1>rs. PICK rs, locs, last : rs = rows /\ locs = located /\ last = lastId
  OBVIOUS
<1>1. \/ /\ GoesOn(s, p, done, rs, locs)
         /\ DOMAIN rows' = DOMAIN rs
         /\ \A i \in DOMAIN rs : rows'[i] = IF i \in ActiveIn(rs) THEN s.now[i] ELSE rs[i]
      \/ /\ StartsNew(s, p, done, rs, last)
         /\ DOMAIN rows' = DOMAIN rs \cup {last}
         /\ rows'[last] = s.now[last]
         /\ \A i \in DOMAIN rs : rows'[i] = IF i \in ActiveIn(rs) THEN s.now[i] ELSE rs[i]
  BY <1>s, <1>p, <1>d, <1>rs, Landed
<1>2. \A i, k \in ActiveIn(rs) : i = k
  BY <1>rs DEF Sole
<1>3. \A i : i \in ActiveIn(rs) <=> i \in DOMAIN rs /\ rs[i].is_active
  BY DEF ActiveIn
<1>4. \A i : i \in ActiveIn(rows') <=> i \in DOMAIN rows' /\ rows'[i].is_active
  BY DEF ActiveIn
<1>5. DOMAIN rs \subseteq Nat /\ IsFiniteSet(DOMAIN rs) /\ Enumerated(DOMAIN rs) /\ last \in Nat
  BY <1>rs, RowsFinite DEF Sole, JobsIInv
<1>6. /\ \A i, k \in ActiveIn(rows') : i = k
      /\ IsFiniteSet(DOMAIN rows') /\ Enumerated(DOMAIN rows')
  <2>1. CASE DOMAIN rows' = DOMAIN rs
    <3>2. ActiveIn(rows') \subseteq ActiveIn(rs)
      BY <1>1, <1>3, <1>4, <2>1
    <3>d. PICK ids : ids = DOMAIN rs
      OBVIOUS
    <3>3. IsFiniteSet(ids) /\ Enumerated(ids) /\ ids = DOMAIN rows'
      BY <1>5, <2>1, <3>d
    <3> QED  BY <1>2, <3>2, <3>3
  <2>2. CASE ~(DOMAIN rows' = DOMAIN rs)
    <3>1. /\ StartsNew(s, p, done, rs, last)
          /\ DOMAIN rows' = DOMAIN rs \cup {last}
          /\ \A i \in DOMAIN rs : rows'[i] = IF i \in ActiveIn(rs) THEN s.now[i] ELSE rs[i]
      BY <1>1, <2>2
    <3>2. \A i \in ActiveIn(rs) : ~s.now[i].is_active
      <4>1. \A i \in ActiveIn(rs) : Consistent(rs[i]) /\ s.now[i] = Close(rs[i], "COMPLETED")
        BY <1>3, <1>rs, <3>1 DEF StartsNew, JobsIInv, RowsOK, OnRecord
      <4> QED  BY <4>1, CloseKeeps
    <3>3. \A i \in DOMAIN rs : ~rows'[i].is_active
      BY <1>3, <3>1, <3>2
    <3>4. \A i, k \in ActiveIn(rows') : i = k
      BY <1>4, <3>1, <3>3
    <3>i. PICK ids : ids = DOMAIN rs
      OBVIOUS
    <3>m. PICK more : more = DOMAIN rs \cup {last}
      OBVIOUS
    <3>5. ids \subseteq Nat /\ IsFiniteSet(ids) /\ Enumerated(ids) /\ last \in Nat
          /\ (\A i \in ids : i < last) /\ more = ids \cup {last}
      BY <1>5, <3>1, <3>i, <3>m DEF StartsNew
    <3>c. PICK c \in Nat : c = Cardinality(ids)
      BY <3>5, FS_CardinalityType
    <3>6. IsFiniteSet(more) /\ Enumerated(more)
      BY <3>5, <3>c, PlaceGrows
    <3>7. more = DOMAIN rows'
      BY <3>1, <3>m
    <3> QED  BY <3>4, <3>6, <3>7
  <2> QED  BY <2>1, <2>2
<1>7. /\ session' = [session EXCEPT ![j] = Closed] /\ session[j].at # "closed"
      /\ j \in Sessions /\ Rebuild \in Sessions /\ j # Rebuild
  BY JobConstants DEF CommitJob, CommitOf, Ended, Sessions, Rebuild
<1>8. session'[Rebuild].at = "closed" /\ \A k \in Jobs : session'[k].at = "closed"
  <2>1. \A k \in Jobs \ {j} : session[k].at = "closed"
    BY <1>7, Alone
  <2>2. Closed.at = "closed"
    BY DEF Closed
  <2>3. \A k \in Sessions : session'[k] = IF k = j THEN Closed ELSE session[k]
    BY <1>7 DEF JobsIInv
  <2> QED  BY <1>7, <2>1, <2>2, <2>3 DEF Sole, Sessions
<1>9. OpenJobs' = {}
  BY <1>8 DEF OpenJobs
<1> QED  BY <1>6, <1>8, <1>9 DEF Sole

-----------------------------------------------------------------------------
\* TripEngine applies the same rules.
LEMMA EngineRules ==
  /\ \A t, p : Engine!Late(t, p) <=> Late(t, p)
  /\ \A t, p : Engine!AfterGap(t, p) <=> AfterGap(t, p)
  /\ \A t, p : Engine!InTime(t, p) <=> InTime(t, p)
  /\ \A p : Engine!Starts(p) <=> Starts(p)
  /\ \A p : Engine!NewTrip(p) = NewTrip(p)
  /\ \A t, st : Engine!Close(t, st) = Close(t, st)
  /\ \A t, p, done : Engine!RouteClose(t, p, done) = RouteClose(t, p, done)
  /\ \A t, p, moving : Engine!Update(t, p, moving) = Update(t, p, moving)
  /\ \A ts : Engine!ActiveIn(ts) = ActiveIn(ts)
<1>1. /\ \A t, p : Engine!Late(t, p) <=> Late(t, p)
      /\ \A t, p : Engine!AfterGap(t, p) <=> AfterGap(t, p)
      /\ \A t, p : Engine!InTime(t, p) <=> InTime(t, p)
      /\ \A p : Engine!Starts(p) <=> Starts(p)
  BY DEF Engine!Late, Late, Engine!AfterGap, AfterGap, Engine!InTime, InTime, Engine!Starts, Starts
<1>2. \A p : Engine!NewTrip(p) = NewTrip(p)
  BY DEF Engine!NewTrip, NewTrip, Engine!Overspeed, Overspeed
<1>3. \A t, st : Engine!Close(t, st) = Close(t, st)
  BY DEF Engine!Close, Close
<1>4. \A t, p, done : Engine!RouteClose(t, p, done) = RouteClose(t, p, done)
  BY DEF Engine!RouteClose, RouteClose, Engine!Close, Close
<1>5. \A t, p, moving : Engine!Update(t, p, moving) = Update(t, p, moving)
  BY DEF Engine!Update, Update, Engine!Extend, Extend, Engine!Travelled, Travelled,
         Engine!Distance, Distance, Engine!Overspeed, Overspeed, Engine!IdleTooLong, IdleTooLong,
         Engine!EndStatus, EndStatus, Engine!TooShort, TooShort, Engine!Close, Close
<1>6. \A ts : Engine!ActiveIn(ts) = ActiveIn(ts)
  BY DEF Engine!ActiveIn, ActiveIn
<1> QED  BY <1>1, <1>2, <1>3, <1>4, <1>5, <1>6

LEMMA EngineStores ==
  ASSUME JobsIInv, NewestKnown, NEW p \in Arrivals, located' = Append(located, p)
  PROVE  Engine!Store(p)
<1>1. located \in Seq(Arrivals)
  BY DEF JobsIInv
<1>2. Len(located') = Len(located) + 1
  BY <1>1, Appended
<1>3. Moving(located') = Moving(located) \cup Engine!Moves(p)
  <2>l. PICK locs : locs = located
    OBVIOUS
  <2>1. Moving(Append(locs, p)) = Moving(locs) \cup (IF p.speed >= StartSpeed THEN {p.ts} ELSE {})
    BY <1>1, <2>l, MovingAppend
  <2>2. Engine!Moves(p) = IF p.speed >= StartSpeed THEN {p.ts} ELSE {}
    BY DEF Engine!Moves
  <2>3. located' = Append(locs, p)
    BY <2>l
  <2> QED  BY <2>l, <2>1, <2>2, <2>3
<1>4. /\ Newest' = IF p.ts > Newest THEN p.ts ELSE Newest
      /\ InOrderOf(located') <=> InOrderOf(located) /\ p.ts >= Newest
  BY <1>1, NewestStep
<1> QED  BY <1>2, <1>3, <1>4 DEF Engine!Store, InOrderOf

IsList(f, c) == f = [n \in 1 .. c |-> f[n]]

LEMMA AppendIs ==
  ASSUME NEW c \in Nat, NEW f, NEW g, NEW x, IsList(f, c), IsList(g, c + 1),
         \A n \in 1 .. c : g[n] = f[n], g[c + 1] = x
  PROVE  g = Append(f, x)
<1>0. f = [n \in 1 .. c |-> f[n]] /\ g = [n \in 1 .. c + 1 |-> g[n]]
  BY DEF IsList
<1>s. PICK S : S = {g[n] : n \in 1 .. c + 1}
  OBVIOUS
<1>1. g \in Seq(S) /\ Len(g) = c + 1 /\ x \in S
  <2>1. \A n \in 1 .. c + 1 : g[n] \in S
    BY <1>s
  <2>2. g \in [1 .. c + 1 -> S]
    BY <1>0, <2>1
  <2> QED  BY <2>1, <2>2
<1>2. f \in Seq(S) /\ Len(f) = c
  <2>0. \A n \in 1 .. c : n \in 1 .. c + 1
    OBVIOUS
  <2>1. \A n \in 1 .. c : f[n] \in S
    BY <1>s, <2>0
  <2>d. PICK D : D = 1 .. c
    OBVIOUS
  <2>2. f \in [D -> S]
    <3>1. f = [n \in D |-> f[n]] /\ \A n \in D : f[n] \in S
      BY <1>0, <2>1, <2>d
    <3> QED  BY ONLY <3>1
  <2> QED  BY <2>2, <2>d
<1>3. /\ Append(f, x) \in Seq(S) /\ Len(Append(f, x)) = c + 1
      /\ \A n \in 1 .. c + 1 : Append(f, x)[n] = g[n]
  BY <1>1, <1>2
<1> QED  BY <1>1, <1>3, SeqEqual

\* What is visible to a job, in the words of TripEngine.
LEMMA EngineSees ==
  ASSUME NEW locs \in Seq(Arrivals), NEW p \in Arrivals, NEW flushed \in BOOLEAN,
         locs = located
  PROVE  Engine!Visible(p, flushed) = Moving(IF flushed THEN Append(locs, p) ELSE locs)
BY MovingAppend DEF Engine!Visible, Engine!Moves

LEMMA CommitIsEngineStep ==
  ASSUME JobsIInv, Sole, NewestKnown, arrived <= MaxPackets,
         NEW j \in Jobs, CommitJob(j)
  PROVE  Engine!Next
<1>s. PICK s : s = session[j]
  OBVIOUS
<1>p. PICK p : p = s.packet
  OBVIOUS
<1>d. PICK done : done = (s.at = "completed")
  OBVIOUS
<1>rs. PICK rs, locs, last : rs = rows /\ locs = located /\ last = lastId
  OBVIOUS
<1>1. \/ /\ GoesOn(s, p, done, rs, locs)
         /\ DOMAIN rows' = DOMAIN rs
         /\ \A i \in DOMAIN rs : rows'[i] = IF i \in ActiveIn(rs) THEN s.now[i] ELSE rs[i]
      \/ /\ StartsNew(s, p, done, rs, last)
         /\ DOMAIN rows' = DOMAIN rs \cup {last}
         /\ rows'[last] = s.now[last]
         /\ \A i \in DOMAIN rs : rows'[i] = IF i \in ActiveIn(rs) THEN s.now[i] ELSE rs[i]
  BY <1>s, <1>p, <1>d, <1>rs, Landed
<1>2. /\ s.at \in {"evaluated", "completed"} /\ j \in Sessions /\ j # Rebuild
      /\ located' = Append(located, p) /\ done \in BOOLEAN
  BY <1>s, <1>p, <1>d, JobConstants DEF CommitJob, Sessions, Rebuild
<1>3. p \in Arrivals /\ p \in Coordinate /\ p \in Engine!Coordinate /\ locs \in Seq(Arrivals)
  <2>1. p \in Arrivals /\ locs \in Seq(Arrivals)
    BY <1>2, <1>s, <1>p, <1>rs DEF JobsIInv, SessionOK
  <2> QED  BY <2>1, ArrivalsType DEF Engine!Coordinate, Engine!Ignition, Coordinate, Ignition
<1>4. Engine!Store(p)
  BY <1>2, <1>3, EngineStores
<1>5. Len(located) < MaxPackets
  <2>1. j \in OpenJobs
    BY <1>2, <1>s DEF OpenJobs
  <2>2. IsFiniteSet(OpenJobs) /\ Cardinality(OpenJobs) \in Nat /\ Cardinality(OpenJobs) # 0
    BY <2>1, FS_CardinalityType, FS_EmptySet DEF JobsIInv, Counted
  <2>l. PICK l : l = Len(located)
    OBVIOUS
  <2>3. l \in Nat /\ Cardinality(OpenJobs) + l <= arrived /\ arrived \in Nat /\ MaxPackets \in Nat
    BY <2>l, LenProperties, JobConstants DEF JobsIInv, Counted
  <2> QED  BY <2>2, <2>3, <2>l
<1>i. PICK ids : ids = DOMAIN rs
  OBVIOUS
<1>c. PICK c : c = Cardinality(ids)
  OBVIOUS
<1>6. ids \subseteq Nat /\ IsFiniteSet(ids) /\ Enumerated(ids) /\ c \in Nat
  BY <1>rs, <1>i, <1>c, RowsFinite, FS_CardinalityType DEF Sole
<1>t. PICK ts : ts = Committed
  OBVIOUS
<1>7. ts = [n \in 1 .. c |-> rs[IdAt(ids, n)]]
  BY <1>t, <1>rs, <1>i, <1>c, CommittedRows
<1>8. /\ \A n \in 1 .. c : IdAt(ids, n) \in ids /\ Place(ids, IdAt(ids, n)) = n
      /\ \A i \in ids : Place(ids, i) \in 1 .. c /\ IdAt(ids, Place(ids, i)) = i
  BY <1>6, <1>c, PlaceFacts
<1>9. \A i : i \in ActiveIn(rs) <=> i \in ids /\ rs[i].is_active
  BY <1>i DEF ActiveIn
<1>10. Engine!ActiveIn(ts) = ActiveIn(ts)
  BY EngineRules
<1>11. \A n : n \in ActiveIn(ts) <=> n \in 1 .. c /\ IdAt(ids, n) \in ActiveIn(rs)
  BY <1>7, <1>8, <1>9 DEF ActiveIn
<1>12. \A i, k \in ActiveIn(rs) : i = k
  BY <1>rs DEF Sole
<1>tn. PICK tn : tn = Committed'
  OBVIOUS
<1>13. tn = [n \in 1 .. Cardinality(DOMAIN rows') |-> rows'[IdAt(DOMAIN rows', n)]]
  BY <1>tn DEF Committed, IdAt, Place
<1>14. CASE /\ GoesOn(s, p, done, rs, locs)
            /\ DOMAIN rows' = DOMAIN rs
            /\ \A i \in DOMAIN rs : rows'[i] = IF i \in ActiveIn(rs) THEN s.now[i] ELSE rs[i]
  <2>1. tn = [n \in 1 .. c |-> rows'[IdAt(ids, n)]]
    BY <1>13, <1>14, <1>i, <1>c
  <2>2. CASE ActiveIn(rs) = {}
    <3>1. \A n \in 1 .. c : rows'[IdAt(ids, n)] = rs[IdAt(ids, n)]
      BY <1>8, <1>14, <1>i, <2>2
    <3>2. tn = ts
      BY <1>7, <2>1, <3>1
    <3>3. Engine!ActiveIn(ts) = {} /\ ~Engine!Starts(p)
      BY <1>10, <1>11, <1>14, <2>2, EngineRules DEF GoesOn
    <3>4. Engine!StayParked(p)
      BY <1>4, <1>t, <1>tn, <3>2, <3>3 DEF Engine!StayParked
    <3> QED  BY <1>3, <1>5, <3>4 DEF Engine!Next
  <2>3. CASE ActiveIn(rs) # {}
    <3>1. PICK a \in ActiveIn(rs) : ActiveIn(rs) = {a}
      BY <1>12, <2>3
    <3>n. PICK n : n = Place(ids, a)
      OBVIOUS
    <3>2. n \in 1 .. c /\ IdAt(ids, n) = a /\ ts[n] = rs[a] /\ n \in Engine!ActiveIn(ts)
      BY <1>7, <1>8, <1>9, <1>10, <1>11, <3>1, <3>n
    <3>3. \A m \in 1 .. c : m # n => IdAt(ids, m) # a
      BY <1>8, <3>n
    <3>4. tn = [ts EXCEPT ![n] = s.now[a]]
      <4>1. \A m \in 1 .. c : rows'[IdAt(ids, m)] = IF m = n THEN s.now[a] ELSE ts[m]
        BY <1>7, <1>8, <1>14, <1>i, <3>1, <3>2, <3>3
      <4> QED  BY <1>7, <2>1, <3>2, <4>1
    <3>t. PICK t : t = rs[a]
      OBVIOUS
    <3>5. PICK v : Ruled(t, p, v, locs) /\ s.now[a] = RouteClose(v, p, done)
      BY <1>14, <3>1, <3>t DEF GoesOn
    <3>6. /\ ts = Committed /\ tn = Committed' /\ ts[n] = t /\ tn = [ts EXCEPT ![n] = RouteClose(v, p, done)]
      BY <1>t, <1>tn, <3>2, <3>4, <3>5, <3>t
    <3>7. ASSUME Late(t, p), v = t PROVE Engine!Evaluate(n, p)
      <4>1. Engine!Late(ts[n], p) /\ tn = [ts EXCEPT ![n] = Engine!RouteClose(ts[n], p, done)]
        BY <3>6, <3>7, EngineRules
      <4>2. Engine!IgnoreLate(n, p, done)
        BY <1>4, <3>6, <4>1 DEF Engine!IgnoreLate
      <4> QED  BY <1>2, <4>2 DEF Engine!Evaluate
    <3>8. ASSUME AfterGap(t, p), ~Starts(p), v = Close(t, "COMPLETED")
          PROVE  Engine!Evaluate(n, p)
      <4>1. /\ Engine!AfterGap(ts[n], p) /\ ~Engine!Starts(p)
            /\ tn = [ts EXCEPT ![n] = Engine!RouteClose(Engine!Close(ts[n], "COMPLETED"), p, done)]
        BY <3>6, <3>8, EngineRules
      <4>2. Engine!CloseOnGap(n, p, done)
        BY <1>4, <3>6, <4>1 DEF Engine!CloseOnGap
      <4> QED  BY <1>2, <4>2 DEF Engine!Evaluate
    <3>9. ASSUME InTime(t, p), NEW flushed \in BOOLEAN,
                 v = Update(t, p, Moving(IF flushed THEN Append(locs, p) ELSE locs))
          PROVE  Engine!Evaluate(n, p)
      <4>1. v = Update(t, p, Engine!Visible(p, flushed))
        BY <1>3, <1>rs, <3>9, EngineSees
      <4>2. /\ Engine!InTime(ts[n], p)
            /\ tn = [ts EXCEPT ![n] =
                       Engine!RouteClose(Engine!Update(ts[n], p, Engine!Visible(p, flushed)), p, done)]
        BY <3>6, <3>9, <4>1, EngineRules
      <4>3. Engine!UpdateTrip(n, p, flushed, done)
        BY <1>4, <3>6, <4>2 DEF Engine!UpdateTrip
      <4> QED  BY <1>2, <4>3 DEF Engine!Evaluate
    <3>10. Engine!Evaluate(n, p)
      BY <3>5, <3>7, <3>8, <3>9 DEF Ruled
    <3> QED  BY <1>3, <1>5, <1>t, <3>2, <3>10 DEF Engine!Next
  <2> QED  BY <2>2, <2>3
<1>15. CASE /\ StartsNew(s, p, done, rs, last)
            /\ DOMAIN rows' = DOMAIN rs \cup {last}
            /\ rows'[last] = s.now[last]
            /\ \A i \in DOMAIN rs : rows'[i] = IF i \in ActiveIn(rs) THEN s.now[i] ELSE rs[i]
  <2>m. PICK more : more = ids \cup {last}
    OBVIOUS
  <2>1. /\ Cardinality(more) = c + 1
        /\ \A n \in 1 .. c : IdAt(more, n) = IdAt(ids, n)
        /\ IdAt(more, c + 1) = last
    <3>1. last \in Nat /\ \A i \in ids : i < last
      <4>1. last \in Nat
        BY <1>rs DEF JobsIInv
      <4>2. \A i \in ids : i < last
        BY <1>15, <1>i DEF StartsNew
      <4> QED  BY <4>1, <4>2
    <3>2. ids \subseteq Nat /\ IsFiniteSet(ids) /\ Enumerated(ids) /\ c \in Nat /\ c = Cardinality(ids)
      BY <1>6, <1>c
    <3>3. Cardinality(more) = c + 1 /\ Begins(more, ids, c) /\ IdAt(more, c + 1) = last
      BY ONLY <2>m, <3>1, <3>2, PlaceGrows
    <3> QED  BY <3>3 DEF Begins
  <2>2. tn = [n \in 1 .. c + 1 |-> rows'[IdAt(more, n)]]
    <3>1. more = DOMAIN rows'
      BY <1>15, <1>i, <2>m
    <3> QED  BY <1>13, <2>1, <3>1
  <2>x. PICK x : x = RouteClose(NewTrip(p), p, done)
    OBVIOUS
  <2>3. tn[c + 1] = x /\ Engine!Starts(p)
    BY <1>6, <1>15, <2>1, <2>2, <2>x, EngineRules DEF StartsNew
  <2>4. \A n \in 1 .. c : tn[n] = rows'[IdAt(ids, n)]
    BY <1>6, <2>1, <2>2
  <2>5. x = Engine!RouteClose(Engine!NewTrip(p), p, done)
    BY <2>x, EngineRules
  <2>8. IsList(tn, c + 1)
    <3>d. PICK D : D = 1 .. c + 1
      OBVIOUS
    <3>1. tn = [n \in D |-> rows'[IdAt(more, n)]]
      BY <2>2, <3>d
    <3>2. tn = [n \in D |-> tn[n]]
      BY ONLY <3>1
    <3> QED  BY <3>2, <3>d DEF IsList
  <2>6. CASE ActiveIn(rs) = {}
    <3>1. \A n \in 1 .. c : tn[n] = ts[n]
      BY <1>7, <1>8, <1>15, <1>i, <2>4, <2>6
    <3>2. tn = Append(ts, x)
      <4>1. IsList(ts, c)
        BY <1>7 DEF IsList
      <4> QED  BY <1>6, <2>8, <2>3, <3>1, <4>1, AppendIs
    <3>3. Engine!ActiveIn(ts) = {}
      BY <1>10, <1>11, <2>6
    <3>4. Engine!StartTrip(p, done)
      BY <1>4, <1>t, <1>tn, <2>3, <2>5, <3>2, <3>3 DEF Engine!StartTrip
    <3> QED  BY <1>2, <1>3, <1>5, <3>4 DEF Engine!Next
  <2>7. CASE ActiveIn(rs) # {}
    <3>1. PICK a \in ActiveIn(rs) : ActiveIn(rs) = {a}
      BY <1>12, <2>7
    <3>n. PICK n : n = Place(ids, a)
      OBVIOUS
    <3>2. n \in 1 .. c /\ IdAt(ids, n) = a /\ ts[n] = rs[a] /\ n \in Engine!ActiveIn(ts)
      BY <1>7, <1>8, <1>9, <1>10, <1>11, <3>1, <3>n
    <3>3. \A m \in 1 .. c : m # n => IdAt(ids, m) # a
      BY <1>8, <3>n
    <3>f. PICK ended : ended = [ts EXCEPT ![n] = Close(ts[n], "COMPLETED")]
      OBVIOUS
    <3>4. s.now[a] = Close(ts[n], "COMPLETED") /\ AfterGap(ts[n], p)
      BY <1>15, <3>1, <3>2 DEF StartsNew
    <3>5. \A m \in 1 .. c : tn[m] = ended[m]
      <4>1. \A m \in 1 .. c : rows'[IdAt(ids, m)] = IF m = n THEN s.now[a] ELSE ts[m]
        BY <1>7, <1>8, <1>15, <1>i, <3>1, <3>2, <3>3
      <4> QED  BY <1>7, <2>4, <3>f, <3>2, <3>4, <4>1
    <3>6. tn = Append(ended, x)
      <4>1. IsList(ended, c)
        BY <1>7, <3>f DEF IsList
      <4> QED  BY <1>6, <2>8, <2>3, <3>5, <4>1, AppendIs
    <3>7. Engine!AfterGap(ts[n], p) /\ ended = [ts EXCEPT ![n] = Engine!Close(ts[n], "COMPLETED")]
      BY <3>4, <3>f, EngineRules
    <3>8. Engine!RestartOnGap(n, p, done)
      BY <1>4, <1>t, <1>tn, <2>3, <2>5, <3>6, <3>7 DEF Engine!RestartOnGap
    <3>9. Engine!Evaluate(n, p)
      BY <1>2, <3>8 DEF Engine!Evaluate
    <3> QED  BY <1>3, <1>5, <1>t, <3>2, <3>9 DEF Engine!Next
  <2> QED  BY <2>6, <2>7
<1> QED  BY <1>1, <1>14, <1>15

-----------------------------------------------------------------------------
InStep ==
  /\ SerialInv'
  /\ serial' /\ located' # located => Engine!Next
  /\ serial' /\ located' = located => rows' = rows

LEMMA QuietInStep ==
  ASSUME SerialInv, UNCHANGED <<rows, located>>, serial' => Sole', arrived' <= MaxPackets
  PROVE  InStep
<1>1. NewestKnown'
  BY DEF SerialInv, NewestKnown
<1> QED  BY <1>1 DEF InStep, SerialInv

LEMMA RebuildOverlaps ==
  ASSUME SerialInv, session[Rebuild].at \in {"deleted", "loop"}, UNCHANGED serial
  PROVE  ~serial'
BY DEF SerialInv, Sole

LEMMA SerialInit == JobsInit => SerialInv
<1> SUFFICES ASSUME JobsInit PROVE SerialInv
  OBVIOUS
<1>1. /\ rows = Empty /\ DOMAIN rows = {} /\ located = <<>> /\ arrived = 0
      /\ session = [x \in Sessions |-> Closed] /\ Closed.at = "closed"
  BY DEF JobsInit, Empty, Closed
<1>2. session[Rebuild].at = "closed" /\ OpenJobs = {}
  BY <1>1 DEF Sessions, OpenJobs
<1>3. IsFiniteSet({}) /\ Cardinality({}) = 0
  BY FS_EmptySet
<1>4. Enumerated({})
  BY <1>3 DEF Enumerated
<1>5. ActiveIn(rows) = {}
  BY <1>1 DEF ActiveIn
<1>6. Sole
  BY <1>1, <1>2, <1>3, <1>4, <1>5 DEF Sole
<1>7. NewestKnown /\ arrived <= MaxPackets
  BY <1>1, JobConstants DEF NewestKnown
<1> QED  BY <1>6, <1>7 DEF SerialInv

LEMMA CommitInStep ==
  ASSUME JobsIInv, SerialInv, NEW j \in Jobs, CommitJob(j)
  PROVE  InStep
<1>p. PICK p : p = session[j].packet
  OBVIOUS
<1>1. /\ p \in Arrivals /\ located' = Append(located, p) /\ located \in Seq(Arrivals)
      /\ serial' = serial /\ arrived' = arrived
  BY <1>p, JobConstants DEF CommitJob, JobsIInv, SessionOK, Sessions, Rebuild
<1>2. NewestKnown' /\ arrived' <= MaxPackets
  BY <1>1, NewestStep DEF SerialInv
<1>3. serial' => Sole' /\ Engine!Next
  BY <1>1, CommitSole, CommitIsEngineStep DEF SerialInv
<1>4. located' # located
  <2>1. Len(located') = Len(located) + 1 /\ Len(located) \in Nat
    BY <1>1, Appended, LenProperties
  <2> QED  BY <2>1
<1> QED  BY <1>2, <1>3, <1>4 DEF InStep, SerialInv

LEMMA JobsInStep ==
  ASSUME JobsIInv, SerialInv, [JobsNext]_jobVars
  PROVE  InStep
<1>0. arrived \in Nat /\ MaxPackets \in Nat /\ arrived <= MaxPackets /\ (serial => Sole)
  BY JobConstants DEF JobsIInv, Counted, SerialInv
<1>1. CASE UNCHANGED jobVars
  <2>1. UNCHANGED <<rows, located, lastId, arrived, session, serial>>
    BY <1>1 DEF jobVars
  <2>2. Sole => Sole'
    BY <2>1 DEF Sole, OpenJobs
  <2> QED  BY <1>0, <2>1, <2>2, QuietInStep
<1>2. ASSUME NEW j \in Jobs, NEW p \in Arrivals, BeginJob(j, p) PROVE InStep
  <2>1. /\ UNCHANGED <<rows, located>> /\ (serial' => serial)
        /\ arrived < MaxPackets /\ arrived' = arrived + 1
    BY <1>2 DEF BeginJob
  <2>2. ASSUME serial' PROVE Sole'
    <3>1. Sole
      BY <1>0, <2>1, <2>2
    <3> QED  BY <1>2, <2>2, <3>1, BeginSole
  <2>3. arrived' <= MaxPackets
    BY <1>0, <2>1
  <2> QED  BY <2>1, <2>2, <2>3, QuietInStep
<1>3. ASSUME NEW j \in Jobs, EvaluateJob(j) PROVE InStep
  <2>1. UNCHANGED <<rows, located, arrived, serial>>
    BY <1>3 DEF EvaluateJob
  <2> QED  BY <1>0, <1>3, <2>1, EvaluateSole, QuietInStep
<1>4. ASSUME NEW j \in Jobs, CompleteRoute(j) PROVE InStep
  <2>1. UNCHANGED <<rows, located, arrived, serial>>
    BY <1>4 DEF CompleteRoute
  <2> QED  BY <1>0, <1>4, <2>1, CompleteSole, QuietInStep
<1>5. ASSUME NEW j \in Jobs, CommitJob(j) PROVE InStep
  BY <1>5, CommitInStep
<1>6. ASSUME NEW j \in Jobs, FailJob(j) PROVE InStep
  <2>1. UNCHANGED <<rows, located, arrived, serial>>
    BY <1>6 DEF FailJob
  <2> QED  BY <1>0, <1>6, <2>1, FailSole, QuietInStep
<1>7. CASE BeginRebuild
  <2>1. UNCHANGED <<rows, located, arrived>> /\ ~serial'
    BY <1>7 DEF BeginRebuild
  <2> QED  BY <1>0, <2>1, QuietInStep
<1>8. CASE SelectLocations
  <2>1. UNCHANGED <<rows, located, arrived>> /\ ~serial'
    BY <1>8, RebuildOverlaps DEF SelectLocations
  <2> QED  BY <1>0, <2>1, QuietInStep
<1>9. CASE RebuildNext
  <2>1. UNCHANGED <<rows, located, arrived>> /\ ~serial'
    BY <1>9, RebuildOverlaps DEF RebuildNext
  <2> QED  BY <1>0, <2>1, QuietInStep
<1>10. CASE CommitRebuild
  <2>1. UNCHANGED <<located, arrived>> /\ ~serial'
    BY <1>10, RebuildOverlaps DEF CommitRebuild
  <2>2. NewestKnown'
    BY <2>1 DEF SerialInv, NewestKnown
  <2> QED  BY <1>0, <2>1, <2>2 DEF InStep, SerialInv
<1>11. CASE FailRebuild
  <2>1. UNCHANGED <<rows, located, arrived>> /\ ~serial'
    BY <1>11, RebuildOverlaps DEF FailRebuild
  <2> QED  BY <1>0, <2>1, QuietInStep
<1> QED
  BY <1>1, <1>2, <1>3, <1>4, <1>5, <1>6, <1>7, <1>8, <1>9, <1>10, <1>11 DEF JobsNext

(***************************************************************************)
(* The inductive invariant, and what holds besides as long as no two       *)
(* sessions have overlapped: the one open session holds what TripEngine    *)
(* does in one step.                                                       *)
(***************************************************************************)
THEOREM SerialJobsInvariant == JobsSpec => [](JobsIInv /\ SerialInv)
<1>1. JobsInit => JobsIInv /\ SerialInv
  BY JobsInitHolds, SerialInit
<1>2. JobsIInv /\ SerialInv /\ [JobsNext]_jobVars => (JobsIInv /\ SerialInv)'
  BY JobsNextKeeps, JobsInStep DEF InStep
<1> QED  BY <1>1, <1>2, PTL DEF JobsSpec

(***************************************************************************)
(* A commit of jobs that have not overlapped is a step of TripEngine, or   *)
(* leaves the trips alone; and whatever overlapped, no commit opens a      *)
(* closed trip again, nor leaves a trip without the locations it was made  *)
(* of.                                                                     *)
(***************************************************************************)
THEOREM CommitsRespectTheEngine == JobsSpec => JobsRespectTheEngine
<1>1. JobsIInv' => TripsRestOnLocations'
  BY InvariantRests, PTL
<1>2. JobsIInv /\ SerialInv /\ [JobsNext]_jobVars =>
        [/\ serial' /\ located' # located => Engine!Next
         /\ serial' /\ located' = located => rows' = rows
         /\ \A i \in DOMAIN rows \cap DOMAIN rows' :
              rows'[i].is_active => rows[i].is_active
         /\ TripsRestOnLocations']_jobVars
  BY <1>1, JobsNextKeeps, JobsInStep DEF InStep, Forward
<1> QED  BY <1>2, SerialJobsInvariant, PTL DEF JobsSpec, JobsRespectTheEngine

LEMMA EngineInit == JobsInit => Engine!Init
<1> SUFFICES ASSUME JobsInit PROVE Engine!Init
  OBVIOUS
<1>1. /\ rows = Empty /\ DOMAIN rows = {} /\ located = <<>>
  BY DEF JobsInit, Empty
<1>2. Committed = <<>>
  <2>1. Cardinality(DOMAIN rows) = 0
    BY <1>1, FS_EmptySet
  <2>t. PICK ts : ts = Committed
    OBVIOUS
  <2>d. PICK D : D = 1 .. 0
    OBVIOUS
  <2>2. IsList(ts, 0)
    <3>1. ts = [n \in D |-> rows[IdAt(DOMAIN rows, n)]]
      BY <2>1, <2>t, <2>d, CommittedRows
    <3>2. ts = [n \in D |-> ts[n]]
      BY ONLY <3>1
    <3> QED  BY <3>2, <2>d DEF IsList
  <2>3. ts \in Seq({}) /\ Len(ts) = 0
    <3>1. ts = [n \in D |-> ts[n]] /\ D = {}
      BY <2>2, <2>d DEF IsList
    <3>2. ts \in [D -> {}]
      BY ONLY <3>1
    <3> QED  BY <3>2, <2>d
  <2> QED  BY <2>3, <2>t
<1>3. Moving(located) = {}
  <2>1. DOMAIN <<>> = {}
    OBVIOUS
  <2> QED  BY <1>1, <2>1 DEF Moving
<1>4. Newest = -1 /\ Len(located) = 0 /\ InOrderOf(located)
  BY <1>1 DEF Newest, InOrderOf
<1> QED  BY <1>2, <1>3, <1>4 DEF Engine!Init, InOrderOf

(***************************************************************************)
(* Jobs of process_packet that run one after the other, failures included, *)
(* with no rebuild between them, implement TripEngine: what they commit is *)
(* what its atomic steps make.                                             *)
(***************************************************************************)
THEOREM SerialJobsImplementTheEngine == JobsSpec /\ []serial => Engine!Spec
<1>1. JobsIInv /\ SerialInv /\ [JobsNext]_jobVars /\ serial' => [Engine!Next]_Engine!vars
  <2> SUFFICES ASSUME JobsIInv, SerialInv, [JobsNext]_jobVars, serial'
               PROVE  [Engine!Next]_Engine!vars
    OBVIOUS
  <2>1. Engine!Next \/ (rows' = rows /\ located' = located)
    BY JobsInStep DEF InStep
  <2>2. ASSUME rows' = rows, located' = located PROVE UNCHANGED Engine!vars
    BY <2>2 DEF Engine!vars, Committed, Newest, Moving
  <2> QED  BY <2>1, <2>2
<1> QED  BY <1>1, EngineInit, SerialJobsInvariant, PTL DEF JobsSpec, Engine!Spec

-----------------------------------------------------------------------------
(***************************************************************************)
(* What the API tells of a trip (TripSummary).  First, what its operators  *)
(* compute: a fold is the last of the values that it has after each        *)
(* element.                                                                *)
(***************************************************************************)
\* A set of naturals that is not empty has a least element.
LEMMA LeastNatural ==
  ASSUME NEW T, T \subseteq Nat, T # {}
  PROVE  \E x \in T : \A y \in T : x <= y
<1>1. PICK R : R = OpToRel(<, Nat)
  OBVIOUS
<1>2. IsWellFoundedOn(R, Nat)
  BY <1>1, NatLessThanWellFounded
<1>3. PICK x \in T : \A y \in T : ~(<<y, x>> \in R)
  BY <1>2, WFMin, Zenon
<1>4. ASSUME NEW y \in T PROVE x <= y
  <2>1. <<y, x>> \in R <=> y < x
    BY <1>1 DEF OpToRel
  <2> QED  BY <1>3, <2>1
<1> QED  BY <1>3, <1>4

\* What is so at zero, and at k whenever it is at k - 1, is so up to n: the
\* members of Bad are the counterexamples.
LEMMA NoFirstCounterexample ==
  ASSUME NEW Bad, Bad \subseteq Nat, 0 \notin Bad, \A k \in Bad : k - 1 \in Bad
  PROVE  Bad = {}
<1> SUFFICES ASSUME Bad # {} PROVE FALSE
  OBVIOUS
<1>1. PICK x \in Bad : \A y \in Bad : x <= y
  BY LeastNatural
<1> QED  BY <1>1

LEMMA GreatestUpTo ==
  ASSUME NEW m \in Nat, NEW t \in SUBSET (1 .. m), t # {}
  PROVE  /\ Max(t) \in t /\ \A x \in t : x <= Max(t)
         /\ \A x \in t : (\A y \in t : y <= x) => Max(t) = x
<1>d. PICK Down : Down = {k \in 0 .. m : \A x \in t : x <= k}
  OBVIOUS
<1>1. Down \subseteq Nat /\ m \in Down
  BY <1>d
<1>2. PICK g \in Down : \A k \in Down : g <= k
  BY <1>1, LeastNatural
<1>3. g \in t
  <2> SUFFICES ASSUME g \notin t PROVE FALSE
    OBVIOUS
  <2>1. g \in 0 .. m /\ \A x \in t : x \in Nat /\ x <= g /\ x # g /\ x >= 1
    BY <1>2, <1>d
  <2>x. PICK x \in t : TRUE
    OBVIOUS
  <2>2. g >= 1 /\ \A y \in t : y <= g - 1
    BY <2>1, <2>x
  <2>3. g - 1 \in Down
    BY <1>d, <2>1, <2>2
  <2> QED  BY <1>2, <2>1, <2>3
<1>4. \A x \in t : g >= x
  BY <1>2, <1>d
<1>5. \A x \in t : x \in Int
  OBVIOUS
<1>6. Max(t) \in t /\ \A y \in t : Max(t) >= y
  <2>1. \E x \in t : \A y \in t : x >= y
    BY <1>3, <1>4
  <2> QED  BY <2>1, Zenon DEF Max
<1>g. PICK x : x = Max(t)
  OBVIOUS
<1>7. x \in t /\ \A y \in t : x >= y
  BY <1>6, <1>g
<1>8. ASSUME NEW y \in t, \A z \in t : z <= y PROVE x = y
  BY <1>5, <1>7, <1>8
<1> QED  BY <1>5, <1>7, <1>8, <1>g

-----------------------------------------------------------------------------
(***************************************************************************)
(* The folds: their values after each element.                             *)
(***************************************************************************)
Scans(it, b, s, m) ==
  it = [t \in SUBSET (1 .. m) |->
          IF t = {} THEN b ELSE ScanStop(it[t \ {Max(t)}], s[Max(t)])]

LEMMA ScansExists ==
  ASSUME NEW b, NEW s, NEW n \in Nat
  PROVE  \E it : Scans(it, b, s, n)
<1>b. PICK Bad : Bad = {m \in Nat : ~\E it : Scans(it, b, s, m)}
  OBVIOUS
<1>1. 0 \notin Bad
  <2>i. PICK it : it = [t \in SUBSET (1 .. 0) |-> b]
    OBVIOUS
  <2>1. \A t \in SUBSET (1 .. 0) : t = {}
    OBVIOUS
  <2>2. Scans(it, b, s, 0)
    BY <2>i, <2>1 DEF Scans
  <2> QED  BY <1>b, <2>2
<1>2. ASSUME NEW m \in Bad PROVE m - 1 \in Bad
  <2> SUFFICES ASSUME m - 1 \notin Bad PROVE FALSE
    OBVIOUS
  <2>1. m \in Nat /\ m - 1 \in Nat
    BY <1>1, <1>b
  <2>2. PICK it : Scans(it, b, s, m - 1)
    BY <1>b, <2>1
  <2>j. PICK jt : jt = [t \in SUBSET (1 .. m) |->
                          IF m \notin t THEN it[t] ELSE ScanStop(it[t \ {m}], s[m])]
    OBVIOUS
  <2>3. ASSUME NEW t \in SUBSET (1 .. m)
        PROVE  jt[t] = IF t = {} THEN b ELSE ScanStop(jt[t \ {Max(t)}], s[Max(t)])
    <3>1. CASE t = {}
      <4>1. {} \in SUBSET (1 .. m - 1) /\ m \notin t
        BY <3>1
      <4>2. it[{}] = b
        BY <2>2, <4>1 DEF Scans
      <4> QED  BY <2>j, <3>1, <4>1, <4>2
    <3>2. CASE t # {} /\ m \notin t
      <4>1. t \in SUBSET (1 .. m - 1)
        BY <2>1, <3>2
      <4>2. Max(t) \in t /\ t \ {Max(t)} \in SUBSET (1 .. m) /\ m \notin t \ {Max(t)}
        BY <2>1, <3>2, GreatestUpTo
      <4>3. it[t] = ScanStop(it[t \ {Max(t)}], s[Max(t)])
        BY <2>2, <3>2, <4>1 DEF Scans
      <4>4. jt[t] = it[t] /\ jt[t \ {Max(t)}] = it[t \ {Max(t)}]
        BY <2>j, <3>2, <4>2
      <4> QED  BY <3>2, <4>3, <4>4
    <3>3. CASE m \in t
      <4>1. \A y \in t : y <= m
        BY <2>1
      <4>2. Max(t) = m
        BY <2>1, <3>3, <4>1, GreatestUpTo
      <4>3. t \ {m} \in SUBSET (1 .. m) /\ m \notin t \ {m} /\ t # {}
        BY <3>3
      <4>4. jt[t \ {m}] = it[t \ {m}] /\ jt[t] = ScanStop(it[t \ {m}], s[m])
        BY <2>j, <3>3, <4>3
      <4> QED  BY <4>2, <4>3, <4>4
    <3> QED  BY <3>1, <3>2, <3>3
  <2>4. Scans(jt, b, s, m)
    <3>1. jt = [t \in SUBSET (1 .. m) |-> jt[t]]
      BY <2>j
    <3> QED  BY <2>3, <3>1, Zenon DEF Scans
  <2> QED  BY <1>b, <2>4
<1>3. Bad = {}
  <2>1. Bad \subseteq Nat
    BY <1>b
  <2> QED  BY <1>1, <1>2, <2>1, NoFirstCounterexample
<1> QED  BY <1>b, <1>3

ScanValues(acc, b, s, n) ==
  /\ acc[0] = b
  /\ \A k \in 1 .. n : acc[k] = ScanStop(acc[k - 1], s[k])
  /\ FoldLeft(ScanStop, b, s) = acc[n]

LEMMA ScanFold ==
  ASSUME NEW b, NEW s, NEW n \in Nat, DOMAIN s = 1 .. n
  PROVE  \E acc : ScanValues(acc, b, s, n)
<1>1. PICK it : /\ it = [t \in SUBSET DOMAIN s |->
                           IF t = {} THEN b ELSE ScanStop(it[t \ {Max(t)}], s[Max(t)])]
                /\ FoldLeft(ScanStop, b, s) = it[DOMAIN s]
  <2>i. PICK it : Scans(it, b, s, n)
    BY ScansExists
  <2>1. \E jt : jt = [t \in SUBSET DOMAIN s |->
                        IF t = {} THEN b ELSE ScanStop(jt[t \ {Max(t)}], s[Max(t)])]
    BY <2>i, Zenon DEF Scans
  <2> QED  BY <2>1 DEF FoldLeft, MapThenFoldSet
<1>2. Scans(it, b, s, n)
  BY <1>1 DEF Scans
<1>a. PICK acc : acc = [k \in 0 .. n |-> it[1 .. k]]
  OBVIOUS
<1>3. acc[0] = b
  <2>1. 1 .. 0 = {} /\ {} \in SUBSET (1 .. n) /\ 0 \in 0 .. n
    OBVIOUS
  <2>2. it[{}] = b
    BY <1>2, <2>1 DEF Scans
  <2> QED  BY <1>a, <2>1, <2>2
<1>4. ASSUME NEW k \in 1 .. n PROVE acc[k] = ScanStop(acc[k - 1], s[k])
  <2>t. PICK t : t = 1 .. k
    OBVIOUS
  <2>1. t \in SUBSET (1 .. n) /\ k \in t /\ (\A y \in t : y <= k) /\ t # {}
    BY <2>t
  <2>2. Max(t) = k
    BY <2>1, GreatestUpTo
  <2>3. t \ {k} = 1 .. k - 1
    BY <2>t
  <2>4. it[t] = ScanStop(it[t \ {k}], s[k])
    BY <1>2, <2>1, <2>2 DEF Scans
  <2>5. acc[k] = it[t] /\ acc[k - 1] = it[1 .. k - 1]
    BY <1>a, <2>t
  <2> QED  BY <2>3, <2>4, <2>5
<1>5. FoldLeft(ScanStop, b, s) = acc[n]
  BY <1>1, <1>a
<1> QED  BY <1>3, <1>4, <1>5 DEF ScanValues

Adds(it, s, m) ==
  it = [t \in SUBSET (1 .. m) |->
          IF t = {} THEN 0 ELSE it[t \ {Max(t)}] + s[Max(t)]]

LEMMA AddsExists ==
  ASSUME NEW s, NEW n \in Nat
  PROVE  \E it : Adds(it, s, n)
<1>b. PICK Bad : Bad = {m \in Nat : ~\E it : Adds(it, s, m)}
  OBVIOUS
<1>1. 0 \notin Bad
  <2>i. PICK it : it = [t \in SUBSET (1 .. 0) |-> 0]
    OBVIOUS
  <2>1. \A t \in SUBSET (1 .. 0) : t = {}
    OBVIOUS
  <2>2. Adds(it, s, 0)
    BY <2>i, <2>1 DEF Adds
  <2> QED  BY <1>b, <2>2
<1>2. ASSUME NEW m \in Bad PROVE m - 1 \in Bad
  <2> SUFFICES ASSUME m - 1 \notin Bad PROVE FALSE
    OBVIOUS
  <2>1. m \in Nat /\ m - 1 \in Nat
    BY <1>1, <1>b
  <2>2. PICK it : Adds(it, s, m - 1)
    BY <1>b, <2>1
  <2>j. PICK jt : jt = [t \in SUBSET (1 .. m) |->
                          IF m \notin t THEN it[t] ELSE it[t \ {m}] + s[m]]
    OBVIOUS
  <2>3. ASSUME NEW t \in SUBSET (1 .. m)
        PROVE  jt[t] = IF t = {} THEN 0 ELSE jt[t \ {Max(t)}] + s[Max(t)]
    <3>1. CASE t = {}
      <4>1. {} \in SUBSET (1 .. m - 1) /\ m \notin t
        BY <3>1
      <4>2. it[{}] = 0
        BY <2>2, <4>1 DEF Adds
      <4> QED  BY <2>j, <3>1, <4>1, <4>2
    <3>2. CASE t # {} /\ m \notin t
      <4>1. t \in SUBSET (1 .. m - 1)
        BY <2>1, <3>2
      <4>2. Max(t) \in t /\ t \ {Max(t)} \in SUBSET (1 .. m) /\ m \notin t \ {Max(t)}
        BY <2>1, <3>2, GreatestUpTo
      <4>3. it[t] = it[t \ {Max(t)}] + s[Max(t)]
        BY <2>2, <3>2, <4>1 DEF Adds
      <4>4. jt[t] = it[t] /\ jt[t \ {Max(t)}] = it[t \ {Max(t)}]
        BY <2>j, <3>2, <4>2
      <4> QED  BY <3>2, <4>3, <4>4
    <3>3. CASE m \in t
      <4>1. \A y \in t : y <= m
        BY <2>1
      <4>2. Max(t) = m
        BY <2>1, <3>3, <4>1, GreatestUpTo
      <4>3. t \ {m} \in SUBSET (1 .. m) /\ m \notin t \ {m} /\ t # {}
        BY <3>3
      <4>4. jt[t \ {m}] = it[t \ {m}] /\ jt[t] = it[t \ {m}] + s[m]
        BY <2>j, <3>3, <4>3
      <4> QED  BY <4>2, <4>3, <4>4
    <3> QED  BY <3>1, <3>2, <3>3
  <2>4. Adds(jt, s, m)
    <3>1. jt = [t \in SUBSET (1 .. m) |-> jt[t]]
      BY <2>j
    <3> QED  BY <2>3, <3>1, Zenon DEF Adds
  <2> QED  BY <1>b, <2>4
<1>3. Bad = {}
  <2>1. Bad \subseteq Nat
    BY <1>b
  <2> QED  BY <1>1, <1>2, <2>1, NoFirstCounterexample
<1> QED  BY <1>b, <1>3

SumValues(acc, s, n) ==
  /\ acc[0] = 0
  /\ \A k \in 1 .. n : acc[k] = acc[k - 1] + s[k]
  /\ FoldLeft(+, 0, s) = acc[n]

LEMMA SumFold ==
  ASSUME NEW s, NEW n \in Nat, DOMAIN s = 1 .. n
  PROVE  \E acc : SumValues(acc, s, n)
<1>1. PICK it : /\ it = [t \in SUBSET DOMAIN s |->
                           IF t = {} THEN 0 ELSE it[t \ {Max(t)}] + s[Max(t)]]
                /\ FoldLeft(+, 0, s) = it[DOMAIN s]
  <2>i. PICK it : Adds(it, s, n)
    BY AddsExists
  <2>1. \E jt : jt = [t \in SUBSET DOMAIN s |->
                        IF t = {} THEN 0 ELSE jt[t \ {Max(t)}] + s[Max(t)]]
    BY <2>i, Zenon DEF Adds
  <2> QED  BY <2>1 DEF FoldLeft, MapThenFoldSet
<1>2. Adds(it, s, n)
  BY <1>1 DEF Adds
<1>a. PICK acc : acc = [k \in 0 .. n |-> it[1 .. k]]
  OBVIOUS
<1>3. acc[0] = 0
  <2>1. 1 .. 0 = {} /\ {} \in SUBSET (1 .. n) /\ 0 \in 0 .. n
    OBVIOUS
  <2>2. it[{}] = 0
    BY <1>2, <2>1 DEF Adds
  <2> QED  BY <1>a, <2>1, <2>2
<1>4. ASSUME NEW k \in 1 .. n PROVE acc[k] = acc[k - 1] + s[k]
  <2>t. PICK t : t = 1 .. k
    OBVIOUS
  <2>1. t \in SUBSET (1 .. n) /\ k \in t /\ (\A y \in t : y <= k) /\ t # {}
    BY <2>t
  <2>2. Max(t) = k
    BY <2>1, GreatestUpTo
  <2>3. t \ {k} = 1 .. k - 1
    BY <2>t
  <2>4. it[t] = it[t \ {k}] + s[k]
    BY <1>2, <2>1, <2>2 DEF Adds
  <2>5. acc[k] = it[t] /\ acc[k - 1] = it[1 .. k - 1]
    BY <1>a, <2>t
  <2> QED  BY <2>3, <2>4, <2>5
<1>5. acc[n] = it[DOMAIN s]
  BY <1>a
<1>6. FoldLeft(+, 0, s) = acc[n]
  BY <1>1, <1>5, Zenon
<1> QED  BY <1>3, <1>4, <1>6, Zenon DEF SumValues

Ordered(locs) == \A m, n \in DOMAIN locs : m <= n => locs[m].ts <= locs[n].ts

Inside(locs, from, to) == {n \in DOMAIN locs : from <= locs[n].ts /\ locs[n].ts <= to}

LEMMA ObservedType ==
  ASSUME NEW p \in Observed
  PROVE  p.ts \in Nat /\ p.speed \in Nat /\ p.pos \in Int /\ p.ign \in Ignition
BY SummaryConstants

\* The window is the part of the table from a + 1 on.
Frames(w, locs, a, from, to) ==
  /\ w \in Seq(Observed) /\ Ordered(w)
  /\ Len(w) = Cardinality(Inside(locs, from, to))
  /\ Inside(locs, from, to) = a + 1 .. a + Len(w)
  /\ \A n \in 1 .. Len(w) : /\ w[n] = locs[a + n] /\ w[n].ts \in Nat
                            /\ from <= w[n].ts /\ w[n].ts <= to

LEMMA WindowFrames ==
  ASSUME NEW locs \in Seq(Observed), Ordered(locs),
         NEW t, t.start_time \in Nat, t.end_time \in Nat
  PROVE  \E a \in 0 .. Len(locs) : Frames(Window(locs, t), locs, a, t.start_time, t.end_time)
<1>s. PICK S : S = Inside(locs, t.start_time, t.end_time)
  OBVIOUS
<1>w. PICK w : w = Window(locs, t)
  OBVIOUS
<1>l. PICK l \in Nat : l = Len(locs) /\ DOMAIN locs = 1 .. l
  OBVIOUS
<1>0. S \in SUBSET (1 .. l) /\ \A n \in S : locs[n] \in Observed /\ locs[n].ts \in Nat
  BY <1>s, <1>l, ObservedType DEF Inside
<1>1. w = [n \in 1 .. Cardinality(S) |-> locs[Min(S) + n - 1]]
  BY <1>s, <1>w DEF Window, Inside
<1>2. CASE S = {}
  <2>1. Cardinality(S) = 0
    BY <1>2, FS_EmptySet
  <2>2. w = <<>>
    BY <1>1, <2>1
  <2>3. Frames(w, locs, 0, t.start_time, t.end_time)
    BY <1>s, <1>2, <2>1, <2>2 DEF Frames, Ordered
  <2> QED  BY <1>w, <1>l, <2>3
<1>3. CASE S # {}
  <2>1. S \subseteq Nat
    BY <1>0
  <2>2. PICK lo \in S : \A y \in S : lo <= y
    BY <1>3, <2>1, LeastNatural
  <2>3. Min(S) = lo
    <3>m. PICK x : x = Min(S)
      OBVIOUS
    <3>1. x \in S /\ \A y \in S : x <= y
      BY <2>2, <3>m, Zenon DEF Min
    <3>2. lo <= x /\ x <= lo /\ x \in Nat /\ lo \in Nat
      BY <2>1, <2>2, <3>1
    <3> QED  BY <3>2, <3>m
  <2>h. PICK hi : hi = Max(S)
    OBVIOUS
  <2>4. hi \in S /\ \A y \in S : y <= hi
    BY <1>0, <1>3, <2>h, GreatestUpTo
  <2>5. lo \in 1 .. l /\ hi \in 1 .. l /\ lo <= hi
    BY <1>0, <2>2, <2>4
  <2>6. S = lo .. hi
    <3>1. ASSUME NEW n \in S PROVE n \in lo .. hi
      BY <1>0, <2>2, <2>4
    <3>2. ASSUME NEW n \in lo .. hi PROVE n \in S
      <4>1. n \in DOMAIN locs /\ lo \in DOMAIN locs /\ hi \in DOMAIN locs /\ lo <= n /\ n <= hi
        BY <1>l, <2>5
      <4>2. locs[lo].ts <= locs[n].ts /\ locs[n].ts <= locs[hi].ts
        BY <4>1 DEF Ordered
      <4>3. t.start_time <= locs[lo].ts /\ locs[hi].ts <= t.end_time
        BY <1>s, <2>2, <2>4 DEF Inside
      <4>4. locs[n].ts \in Nat /\ locs[lo].ts \in Nat /\ locs[hi].ts \in Nat
        BY <4>1, ObservedType
      <4>5. t.start_time <= locs[n].ts /\ locs[n].ts <= t.end_time
        BY <4>2, <4>3, <4>4
      <4> QED  BY <1>s, <4>1, <4>5 DEF Inside
    <3> QED  BY <3>1, <3>2
  <2>a. PICK a : a = lo - 1
    OBVIOUS
  <2>c. PICK c : c = hi - a
    OBVIOUS
  <2>7. a \in 0 .. l /\ c \in Nat /\ lo = a + 1 /\ hi = a + c
    BY <2>5, <2>a, <2>c
  <2>8. Cardinality(S) = c
    <3>1. Cardinality(lo .. hi) = hi - lo + 1
      BY <2>5, FS_Interval
    <3> QED  BY <2>5, <2>6, <2>a, <2>c, <3>1
  <2>9. w = [n \in 1 .. c |-> locs[a + n]]
    <3>1. \A n \in 1 .. c : lo + n - 1 = a + n
      BY <2>7
    <3> QED  BY <1>1, <2>3, <2>8, <3>1
  <2>10. \A n \in 1 .. c : a + n \in S
    BY <2>6, <2>7
  <2>11. w \in Seq(Observed) /\ Len(w) = c /\ DOMAIN w = 1 .. c
    <3>1. \A n \in 1 .. c : locs[a + n] \in Observed
      BY <1>0, <2>10
    <3>2. w \in [1 .. c -> Observed]
      BY <2>9, <3>1
    <3> QED  BY <2>7, <3>2
  <2>12. Ordered(w)
    <3>1. ASSUME NEW m \in 1 .. c, NEW n \in 1 .. c, m <= n PROVE w[m].ts <= w[n].ts
      <4>0. a + m \in S /\ a + n \in S
        BY <2>10
      <4>1. a + m \in DOMAIN locs /\ a + n \in DOMAIN locs /\ a + m <= a + n
        <5>1. a + m <= a + n
          BY <2>7, <3>1
        <5> QED  BY <1>0, <1>l, <4>0, <5>1
      <4>2. locs[a + m].ts <= locs[a + n].ts
        BY <4>1 DEF Ordered
      <4> QED  BY <2>9, <4>2
    <3> QED  BY <2>11, <3>1 DEF Ordered
  <2>13. ASSUME NEW n \in 1 .. c
         PROVE  /\ w[n] = locs[a + n] /\ w[n].ts \in Nat
                /\ t.start_time <= w[n].ts /\ w[n].ts <= t.end_time
    <3>1. a + n \in S /\ w[n] = locs[a + n]
      BY <2>9, <2>10
    <3>2. t.start_time <= locs[a + n].ts /\ locs[a + n].ts <= t.end_time
      BY <1>s, <3>1 DEF Inside
    <3> QED  BY <1>0, <3>1, <3>2
  <2>14. Frames(w, locs, a, t.start_time, t.end_time)
    BY <1>s, <2>6, <2>7, <2>8, <2>11, <2>12, <2>13 DEF Frames
  <2> QED  BY <1>w, <1>l, <2>7, <2>14
<1> QED  BY <1>2, <1>3

-----------------------------------------------------------------------------
(***************************************************************************)
(* What an insertion does to the locations of a period.                    *)
(***************************************************************************)
LEMMA Shifted ==
  ASSUME NEW l \in Nat, NEW n \in 0 .. l,
         NEW S \in SUBSET (1 .. l), NEW T \in SUBSET (1 .. l + 1),
         \A i \in S : (IF i <= n THEN i ELSE i + 1) \in T
  PROVE  /\ Cardinality(S) \in Nat /\ Cardinality(T) \in Nat
         /\ Cardinality(S) <= Cardinality(T)
         /\ n + 1 \in T => Cardinality(S) + 1 <= Cardinality(T)
<1>1. IsFiniteSet(S) /\ IsFiniteSet(T)
  <2>1. IsFiniteSet(1 .. l) /\ IsFiniteSet(1 .. l + 1)
    BY FS_Interval
  <2> QED  BY <2>1, FS_Subset
<1>u. PICK U : U = T \ {n + 1}
  OBVIOUS
<1>2. IsFiniteSet(U) /\ Cardinality(U) = IF n + 1 \in T THEN Cardinality(T) - 1 ELSE Cardinality(T)
  BY <1>1, <1>u, FS_RemoveElement
<1>f. PICK f : f = [i \in S |-> IF i <= n THEN i ELSE i + 1]
  OBVIOUS
<1>3. ASSUME NEW i \in S PROVE f[i] \in U
  <2>1. f[i] \in T
    BY <1>f
  <2>2. f[i] # n + 1
    <3>1. i \in Int /\ n \in Int
      OBVIOUS
    <3> QED  BY <1>f, <3>1
  <2> QED  BY <1>u, <2>1, <2>2
<1>4. ASSUME NEW i \in S, NEW j \in S, f[i] = f[j] PROVE i = j
  <2>1. i \in Int /\ j \in Int /\ n \in Int
    OBVIOUS
  <2> QED  BY <1>f, <1>4, <2>1
<1>5. f \in Injection(S, U)
  <2>1. f \in [S -> U]
    BY <1>f, <1>3
  <2> QED  BY <1>4, <2>1 DEF Injection, IsInjective
<1>6. Cardinality(S) <= Cardinality(U)
  BY <1>2, <1>5, FS_Injection
<1>7. Cardinality(S) \in Nat /\ Cardinality(T) \in Nat
  BY <1>1, FS_CardinalityType
<1> QED  BY <1>2, <1>6, <1>7

Fast(locs, from, to) == {n \in Inside(locs, from, to) : locs[n].speed > SpeedLimit}
Slow(locs, from, to) == {n \in Inside(locs, from, to) : ~(locs[n].speed > SpeedLimit)}

LEMMA InsideSplits ==
  ASSUME NEW locs \in Seq(Observed), NEW from, NEW to
  PROVE  /\ Cardinality(Fast(locs, from, to)) \in Nat
         /\ Cardinality(Slow(locs, from, to)) \in Nat
         /\ Cardinality(Inside(locs, from, to)) =
              Cardinality(Fast(locs, from, to)) + Cardinality(Slow(locs, from, to))
<1>f. PICK F : F = Fast(locs, from, to)
  OBVIOUS
<1>s. PICK S : S = Slow(locs, from, to)
  OBVIOUS
<1>i. PICK I : I = Inside(locs, from, to)
  OBVIOUS
<1>1. IsFiniteSet(DOMAIN locs)
  BY FS_Interval
<1>2. I \in SUBSET DOMAIN locs /\ F \in SUBSET I /\ S \in SUBSET I
  BY <1>f, <1>s, <1>i DEF Inside, Fast, Slow
<1>3. IsFiniteSet(F) /\ IsFiniteSet(S)
  BY <1>1, <1>2, FS_Subset
<1>4. F \cup S = I /\ F \cap S = {}
  <2>1. F = {n \in I : locs[n].speed > SpeedLimit} /\ S = {n \in I : ~(locs[n].speed > SpeedLimit)}
    BY <1>f, <1>s, <1>i DEF Fast, Slow
  <2> QED  BY <2>1, Zenon
<1>5. Cardinality(F) \in Nat /\ Cardinality(S) \in Nat /\ Cardinality({}) = 0
  BY <1>3, FS_CardinalityType, FS_EmptySet
<1>6. Cardinality(F \cup S) = Cardinality(F) + Cardinality(S) - Cardinality(F \cap S)
  BY <1>3, FS_Union
<1>7. Cardinality(I) = Cardinality(F) + Cardinality(S)
  <2>1. Cardinality(F \cup S) = Cardinality(I) /\ Cardinality(F \cap S) = 0
    BY <1>4, <1>5
  <2> QED  BY <1>5, <1>6, <2>1
<1> QED  BY <1>5, <1>7, <1>f, <1>s, <1>i

Widened(after, locs, p, n) ==
  /\ after \in Seq(Observed) /\ DOMAIN after = 1 .. Len(locs) + 1
  /\ \A i \in 1 .. Len(locs) + 1 :
       after[i] = IF i <= n THEN locs[i] ELSE IF i = n + 1 THEN p ELSE locs[i - 1]

LEMMA InsertedAt ==
  ASSUME NEW locs \in Seq(Observed), NEW p \in Observed, NEW n \in 0 .. Len(locs),
         NEW after, after = InsertAt(locs, n + 1, p)
  PROVE  Widened(after, locs, p, n)
<1>l. PICK l \in Nat : l = Len(locs)
  OBVIOUS
<1>0. n + 1 - 1 = n /\ n \in 0 .. l /\ n \in Nat
  BY <1>l
<1>1. after = Insert(locs, p, n)
  <2>m. PICK m : m = n + 1
    OBVIOUS
  <2>1. after = SubSeq(locs, 1, m - 1) \o <<p>> \o SubSeq(locs, m, Len(locs))
    BY <2>m, Zenon DEF InsertAt
  <2>2. m - 1 = n
    BY <1>0, <2>m
  <2> QED  BY <2>1, <2>2, <2>m, Zenon DEF Insert
<1>2. after \in Seq(Observed) /\ DOMAIN after = 1 .. l + 1
  BY <1>1, <1>l, Inserted
<1>3. \A i \in 1 .. n : after[i] = locs[i]
  BY <1>1, Inserted
<1>4. after[n + 1] = p
  BY <1>1, Inserted
<1>5. \A i \in n + 2 .. Len(locs) + 1 : after[i] = locs[i - 1]
  BY <1>1, Inserted
<1>6. ASSUME NEW i \in 1 .. l + 1
      PROVE  after[i] = IF i <= n THEN locs[i] ELSE IF i = n + 1 THEN p ELSE locs[i - 1]
  <2>1. i \in 1 .. n \/ i = n + 1 \/ i \in n + 2 .. Len(locs) + 1
    BY <1>0, <1>l
  <2>2. ASSUME i \in n + 2 .. Len(locs) + 1 PROVE ~(i <= n) /\ i # n + 1
    BY <1>0, <1>l, <2>2
  <2>3. ~(n + 1 <= n)
    BY <1>0
  <2> QED  BY <1>3, <1>4, <1>5, <2>1, <2>2, <2>3
<1> QED  BY <1>2, <1>6, <1>l DEF Widened

LEMMA InsideGrows ==
  ASSUME NEW locs \in Seq(Observed), NEW p \in Observed, NEW n \in 0 .. Len(locs),
         NEW after, after = InsertAt(locs, n + 1, p),
         NEW from \in Nat, NEW to \in Nat, NEW end \in Nat, to <= end
  PROVE  /\ after \in Seq(Observed)
         /\ Cardinality(Fast(locs, from, to)) <= Cardinality(Fast(after, from, end))
         /\ Cardinality(Slow(locs, from, to)) <= Cardinality(Slow(after, from, end))
         /\ from <= p.ts /\ p.ts <= end =>
              IF p.speed > SpeedLimit
              THEN Cardinality(Fast(locs, from, to)) + 1 <= Cardinality(Fast(after, from, end))
              ELSE Cardinality(Slow(locs, from, to)) + 1 <= Cardinality(Slow(after, from, end))
<1>l. PICK l \in Nat : l = Len(locs) /\ DOMAIN locs = 1 .. l
  OBVIOUS
<1>0. n + 1 - 1 = n /\ n \in 0 .. l /\ n \in Nat
  BY <1>l
<1>2. /\ after \in Seq(Observed) /\ DOMAIN after = 1 .. l + 1
      /\ \A i \in 1 .. l + 1 :
           after[i] = IF i <= n THEN locs[i] ELSE IF i = n + 1 THEN p ELSE locs[i - 1]
  <2>1. Widened(after, locs, p, n)
    BY InsertedAt
  <2> QED  BY <1>l, <2>1 DEF Widened
<1>3. ASSUME NEW i \in 1 .. l
      PROVE  /\ (IF i <= n THEN i ELSE i + 1) \in 1 .. l + 1
             /\ after[IF i <= n THEN i ELSE i + 1] = locs[i]
  <2>1. CASE i <= n
    <3>1. i \in 1 .. l + 1
      BY <1>0, <2>1
    <3> QED  BY <1>2, <2>1, <3>1
  <2>2. CASE ~(i <= n)
    <3>1. ~(i + 1 <= n) /\ i + 1 # n + 1 /\ i + 1 - 1 = i /\ i + 1 \in 1 .. l + 1
      BY <1>0, <2>2
    <3> QED  BY <1>2, <2>2, <3>1
  <2> QED  BY <2>1, <2>2
<1>4. ASSUME NEW i \in Inside(locs, from, to)
      PROVE  /\ i \in 1 .. l /\ (IF i <= n THEN i ELSE i + 1) \in Inside(after, from, end)
             /\ after[IF i <= n THEN i ELSE i + 1].speed = locs[i].speed
  <2>1. i \in 1 .. l /\ from <= locs[i].ts /\ locs[i].ts <= to
    BY <1>l DEF Inside
  <2>2. locs[i].ts \in Nat
    BY <1>l, <2>1, ObservedType
  <2>3. locs[i].ts <= end
    BY <2>1, <2>2
  <2>k. PICK k : k = IF i <= n THEN i ELSE i + 1
    OBVIOUS
  <2>4. k \in 1 .. l + 1 /\ after[k] = locs[i]
    BY <1>3, <2>1, <2>k
  <2>5. k \in Inside(after, from, end)
    BY <1>2, <2>1, <2>3, <2>4 DEF Inside
  <2> QED  BY <2>1, <2>4, <2>5, <2>k
<1>5. from <= p.ts /\ p.ts <= end => n + 1 \in Inside(after, from, end)
  <2>1. n + 1 \in 1 .. l + 1 /\ after[n + 1] = p
    BY <1>0, <1>2
  <2> QED  BY <1>2, <2>1 DEF Inside
<1>6. /\ Cardinality(Fast(locs, from, to)) <= Cardinality(Fast(after, from, end))
      /\ n + 1 \in Fast(after, from, end) =>
           Cardinality(Fast(locs, from, to)) + 1 <= Cardinality(Fast(after, from, end))
  <2>1. Fast(locs, from, to) \in SUBSET (1 .. l) /\ Fast(after, from, end) \in SUBSET (1 .. l + 1)
    BY <1>l, <1>2 DEF Fast, Inside
  <2>2. ASSUME NEW i \in Fast(locs, from, to)
        PROVE  (IF i <= n THEN i ELSE i + 1) \in Fast(after, from, end)
    <3>1. i \in Inside(locs, from, to) /\ locs[i].speed > SpeedLimit
      BY DEF Fast
    <3> QED  BY <1>4, <3>1 DEF Fast
  <2> QED  BY <1>0, <2>1, <2>2, Shifted
<1>7. /\ Cardinality(Slow(locs, from, to)) <= Cardinality(Slow(after, from, end))
      /\ n + 1 \in Slow(after, from, end) =>
           Cardinality(Slow(locs, from, to)) + 1 <= Cardinality(Slow(after, from, end))
  <2>1. Slow(locs, from, to) \in SUBSET (1 .. l) /\ Slow(after, from, end) \in SUBSET (1 .. l + 1)
    BY <1>l, <1>2 DEF Slow, Inside
  <2>2. ASSUME NEW i \in Slow(locs, from, to)
        PROVE  (IF i <= n THEN i ELSE i + 1) \in Slow(after, from, end)
    <3>1. i \in Inside(locs, from, to) /\ ~(locs[i].speed > SpeedLimit)
      BY DEF Slow
    <3> QED  BY <1>4, <3>1 DEF Slow
  <2> QED  BY <1>0, <2>1, <2>2, Shifted
<1>8. from <= p.ts /\ p.ts <= end =>
        IF p.speed > SpeedLimit THEN n + 1 \in Fast(after, from, end)
                                ELSE n + 1 \in Slow(after, from, end)
  <2>1. after[n + 1] = p
    BY <1>0, <1>2
  <2> QED  BY <1>5, <2>1 DEF Fast, Slow
<1> QED  BY <1>2, <1>6, <1>7, <1>8

-----------------------------------------------------------------------------
(***************************************************************************)
(* The counters of the trip, and the locations of the period that it had   *)
(* when it last counted one.                                               *)
(***************************************************************************)
CountsLocations(t, locs) ==
  LET to == t.start_time + t.duration
  IN  /\ t.overspeed_count <= Cardinality(Fast(locs, t.start_time, to))
      /\ t.packet_count - t.overspeed_count <= Cardinality(Slow(locs, t.start_time, to))

SummaryIInv ==
  /\ SummaryTypeOK
  /\ Ordered(track)
  /\ trip.duration \in Nat
  /\ trip.is_active => trip.end_time = trip.start_time + trip.duration
  /\ CountsLocations(trip, track)

\* The trip e after a location that the trip t, or none, counted.
CountsOne(e, t, p) ==
  /\ e \in Trip /\ e.start_time = t.start_time /\ e.duration = p.ts - t.start_time
  /\ e.end_time = p.ts
  /\ e.packet_count = t.packet_count + 1
  /\ e.overspeed_count = t.overspeed_count + Overspeed(p)

CountsNone(e, t) ==
  /\ e \in Trip /\ e.start_time = t.start_time /\ e.duration = t.duration
  /\ e.packet_count = t.packet_count /\ e.overspeed_count = t.overspeed_count
  /\ e.is_active => e.end_time = t.end_time

LEMMA UpdateCounts ==
  ASSUME NEW t \in Trip, NEW p \in Observed, InTime(t, p), NEW moving
  PROVE  CountsOne(Update(t, p, moving), t, p)
<1>0. StartSpeed \in Nat /\ SpeedLimit \in Nat /\ IdleSpeed \in Nat
  BY TripConstants
<1>1. p.ts \in Nat /\ p.pos \in Int
  BY ObservedType
<1>2. /\ t.start_time \in Nat /\ t.end_time \in Nat /\ t.distance \in Nat /\ t.end_pos \in Int
      /\ t.idle_time \in Nat /\ t.packet_count \in Nat /\ t.overspeed_count \in Nat
  BY DEF Trip
<1>3. p.ts > t.end_time
  BY <1>1, <1>2 DEF InTime, Late
<1>d. PICK d : d = Travelled(t, p)
  OBVIOUS
<1>o. PICK o : o = Overspeed(p)
  OBVIOUS
<1>4. d \in Nat /\ o \in Nat
  <2>1. Distance(t.end_pos, p.pos) \in Nat
    BY <1>1, <1>2 DEF Distance
  <2> QED  BY <1>d, <1>o, <2>1 DEF Travelled, Overspeed
<1>i. PICK idle : idle = IF p.speed <= IdleSpeed THEN p.ts - t.end_time ELSE 0
  OBVIOUS
<1>5. idle \in Nat
  BY <1>i, <1>1, <1>2, <1>3
<1>6. Extend(t, p) = [t EXCEPT !.distance        = t.distance + d,
                               !.packet_count    = t.packet_count + 1,
                               !.overspeed_count = t.overspeed_count + o,
                               !.end_time        = p.ts,
                               !.duration        = p.ts - t.start_time,
                               !.idle_time       = t.idle_time + idle,
                               !.end_pos         = p.pos]
  BY <1>d, <1>o, <1>i DEF Extend
<1>e. PICK e : e = Extend(t, p)
  OBVIOUS
<1>7. /\ t.distance + d \in Nat /\ t.packet_count + 1 \in Nat /\ t.overspeed_count + o \in Nat
      /\ p.ts - t.start_time \in Int /\ t.idle_time + idle \in Nat
  BY <1>1, <1>2, <1>4, <1>5
<1>8. CountsOne(e, t, p)
  BY <1>1, <1>6, <1>7, <1>e, <1>o, ZenonT(30) DEF Trip, CountsOne
<1>9. \/ Update(t, p, moving) = e
      \/ \E st \in {"COMPLETED", "CANCELLED"} : Update(t, p, moving) = Close(e, st)
  BY <1>e DEF Update, EndStatus
<1>10. ASSUME NEW st \in {"COMPLETED", "CANCELLED"} PROVE CountsOne(Close(e, st), t, p)
  BY <1>8 DEF CountsOne, Close, Trip, TripStatus
<1> QED  BY <1>8, <1>9, <1>10

LEMMA RouteCloseCounts ==
  ASSUME NEW t, t \in Trip, NEW p \in Observed, NEW done
  PROVE  /\ RouteClose(t, p, done) \in Trip
         /\ RouteClose(t, p, done).start_time = t.start_time
         /\ RouteClose(t, p, done).duration = t.duration
         /\ RouteClose(t, p, done).packet_count = t.packet_count
         /\ RouteClose(t, p, done).overspeed_count = t.overspeed_count
         /\ RouteClose(t, p, done).is_active => t.is_active /\ RouteClose(t, p, done) = t
<1>1. p.ts \in Nat
  BY ObservedType
<1>2. CASE done
  <2>c. PICK c : c = Close(t, "COMPLETED")
    OBVIOUS
  <2>1. c = [[t EXCEPT !.status = "COMPLETED"] EXCEPT !.is_active = FALSE]
    BY <2>c DEF Close
  <2>2. /\ c \in Trip /\ c.start_time = t.start_time /\ c.duration = t.duration
        /\ c.packet_count = t.packet_count /\ c.overspeed_count = t.overspeed_count
        /\ c.is_active = FALSE
    BY <2>1 DEF Trip, TripStatus
  <2>3. RouteClose(t, p, done) = [c EXCEPT !.end_time = p.ts]
    BY <1>2, <2>c DEF RouteClose
  <2> QED  BY <1>1, <2>2, <2>3 DEF Trip
<1>3. CASE ~done
  BY <1>3 DEF RouteClose
<1> QED  BY <1>2, <1>3

LEMMA ObserveOutcome ==
  ASSUME trip \in Trip, trip.is_active, NEW p \in Observed, NEW moving, NEW done \in BOOLEAN,
         NEW evaluated, evaluated = Evaluated(<<trip>>, {1}, p, moving),
         NEW e, e = RouteClose(evaluated[1], p, done /\ Len(evaluated) = 1)
  PROVE  \/ CountsNone(e, trip)
         \/ ~Late(trip, p) /\ CountsOne(e, trip, p)
<1>1. (CHOOSE j \in {1} : TRUE) = 1
  OBVIOUS
<1>s. PICK s : s = <<trip>>
  OBVIOUS
<1>2. s \in Seq(Trip) /\ Len(s) = 1 /\ s[1] = trip
  BY <1>s
<1>d. PICK d \in BOOLEAN : e = RouteClose(evaluated[1], p, d)
  OBVIOUS
<1>3. CASE Late(trip, p)
  <2>0. trip.end_time \in Nat /\ p.ts \in Nat /\ GapTimeout \in Nat
    BY ObservedType, TripConstants DEF Trip
  <2>a. ~AfterGap(trip, p) /\ ~InTime(trip, p)
    BY <1>3, <2>0 DEF AfterGap, InTime, Late
  <2>1. evaluated = s
    BY <1>1, <1>2, <1>s, <1>3, <2>a DEF Evaluated
  <2>2. evaluated[1] = trip
    BY <1>2, <2>1
  <2> QED  BY <1>d, <2>2, RouteCloseCounts DEF CountsNone
<1>4. CASE ~Late(trip, p) /\ AfterGap(trip, p)
  <2>c. PICK c : c = Close(trip, "COMPLETED")
    OBVIOUS
  <2>1. CountsNone(c, trip) /\ c.is_active = FALSE
    BY <2>c DEF CountsNone, Close, Trip, TripStatus
  <2>f. PICK f : f = [s EXCEPT ![1] = c]
    OBVIOUS
  <2>2. f \in Seq(Trip) /\ Len(f) = 1 /\ f[1] = c
    BY <1>2, <2>f, <2>1 DEF CountsNone
  <2>3. evaluated = f \/ evaluated = Append(f, NewTrip(p))
    BY <1>1, <1>2, <1>s, <1>4, <2>c, <2>f DEF Evaluated, InTime
  <2>4. evaluated[1] = c
    BY <2>2, <2>3
  <2>5. CountsNone(RouteClose(c, p, d), trip)
    BY <2>1, RouteCloseCounts DEF CountsNone
  <2> QED  BY <1>d, <2>4, <2>5
<1>5. CASE InTime(trip, p)
  <2>u. PICK u : u = Update(trip, p, moving)
    OBVIOUS
  <2>1. CountsOne(u, trip, p)
    BY <1>5, <2>u, UpdateCounts
  <2>2. ~Late(trip, p) /\ ~AfterGap(trip, p)
    BY <1>5 DEF InTime
  <2>3. evaluated = [s EXCEPT ![1] = u]
    BY <1>1, <1>2, <1>s, <1>5, <2>2, <2>u DEF Evaluated
  <2>4. evaluated[1] = u
    BY <1>2, <2>3
  <2>5. CountsOne(RouteClose(u, p, d), trip, p)
    <3>1. CASE d
      <4>1. RouteClose(u, p, d).end_time = p.ts
        <5>c. PICK c : c = Close(u, "COMPLETED")
          OBVIOUS
        <5>1. c = [[u EXCEPT !.status = "COMPLETED"] EXCEPT !.is_active = FALSE]
          BY <5>c DEF Close
        <5>2. c \in Trip
          BY <2>1, <5>1 DEF CountsOne, Trip, TripStatus
        <5>3. RouteClose(u, p, d) = [c EXCEPT !.end_time = p.ts]
          BY <3>1, <5>c DEF RouteClose
        <5> QED  BY <5>2, <5>3 DEF Trip
      <4> QED  BY <2>1, <4>1, RouteCloseCounts DEF CountsOne
    <3>2. CASE ~d
      BY <2>1, <3>2 DEF RouteClose
    <3> QED  BY <3>1, <3>2
  <2> QED  BY <1>d, <2>2, <2>4, <2>5
<1> QED  BY <1>3, <1>4, <1>5 DEF InTime

LEMMA SummaryInitHolds == SummaryInit => SummaryIInv
<1> SUFFICES ASSUME NEW p \in Observed, NEW done \in BOOLEAN, Starts(p),
                    trip = RouteClose(NewTrip(p), p, done), track = <<p>>
             PROVE  SummaryIInv
  BY DEF SummaryInit
<1>t. PICK t : t = NewTrip(p)
  OBVIOUS
<1>0. p.ts \in Nat /\ p.pos \in Int /\ SpeedLimit \in Nat /\ p.speed \in Nat
  BY ObservedType, TripConstants
<1>o. PICK o : o = Overspeed(p)
  OBVIOUS
<1>1. o = IF p.speed > SpeedLimit THEN 1 ELSE 0
  BY <1>o DEF Overspeed
<1>2. /\ t \in Trip /\ t.start_time = p.ts /\ t.end_time = p.ts /\ t.duration = 0
      /\ t.packet_count = 1 /\ t.overspeed_count = o
  BY <1>0, <1>1, <1>o, <1>t DEF NewTrip, Trip, TripStatus
<1>3. /\ trip \in Trip /\ trip.start_time = p.ts /\ trip.duration = 0
      /\ trip.packet_count = 1 /\ trip.overspeed_count = o
      /\ trip.is_active => trip = t
  BY <1>2, <1>t, RouteCloseCounts
<1>4. track \in Seq(Observed) /\ DOMAIN track = {1} /\ track[1] = p
  OBVIOUS
<1>5. Ordered(track)
  BY <1>0, <1>4 DEF Ordered
<1>6. Inside(track, p.ts, p.ts + 0) = {1}
  BY <1>0, <1>4 DEF Inside
<1>7. CountsLocations(trip, track)
  <2>1. Cardinality({}) = 0 /\ Cardinality({1}) = 1
    BY FS_EmptySet, FS_Singleton
  <2>2. CASE p.speed > SpeedLimit
    <3>1. Fast(track, p.ts, p.ts + 0) = {1} /\ Slow(track, p.ts, p.ts + 0) = {}
      BY <1>4, <1>6, <2>2 DEF Fast, Slow
    <3> QED  BY <1>1, <1>3, <2>1, <2>2, <3>1 DEF CountsLocations
  <2>3. CASE ~(p.speed > SpeedLimit)
    <3>1. Fast(track, p.ts, p.ts + 0) = {} /\ Slow(track, p.ts, p.ts + 0) = {1}
      BY <1>4, <1>6, <2>3 DEF Fast, Slow
    <3> QED  BY <1>1, <1>3, <2>1, <2>3, <3>1 DEF CountsLocations
  <2> QED  BY <2>2, <2>3
<1>8. trip.is_active => trip.end_time = trip.start_time + trip.duration
  BY <1>0, <1>2, <1>3
<1> QED  BY <1>3, <1>4, <1>5, <1>7, <1>8 DEF SummaryIInv, SummaryTypeOK

\* A location is inserted where the order of the table wants it.
LEMMA StaysOrdered ==
  ASSUME NEW locs \in Seq(Observed), Ordered(locs), NEW p \in Observed,
         NEW n \in 0 .. Len(locs),
         \A m \in 1 .. n : locs[m].ts <= p.ts,
         \A m \in n + 1 .. Len(locs) : p.ts <= locs[m].ts,
         NEW after, after = InsertAt(locs, n + 1, p)
  PROVE  Ordered(after)
<1>l. PICK l \in Nat : l = Len(locs) /\ DOMAIN locs = 1 .. l
  OBVIOUS
<1>1. /\ DOMAIN after = 1 .. l + 1
      /\ \A i \in 1 .. l + 1 :
           after[i] = IF i <= n THEN locs[i] ELSE IF i = n + 1 THEN p ELSE locs[i - 1]
  <2>1. Widened(after, locs, p, n)
    BY InsertedAt
  <2> QED  BY <1>l, <2>1 DEF Widened
<1>n. n \in Nat /\ n <= l
  BY <1>l
<1>2. ASSUME NEW i \in 1 .. l + 1, NEW j \in 1 .. l + 1, i <= j
      PROVE  after[i].ts <= after[j].ts
  <2>0. \A a, b \in 1 .. l : a <= b => locs[a].ts <= locs[b].ts
    BY <1>l DEF Ordered
  <2>t. p.ts \in Nat
    BY ObservedType
  <2>1. CASE i <= n /\ j <= n
    <3>1. i \in 1 .. l /\ j \in 1 .. l
      BY <1>n, <2>1
    <3> QED  BY <1>1, <1>2, <2>0, <2>1, <3>1
  <2>2. CASE i <= n /\ j = n + 1
    <3>1. i \in 1 .. n /\ ~(j <= n)
      BY <1>n, <2>2
    <3> QED  BY <1>1, <2>2, <3>1
  <2>3. CASE i <= n /\ j > n + 1
    <3>1. i \in 1 .. l /\ j - 1 \in 1 .. l /\ i <= j - 1 /\ ~(j <= n) /\ j # n + 1
      BY <1>n, <2>3
    <3> QED  BY <1>1, <2>0, <2>3, <3>1
  <2>4. CASE i = n + 1 /\ j = n + 1
    BY <1>1, <1>n, <2>4, <2>t
  <2>5. CASE i = n + 1 /\ j > n + 1
    <3>1. j - 1 \in n + 1 .. Len(locs) /\ ~(i <= n) /\ ~(j <= n) /\ j # n + 1
      BY <1>l, <1>n, <2>5
    <3> QED  BY <1>1, <2>5, <3>1
  <2>6. CASE i > n + 1 /\ j > n + 1
    <3>1. i - 1 \in 1 .. l /\ j - 1 \in 1 .. l /\ i - 1 <= j - 1
      BY <1>n, <1>2, <2>6
    <3>2. ~(i <= n) /\ i # n + 1 /\ ~(j <= n) /\ j # n + 1
      BY <1>n, <2>6
    <3> QED  BY <1>1, <2>0, <3>1, <3>2
  <2> QED  BY <1>2, <1>n, <2>1, <2>2, <2>3, <2>4, <2>5, <2>6
<1> QED  BY <1>1, <1>2 DEF Ordered

LEMMA ObserveKeeps ==
  ASSUME SummaryIInv, NEW p \in Observed, NEW n \in TrackPlaces(p),
         NEW flushed \in BOOLEAN, NEW done \in BOOLEAN, Observe(p, n, flushed, done)
  PROVE  SummaryIInv'
<1>0. trip \in Trip /\ track \in Seq(Observed) /\ Ordered(track) /\ trip.duration \in Nat
  BY DEF SummaryIInv, SummaryTypeOK
<1>1. /\ trip.start_time \in Nat /\ trip.end_time \in Nat /\ p.ts \in Nat
      /\ trip.packet_count \in Nat /\ trip.overspeed_count \in Nat
  BY <1>0, ObservedType DEF Trip
<1>n. n \in 0 .. Len(track)
  BY DEF TrackPlaces
<1>a. track' = InsertAt(track, n + 1, p)
  BY DEF Observe
<1>2. Ordered(track')
  <2>1. /\ \A m \in 1 .. n : track[m].ts <= p.ts
        /\ \A m \in n + 1 .. Len(track) : p.ts <= track[m].ts
    BY DEF TrackPlaces
  <2> QED  BY <1>0, <1>n, <1>a, <2>1, StaysOrdered
<1>3. track' \in Seq(Observed)
  BY <1>0, <1>1, <1>n, <1>a, InsideGrows
<1>f. PICK from \in Nat : from = trip.start_time
  BY <1>1
<1>t. PICK to \in Nat : to = trip.start_time + trip.duration
  BY <1>0, <1>1
<1>4. \A end \in Nat : to <= end =>
        /\ Cardinality(Fast(track, from, to)) <= Cardinality(Fast(track', from, end))
        /\ Cardinality(Slow(track, from, to)) <= Cardinality(Slow(track', from, end))
        /\ from <= p.ts /\ p.ts <= end =>
             IF p.speed > SpeedLimit
             THEN Cardinality(Fast(track, from, to)) + 1 <= Cardinality(Fast(track', from, end))
             ELSE Cardinality(Slow(track, from, to)) + 1 <= Cardinality(Slow(track', from, end))
  BY <1>0, <1>n, <1>a, InsideGrows
<1>5. /\ trip.overspeed_count <= Cardinality(Fast(track, from, to))
      /\ trip.packet_count - trip.overspeed_count <= Cardinality(Slow(track, from, to))
  BY <1>f, <1>t DEF SummaryIInv, CountsLocations
<1>c. /\ Cardinality(Fast(track, from, to)) \in Nat /\ Cardinality(Slow(track, from, to)) \in Nat
      /\ \A end \in Nat : /\ Cardinality(Fast(track', from, end)) \in Nat
                          /\ Cardinality(Slow(track', from, end)) \in Nat
  BY <1>0, <1>3, InsideSplits
<1>6. ASSUME CountsNone(trip', trip) \/ trip' = trip, trip'.is_active => trip.is_active
      PROVE  SummaryIInv'
  <2>1. /\ trip' \in Trip /\ trip'.start_time = from /\ trip'.duration = trip.duration
        /\ trip'.packet_count = trip.packet_count
        /\ trip'.overspeed_count = trip.overspeed_count
        /\ trip'.is_active => trip'.end_time = trip.end_time
    BY <1>0, <1>f, <1>6 DEF CountsNone
  <2>2. from + trip.duration = to
    BY <1>f, <1>t
  <2>3. /\ Cardinality(Fast(track, from, to)) <= Cardinality(Fast(track', from, to))
        /\ Cardinality(Slow(track, from, to)) <= Cardinality(Slow(track', from, to))
    BY <1>4
  <2>4. /\ trip.overspeed_count <= Cardinality(Fast(track', from, to))
        /\ trip.packet_count - trip.overspeed_count <= Cardinality(Slow(track', from, to))
    BY <1>1, <1>5, <1>c, <2>3
  <2>5. CountsLocations(trip', track')
    BY <2>1, <2>2, <2>4 DEF CountsLocations
  <2>6. trip'.is_active => trip'.end_time = trip'.start_time + trip'.duration
    BY <1>6, <1>f, <2>1 DEF SummaryIInv
  <2> QED  BY <1>0, <1>2, <1>3, <2>1, <2>5, <2>6 DEF SummaryIInv, SummaryTypeOK
<1>7. CASE ~trip.is_active
  <2>1. trip' = trip
    BY <1>7 DEF Observe
  <2> QED  BY <1>6, <1>7, <2>1
<1>8. CASE trip.is_active
  <2>m. PICK moving : moving = Moving(IF flushed THEN InsertAt(track, n + 1, p) ELSE track)
    OBVIOUS
  <2>e. PICK evaluated : evaluated = Evaluated(<<trip>>, {1}, p, moving)
    OBVIOUS
  <2>1. trip' = RouteClose(evaluated[1], p, done /\ Len(evaluated) = 1)
    BY <1>8, <2>m, <2>e DEF Observe
  <2>2. CountsNone(trip', trip) \/ (~Late(trip, p) /\ CountsOne(trip', trip, p))
    BY <1>0, <1>8, <2>e, <2>1, ObserveOutcome
  <2>3. CASE CountsNone(trip', trip)
    BY <1>6, <1>8, <2>3
  <2>4. CASE ~Late(trip, p) /\ CountsOne(trip', trip, p)
    <3>1. /\ trip' \in Trip /\ trip'.start_time = from /\ trip'.duration = p.ts - from
          /\ trip'.end_time = p.ts /\ trip'.packet_count = trip.packet_count + 1
          /\ trip'.overspeed_count = trip.overspeed_count + Overspeed(p)
      BY <1>f, <2>4 DEF CountsOne
    <3>2. to < p.ts /\ from <= to
      <4>1. trip.end_time = to
        BY <1>8, <1>t DEF SummaryIInv
      <4> QED  BY <1>0, <1>1, <1>f, <1>t, <2>4, <4>1 DEF Late
    <3>3. from + (p.ts - from) = p.ts /\ p.ts - from \in Nat
      BY <1>1, <3>2
    <3>4. IF p.speed > SpeedLimit
          THEN Cardinality(Fast(track, from, to)) + 1 <= Cardinality(Fast(track', from, p.ts))
          ELSE Cardinality(Slow(track, from, to)) + 1 <= Cardinality(Slow(track', from, p.ts))
      BY <1>1, <1>4, <3>2
    <3>5. /\ Cardinality(Fast(track, from, to)) <= Cardinality(Fast(track', from, p.ts))
          /\ Cardinality(Slow(track, from, to)) <= Cardinality(Slow(track', from, p.ts))
      BY <1>1, <1>4, <3>2
    <3>o. PICK o : o = Overspeed(p)
      OBVIOUS
    <3>6. o = IF p.speed > SpeedLimit THEN 1 ELSE 0
      BY <3>o DEF Overspeed
    <3>c. /\ Cardinality(Fast(track', from, p.ts)) \in Nat
          /\ Cardinality(Slow(track', from, p.ts)) \in Nat
      BY <1>1, <1>c
    <3>7. /\ trip.overspeed_count + o <= Cardinality(Fast(track', from, p.ts))
          /\ trip.packet_count + 1 - (trip.overspeed_count + o)
               <= Cardinality(Slow(track', from, p.ts))
      <4>1. CASE p.speed > SpeedLimit
        BY <1>1, <1>5, <1>c, <3>4, <3>5, <3>6, <3>c, <4>1
      <4>2. CASE ~(p.speed > SpeedLimit)
        BY <1>1, <1>5, <1>c, <3>4, <3>5, <3>6, <3>c, <4>2
      <4> QED  BY <4>1, <4>2
    <3>8. CountsLocations(trip', track')
      <4>1. trip'.start_time + trip'.duration = p.ts
        BY <3>1, <3>3
      <4>2. trip'.overspeed_count = trip.overspeed_count + o
        BY <3>1, <3>o
      <4>3. /\ trip'.overspeed_count <= Cardinality(Fast(track', trip'.start_time, p.ts))
            /\ trip'.packet_count - trip'.overspeed_count
                 <= Cardinality(Slow(track', trip'.start_time, p.ts))
        <5>1. trip'.start_time = from /\ trip'.packet_count = trip.packet_count + 1
          BY <3>1
        <5> QED  BY <1>1, <3>6, <3>7, <3>c, <4>2, <5>1
      <4> QED  BY <4>1, <4>3 DEF CountsLocations
    <3>9. trip'.duration \in Nat /\ trip'.end_time = trip'.start_time + trip'.duration
      BY <3>1, <3>3
    <3> QED  BY <1>2, <1>3, <3>1, <3>8, <3>9 DEF SummaryIInv, SummaryTypeOK
  <2> QED  BY <2>2, <2>3, <2>4
<1> QED  BY <1>7, <1>8

LEMMA OverspeedsCounted ==
  ASSUME NEW locs \in Seq(Observed), NEW w, NEW a \in Nat, NEW from, NEW to,
         Frames(w, locs, a, from, to)
  PROVE  Cardinality(OverspeedsOf(w)) = Cardinality(Fast(locs, from, to))
<1>l. PICK l \in Nat : l = Len(w) /\ DOMAIN w = 1 .. l
  BY DEF Frames
<1>s. PICK S : S = OverspeedsOf(w)
  OBVIOUS
<1>t. PICK T : T = Fast(locs, from, to)
  OBVIOUS
<1>1. /\ Inside(locs, from, to) = a + 1 .. a + l
      /\ \A n \in 1 .. l : w[n] = locs[a + n]
  BY <1>l DEF Frames
<1>2. S = {n \in 1 .. l : w[n].speed > SpeedLimit}
  BY <1>l, <1>s DEF OverspeedsOf
<1>3. T = {n \in a + 1 .. a + l : locs[n].speed > SpeedLimit}
  BY <1>1, <1>t DEF Fast
<1>f. PICK f : f = [n \in S |-> a + n]
  OBVIOUS
<1>4. ASSUME NEW n \in S PROVE n \in Int /\ f[n] = a + n /\ f[n] \in T
  <2>1. n \in 1 .. l /\ locs[a + n].speed > SpeedLimit
    BY <1>1, <1>2
  <2> QED  BY <1>3, <1>f, <2>1
<1>5. ASSUME NEW m \in T PROVE \E n \in S : f[n] = m
  <2>n. PICK n : n = m - a
    OBVIOUS
  <2>1. n \in 1 .. l /\ a + n = m /\ locs[m].speed > SpeedLimit
    BY <1>3, <2>n
  <2>2. n \in S
    BY <1>1, <1>2, <2>1
  <2> QED  BY <1>f, <2>1, <2>2
<1>6. \A m, n \in S : f[m] = f[n] => m = n
  BY <1>4
<1>7. f \in [S -> T]
  BY <1>4, <1>f
<1>8. f \in Injection(S, T) /\ f \in Surjection(S, T)
  BY <1>5, <1>6, <1>7 DEF Injection, IsInjective, Surjection
<1>9. ExistsBijection(S, T)
  BY <1>8 DEF ExistsBijection, Bijection
<1>10. IsFiniteSet(S)
  <2>1. IsFiniteSet(1 .. l) /\ S \in SUBSET (1 .. l)
    BY <1>2, FS_Interval
  <2> QED  BY <2>1, FS_Subset
<1>11. Cardinality(T) = Cardinality(S)
  BY <1>9, <1>10, FS_Bijection
<1> QED  BY <1>11, <1>s, <1>t

LEMMA ScoreInRange ==
  ASSUME NEW overspeeds \in Nat, NEW idles \in Nat
  PROVE  Score(overspeeds, idles) \in ScoreMin .. ScoreStart
<1>0. ScoreMin \in Nat /\ ScoreStart \in Nat /\ ScoreMin <= ScoreStart
      /\ OverspeedPenalty \in Nat /\ IdlePenalty \in Nat
  BY SummaryConstants, ScoreScale
<1>s. PICK score : score = ScoreStart - overspeeds * OverspeedPenalty - idles * IdlePenalty
  OBVIOUS
<1>1. score \in Int
  <2>1. overspeeds * OverspeedPenalty \in Int /\ idles * IdlePenalty \in Int
    BY <1>0
  <2> QED  BY <1>0, <1>s, <2>1
<1>m. PICK low : low = Min({ScoreStart, score})
  OBVIOUS
<1>2. low \in {ScoreStart, score} /\ low <= ScoreStart
  <2>1. \E x \in {ScoreStart, score} : \A y \in {ScoreStart, score} : x =< y
    BY <1>0, <1>1
  <2>2. low \in {ScoreStart, score} /\ \A y \in {ScoreStart, score} : low =< y
    BY <1>m, <2>1, Zenon DEF Min
  <2> QED  BY <2>2
<1>h. PICK high : high = Max({ScoreMin, low})
  OBVIOUS
<1>3. high \in {ScoreMin, low} /\ high >= ScoreMin
  <2>1. \E x \in {ScoreMin, low} : \A y \in {ScoreMin, low} : x >= y
    BY <1>0, <1>1, <1>2
  <2>2. high \in {ScoreMin, low} /\ \A y \in {ScoreMin, low} : high >= y
    BY <1>h, <2>1, Zenon DEF Max
  <2> QED  BY <2>2
<1>4. Score(overspeeds, idles) = high
  BY <1>s, <1>m, <1>h, Zenon DEF Score
<1>5. high \in ScoreMin .. ScoreStart
  BY <1>0, <1>1, <1>2, <1>3
<1> QED  BY <1>4, <1>5

LEMMA FaultsAreFinite ==
  ASSUME NEW w \in Seq(Observed)
  PROVE  /\ Cardinality(OverspeedGroups(w)) \in Nat
         /\ Cardinality(LongIdles(w)) \in Nat
<1>l. PICK l \in Nat : l = Len(w) /\ DOMAIN w = 1 .. l
  OBVIOUS
<1>1. IsFiniteSet(DOMAIN w)
  BY <1>l, FS_Interval
<1>2. OverspeedGroups(w) \in SUBSET DOMAIN w
  BY DEF OverspeedGroups, OverspeedsOf
<1>3. LongIdles(w) \in SUBSET ((DOMAIN w) \X (DOMAIN w))
  <2>1. \A x \in LongIdles(w) : x \in IdlePeriods(w)
    BY Zenon DEF LongIdles
  <2>i. PICK idle : idle = {n \in DOMAIN w : w[n].speed <= IdleSpeed}
    OBVIOUS
  <2>2. \A x \in IdlePeriods(w) : x \in idle \X (DOMAIN w)
    BY <2>i, Zenon DEF IdlePeriods
  <2>3. idle \subseteq DOMAIN w
    BY <2>i
  <2>4. \A x \in idle \X (DOMAIN w) : x \in (DOMAIN w) \X (DOMAIN w)
    BY ONLY <2>3
  <2> QED  BY <2>1, <2>2, <2>4
<1>4. IsFiniteSet((DOMAIN w) \X (DOMAIN w))
  BY <1>1, FS_Product
<1>5. IsFiniteSet(OverspeedGroups(w)) /\ IsFiniteSet(LongIdles(w))
  BY <1>1, <1>2, <1>3, <1>4, FS_Subset
<1> QED  BY <1>5, FS_CardinalityType

LEMMA InvariantCounts == SummaryIInv => CountersAgree
<1> SUFFICES ASSUME SummaryIInv, trip.duration = trip.end_time - trip.start_time,
                    NEW s, s = Summary(track, trip)
             PROVE  /\ s.packet_count >= trip.packet_count
                    /\ s.overspeed_count >= trip.overspeed_count
                    /\ s.packet_count = trip.packet_count
                         => s.overspeed_count = trip.overspeed_count
                    /\ s.duration = trip.duration
                    /\ s.driving_score \in ScoreMin .. ScoreStart
  BY Zenon DEF CountersAgree
<1>0. trip \in Trip /\ track \in Seq(Observed) /\ Ordered(track) /\ trip.duration \in Nat
  BY DEF SummaryIInv, SummaryTypeOK
<1>1. /\ trip.start_time \in Nat /\ trip.end_time \in Nat
      /\ trip.packet_count \in Nat /\ trip.overspeed_count \in Nat
  BY <1>0 DEF Trip
<1>w. PICK w : w = Window(track, trip)
  OBVIOUS
<1>2. PICK a \in 0 .. Len(track) : Frames(w, track, a, trip.start_time, trip.end_time)
  BY <1>0, <1>1, <1>w, WindowFrames
<1>f. PICK fast : fast = Cardinality(Fast(track, trip.start_time, trip.end_time))
  OBVIOUS
<1>s. PICK slow : slow = Cardinality(Slow(track, trip.start_time, trip.end_time))
  OBVIOUS
<1>3. fast \in Nat /\ slow \in Nat /\ Len(w) = fast + slow
  BY <1>0, <1>2, <1>f, <1>s, InsideSplits DEF Frames
<1>4. trip.overspeed_count <= fast /\ trip.packet_count - trip.overspeed_count <= slow
  <2>1. trip.start_time + trip.duration = trip.end_time
    BY <1>0, <1>1
  <2> QED  BY <1>f, <1>s, <2>1 DEF SummaryIInv, CountsLocations
<1>5. CASE Len(w) < 2
  <2>1. s = [duration |-> trip.duration, moving_time |-> trip.duration,
             packet_count |-> Len(w), stops |-> <<>>, longest_stop |-> 0,
             overspeed_count |-> trip.overspeed_count, driving_score |-> 100]
    BY <1>5, <1>w, Zenon DEF Summary
  <2>2. /\ s.packet_count = fast + slow /\ s.overspeed_count = trip.overspeed_count
        /\ s.duration = trip.duration /\ s.driving_score = 100
    BY <1>3, <2>1
  <2>3. 100 \in ScoreMin .. ScoreStart
    BY SummaryConstants, ScoreScale
  <2> QED  BY <1>1, <1>3, <1>4, <2>2, <2>3
<1>6. CASE ~(Len(w) < 2)
  <2>a. PICK groups : groups = Cardinality(OverspeedGroups(w))
    OBVIOUS
  <2>b. PICK idles : idles = Cardinality(LongIdles(w))
    OBVIOUS
  <2>c. PICK over : over = Cardinality(OverspeedsOf(w))
    OBVIOUS
  <2>1. /\ s.packet_count = Len(w) /\ s.overspeed_count = over
        /\ s.duration = trip.end_time - trip.start_time
        /\ s.driving_score = Score(groups, idles)
    <3>1. \E moving, stops, longest :
            s = [duration |-> trip.end_time - trip.start_time, moving_time |-> moving,
                 packet_count |-> Len(w), stops |-> stops, longest_stop |-> longest,
                 overspeed_count |-> over, driving_score |-> Score(groups, idles)]
      BY <1>6, <1>w, <2>a, <2>b, <2>c, Zenon DEF Summary
    <3> QED  BY <3>1
  <2>2. over = fast
    BY <1>0, <1>2, <1>f, <2>c, OverspeedsCounted
  <2>3. Score(groups, idles) \in ScoreMin .. ScoreStart
    <3>1. w \in Seq(Observed)
      BY <1>2 DEF Frames
    <3>2. groups \in Nat /\ idles \in Nat
      BY <2>a, <2>b, <3>1, FaultsAreFinite
    <3> QED  BY <3>2, ScoreInRange
  <2> QED  BY <1>1, <1>3, <1>4, <2>1, <2>2, <2>3
<1> QED  BY <1>5, <1>6

\* q and r such that a = b * q + r, and what is known of them.
LEMMA Quotient ==
  ASSUME NEW a \in Nat, NEW b \in Nat \ {0}
  PROVE  /\ a \div b \in Nat /\ b * (a \div b) \in Nat
         /\ b * (a \div b) <= a /\ a < b * (a \div b) + b
<1>1. a \div b \in Nat /\ a % b \in 0 .. b - 1
  OBVIOUS
<1>2. a = b * (a \div b) + (a % b)
  OBVIOUS
<1>q. PICK q \in Nat : q = a \div b
  BY <1>1
<1>p. PICK p : p = b * q
  OBVIOUS
<1>3. p \in Nat
  BY <1>p
<1>4. p <= a /\ a < p + b
  BY <1>1, <1>2, <1>3, <1>p, <1>q
<1> QED  BY <1>3, <1>4, <1>p, <1>q

LEMMA ProductGrows ==
  ASSUME NEW a \in Nat, NEW b \in Nat, NEW c \in Nat, a <= b
  PROVE  c * a \in Nat /\ c * b \in Nat /\ c * a <= c * b
OBVIOUS

\* Positions that go up from the first point to the last.
Spans(kept, total) ==
  /\ kept \in Seq(1 .. total) /\ Len(kept) >= 1
  /\ kept[1] = 1 /\ kept[Len(kept)] = total
  /\ \A n \in 2 .. Len(kept) : kept[n - 1] <= kept[n]
  /\ Len(kept) >= total => Len(kept) = total /\ \A n \in 1 .. total : kept[n] = n

Strides(taken, d, step) == taken = [n \in 1 .. d + 1 |-> 1 + (n - 1) * step]

Ends(kept, taken, total) ==
  kept = IF Last(taken) = total THEN taken ELSE Append(taken, total)

Fits(d, step, total) == d \in Nat /\ step * d \in Nat /\ step * d <= total - 1

LEMMA StridesSpan ==
  ASSUME NEW total \in Nat \ {0}, NEW step \in Nat \ {0}, NEW d, Fits(d, step, total),
         NEW taken, Strides(taken, d, step), NEW kept, Ends(kept, taken, total)
  PROVE  Spans(kept, total) /\ Len(kept) <= d + 2
<1>1. d \in Nat /\ step * d \in Nat /\ step * d <= total - 1
  BY DEF Fits
<1>c. PICK c \in Nat \ {0} : c = d + 1
  BY <1>1
<1>v. taken = [n \in 1 .. c |-> 1 + (n - 1) * step]
  BY <1>c DEF Strides
<1>2. ASSUME NEW n \in 1 .. c
      PROVE  /\ taken[n] = 1 + (n - 1) * step /\ taken[n] \in 1 .. total
             /\ n = c => taken[n] = 1 + step * d
             /\ n > 1 => taken[n - 1] <= taken[n]
             /\ d * step <= d => taken[n] = n
  <2>1. taken[n] = 1 + (n - 1) * step
    BY <1>v
  <2>m. PICK m \in Nat : m = n - 1
    OBVIOUS
  <2>2. m <= d /\ (n = c => m = d)
    BY <1>1, <1>c, <2>m
  <2>3. step * m \in Nat /\ step * m <= step * d /\ m * step = step * m
    BY <1>1, <2>2, ProductGrows
  <2>4. taken[n] \in 1 .. total
    BY <1>1, <2>1, <2>3, <2>m
  <2>5. n = c => taken[n] = 1 + step * d
    BY <2>1, <2>2, <2>3, <2>m
  <2>6. ASSUME n > 1 PROVE taken[n - 1] <= taken[n]
    <3>p. PICK p \in Nat : p = m - 1
      BY <2>6, <2>m
    <3>1. n - 1 \in 1 .. c /\ (n - 1) - 1 = p /\ p <= m
      BY <1>c, <2>6, <2>m, <3>p
    <3>2. taken[n - 1] = 1 + p * step
      BY <1>v, <3>1
    <3>3. step * p \in Nat /\ step * p <= step * m /\ p * step = step * p
      BY <3>1, ProductGrows
    <3> QED  BY <2>1, <2>3, <2>m, <3>2, <3>3
  <2>7. ASSUME d * step <= d PROVE taken[n] = n
    <3>1. CASE step = 1
      BY <2>1, <2>m, <3>1
    <3>2. CASE step # 1
      <4>1. 2 <= step /\ 2 \in Nat
        BY <3>2
      <4>2. d * 2 <= d * step /\ d * 2 \in Nat
        BY <1>1, <4>1, ProductGrows
      <4>3. d * step \in Nat
        BY <1>1
      <4>4. d = 0
        BY <1>1, <2>7, <4>2, <4>3
      <4>5. n = 1 /\ m = 0
        BY <1>c, <2>2, <2>m, <4>4
      <4> QED  BY <2>1, <4>5
    <3> QED  BY <3>1, <3>2
  <2> QED  BY <2>1, <2>4, <2>5, <2>6, <2>7
<1>3. taken \in Seq(1 .. total) /\ Len(taken) = c
  <2>1. taken = [n \in 1 .. c |-> taken[n]]
    BY <1>v
  <2>2. taken \in [1 .. c -> 1 .. total]
    BY <1>2, <2>1
  <2> QED  BY <2>2
<1>x. PICK x \in 1 .. c : x = 1
  OBVIOUS
<1>4. taken[1] = 1 /\ Last(taken) = 1 + step * d /\ step * d = d * step
  <2>1. taken[1] = 1
    BY <1>x, <1>2
  <2>2. c \in 1 .. c
    OBVIOUS
  <2>3. taken[c] = 1 + step * d
    BY <1>2, <2>2
  <2>4. step * d = d * step
    BY <1>1
  <2> QED  BY <1>3, <2>1, <2>3, <2>4 DEF Last
<1>5. CASE Last(taken) = total
  <2>1. kept = taken
    BY <1>5 DEF Ends
  <2>2. step * d = total - 1
    BY <1>1, <1>4, <1>5
  <2>3. ASSUME c >= total PROVE c = total /\ \A n \in 1 .. total : taken[n] = n
    <3>1. d * step <= d
      BY <1>1, <1>4, <1>c, <2>2, <2>3
    <3>2. taken[c] = c
      BY <1>2, <3>1
    <3>3. taken[c] = total
      BY <1>3, <1>5 DEF Last
    <3> QED  BY <1>2, <3>1, <3>2, <3>3
  <2>4. \A n \in 2 .. c : taken[n - 1] <= taken[n]
    <3>1. \A n \in 2 .. c : n \in 1 .. c /\ n > 1
      OBVIOUS
    <3> QED  BY <1>2, <3>1
  <2>5. taken[c] = total
    BY <1>3, <1>5 DEF Last
  <2>6. Spans(taken, total)
    BY <1>3, <1>4, <2>3, <2>4, <2>5 DEF Spans
  <2> QED  BY <1>1, <1>3, <1>c, <2>1, <2>6
<1>6. CASE Last(taken) # total
  <2>k. kept = Append(taken, total) /\ total \in 1 .. total
    BY <1>6 DEF Ends
  <2>1. /\ kept \in Seq(1 .. total) /\ Len(kept) = c + 1
        /\ \A n \in 1 .. c : kept[n] = taken[n]
        /\ kept[c + 1] = total
    BY <1>3, <2>k, SMTT(30)
  <2>2. step * d < total - 1
    BY <1>1, <1>4, <1>6
  <2>3. ASSUME c + 1 >= total PROVE c + 1 = total /\ \A n \in 1 .. total : kept[n] = n
    <3>1. d * step <= d
      BY <1>1, <1>4, <1>c, <2>2, <2>3
    <3>2. c \in 1 .. c
      OBVIOUS
    <3>3. taken[c] = c /\ taken[c] = 1 + step * d
      BY <1>2, <3>1, <3>2
    <3>4. c + 1 = total
      BY <1>1, <1>c, <2>2, <2>3, <3>3
    <3>5. ASSUME NEW n \in 1 .. total PROVE kept[n] = n
      <4>1. n \in 1 .. c \/ n = c + 1
        BY <3>4
      <4> QED  BY <1>2, <2>1, <3>1, <3>4, <4>1
    <3> QED  BY <3>4, <3>5
  <2>4. ASSUME NEW n \in 2 .. c + 1 PROVE kept[n - 1] <= kept[n]
    <3>1. CASE n <= c
      <4>1. n \in 1 .. c /\ n - 1 \in 1 .. c /\ n > 1
        BY <3>1
      <4> QED  BY <1>2, <2>1, <4>1
    <3>2. CASE n = c + 1
      <4>1. n - 1 = c /\ c \in 1 .. c
        BY <3>2
      <4>2. taken[c] \in 1 .. total
        BY <1>2, <4>1
      <4> QED  BY <2>1, <3>2, <4>1, <4>2
    <3> QED  BY <3>1, <3>2
  <2>5. kept[1] = 1 /\ kept[c + 1] = total
    BY <1>4, <2>1
  <2>6. Spans(kept, total)
    BY <2>1, <2>3, <2>4, <2>5 DEF Spans
  <2> QED  BY <1>1, <1>c, <2>1, <2>6
<1> QED  BY <1>5, <1>6

\* A stride of at least a target-th of the points takes less than twice the
\* target.
LEMMA StridesBounded ==
  ASSUME NEW total \in Nat, NEW target \in Nat \ {0}, total > target,
         NEW step \in Nat \ {0}, total \div target <= step
  PROVE  /\ total \div target \in Nat \ {0}
         /\ (total - 1) \div step \in Nat
         /\ (total - 1) \div step <= 2 * target - 2
<1>q. PICK q : q = total \div target
  OBVIOUS
<1>d. PICK d : d = (total - 1) \div step
  OBVIOUS
<1>1. q \in Nat /\ target * q \in Nat /\ total < target * q + target
  BY <1>q, Quotient
<1>2. q # 0
  BY <1>1
<1>3. d \in Nat /\ step * d \in Nat /\ step * d <= total - 1
  <2>1. total - 1 \in Nat
    OBVIOUS
  <2> QED  BY <1>d, <2>1, Quotient
<1>4. q * d <= step * d /\ q * d \in Nat
  <2>1. d * q <= d * step /\ d * q \in Nat
    BY <1>1, <1>3, <1>q, ProductGrows
  <2>2. d * q = q * d /\ d * step = step * d
    BY <1>1, <1>3
  <2> QED  BY <2>1, <2>2
<1>5. ASSUME d > 2 * target - 2 PROVE FALSE
  <2>m. PICK m \in Nat : m = target - 1
    OBVIOUS
  <2>1. target + m <= d /\ target + m \in Nat
    BY <1>3, <1>5, <2>m
  <2>2. q * (target + m) <= q * d
    BY <1>1, <1>3, <2>1, ProductGrows
  <2>3. q * (target + m) = q * target + q * m /\ q * target = target * q
    BY <1>1, <2>m
  <2>4. m * 1 <= m * q /\ m * 1 = m /\ m * q = q * m /\ q * m \in Nat
    <3>1. 1 <= q /\ 1 \in Nat
      BY <1>1, <1>2
    <3> QED  BY <1>1, <3>1, ProductGrows
  <2>5. target * q + m <= q * d
    BY <1>1, <1>4, <2>2, <2>3, <2>4
  <2> QED  BY <1>1, <1>3, <1>4, <2>5, <2>m
<1> QED  BY <1>1, <1>2, <1>3, <1>5, <1>q, <1>d

LEMMA SampledSpans ==
  ASSUME NEW total \in Nat \ {0}, NEW k \in Multipliers,
         NEW kept, kept = Sampled(total, MaxPoints, k)
  PROVE  Spans(kept, total) /\ Len(kept) <= 2 * MaxPoints
<1>t. PICK target \in Nat \ {0} : target = MaxPoints
  BY SummaryConstants
<1>k. k \in Nat \ {0}
  BY SummaryConstants
<1>1. CASE total <= target
  <2>1. kept = [n \in 1 .. total |-> n]
    BY <1>1, <1>t DEF Sampled
  <2>2. kept \in Seq(1 .. total) /\ Len(kept) = total
    BY <2>1
  <2>3. \A n \in 1 .. total : kept[n] = n
    BY <2>1
  <2>4. ASSUME NEW n \in 2 .. total PROVE kept[n - 1] <= kept[n]
    <3>1. n \in 1 .. total /\ n - 1 \in 1 .. total
      OBVIOUS
    <3> QED  BY <2>3, <3>1
  <2>5. kept[1] = 1 /\ kept[total] = total
    BY <2>3
  <2> QED  BY <1>1, <1>t, <2>2, <2>3, <2>4, <2>5 DEF Spans
<1>2. CASE ~(total <= target)
  <2>q. PICK q : q = total \div target
    OBVIOUS
  <2>s. PICK step : step = Max({1, q * k})
    OBVIOUS
  <2>1. q \in Nat \ {0}
    <3>1. q \in Nat /\ target * q \in Nat /\ total < target * q + target
      BY <2>q, Quotient
    <3> QED  BY <1>2, <3>1
  <2>2. q * k \in Nat /\ q <= q * k
    <3>1. q * 1 <= q * k /\ q * k \in Nat
      BY <1>k, <2>1, ProductGrows
    <3> QED  BY <2>1, <3>1
  <2>3. step \in Nat \ {0} /\ q <= step
    <3>1. \E x \in {1, q * k} : \A y \in {1, q * k} : x >= y
      BY <2>1, <2>2
    <3>2. step \in {1, q * k} /\ \A y \in {1, q * k} : step >= y
      BY <2>s, <3>1, Zenon DEF Max
    <3> QED  BY <2>1, <2>2, <3>2
  <2>d. PICK d : d = (total - 1) \div step
    OBVIOUS
  <2>t. PICK taken : taken = [n \in 1 .. d + 1 |-> 1 + (n - 1) * step]
    OBVIOUS
  <2>4. kept = IF Last(taken) = total THEN taken ELSE Append(taken, total)
    BY <1>2, <1>t, <2>q, <2>s, <2>d, <2>t, Zenon DEF Sampled
  <2>f. Fits(d, step, total)
    <3>1. total - 1 \in Nat
      OBVIOUS
    <3> QED  BY <2>3, <2>d, <3>1, Quotient DEF Fits
  <2>5. Spans(kept, total) /\ Len(kept) <= d + 2
    <3>1. Strides(taken, d, step) /\ Ends(kept, taken, total)
      BY <2>t, <2>4 DEF Strides, Ends
    <3> QED  BY <2>3, <2>f, <3>1, StridesSpan
  <2>6. d \in Nat /\ d <= 2 * target - 2
    <3>1. total > target
      BY <1>2
    <3>2. total \div target <= step
      BY <2>q, <2>3
    <3>3. /\ (total - 1) \div step \in Nat
          /\ (total - 1) \div step <= 2 * target - 2
      BY <2>3, <3>1, <3>2, StridesBounded
    <3> QED  BY <2>d, <3>3
  <2>7. Len(kept) \in Nat
    BY <2>5 DEF Spans
  <2> QED  BY <1>t, <2>5, <2>6, <2>7
<1> QED  BY <1>1, <1>2

LEMMA InvariantReplays == SummaryIInv => ReplayKeepsTheEnds
<1> SUFFICES ASSUME SummaryIInv, NEW w, w = Window(track, trip), NEW k \in Multipliers,
                    NEW r, r = Replay(track, trip, k)
             PROVE  /\ w # <<>> => /\ r.points[1] = w[1]
                                   /\ Last(r.points) = Last(w)
                    /\ \A n \in 2 .. Len(r.points) : r.points[n - 1].ts <= r.points[n].ts
                    /\ Len(r.points) <= 2 * MaxPoints
                    /\ ~r.downsampled => r.points = w
  BY Zenon DEF ReplayKeepsTheEnds
<1>0. trip \in Trip /\ track \in Seq(Observed) /\ Ordered(track)
  BY DEF SummaryIInv, SummaryTypeOK
<1>1. trip.start_time \in Nat /\ trip.end_time \in Nat
  BY <1>0 DEF Trip
<1>2. PICK a \in 0 .. Len(track) : Frames(w, track, a, trip.start_time, trip.end_time)
  BY <1>0, <1>1, WindowFrames
<1>l. PICK l \in Nat : l = Len(w) /\ DOMAIN w = 1 .. l
  BY <1>2 DEF Frames
<1>3. w \in Seq(Observed) /\ Ordered(w)
  BY <1>2 DEF Frames
<1>k. PICK kept : kept = Sampled(l, MaxPoints, k)
  OBVIOUS
<1>p. PICK points : points = [n \in DOMAIN kept |-> w[kept[n]]]
  OBVIOUS
<1>b. PICK fewer : fewer = (Len(kept) < l)
  OBVIOUS
<1>4. r = [points |-> points, total_points |-> l, downsampled |-> fewer]
  BY <1>l, <1>k, <1>p, <1>b, Zenon DEF Replay
<1>d. r.points = points /\ r.downsampled = fewer
  BY <1>4
<1>5. r.points = points /\ (~r.downsampled => ~(Len(kept) < l))
  BY <1>b, <1>d, Zenon
<1>m. MaxPoints \in Nat \ {0}
  BY SummaryConstants
<1>6. CASE l = 0
  <2>1. kept = [n \in 1 .. 0 |-> n]
    BY <1>6, <1>k, <1>m DEF Sampled
  <2>2. points = <<>> /\ w = <<>>
    BY <1>3, <1>6, <1>l, <1>p, <2>1
  <2> QED  BY <1>5, <1>m, <2>2
<1>7. CASE l # 0
  <2>1. Spans(kept, l) /\ Len(kept) <= 2 * MaxPoints
    BY <1>7, <1>k, SampledSpans
  <2>c. PICK c \in Nat : c = Len(kept) /\ DOMAIN kept = 1 .. c
    BY <2>1 DEF Spans
  <2>2. /\ c >= 1 /\ kept[1] = 1 /\ kept[c] = l
        /\ \A n \in 1 .. c : kept[n] \in 1 .. l
        /\ \A n \in 2 .. c : kept[n - 1] <= kept[n]
        /\ c >= l => c = l /\ \A n \in 1 .. l : kept[n] = n
    BY <2>1, <2>c DEF Spans
  <2>3. points = [n \in 1 .. c |-> w[kept[n]]]
    BY <1>p, <2>c
  <2>4. Len(points) = c /\ \A n \in 1 .. c : points[n] = w[kept[n]]
    BY <2>3
  <2>5. points[1] = w[1] /\ Last(points) = Last(w)
    BY <1>l, <2>2, <2>4 DEF Last
  <2>6. ASSUME NEW n \in 2 .. c PROVE points[n - 1].ts <= points[n].ts
    <3>1. n \in 1 .. c /\ n - 1 \in 1 .. c
      OBVIOUS
    <3>2. kept[n - 1] \in DOMAIN w /\ kept[n] \in DOMAIN w /\ kept[n - 1] <= kept[n]
      BY <1>l, <2>2, <3>1
    <3>3. w[kept[n - 1]].ts <= w[kept[n]].ts
      BY <1>3, <3>2 DEF Ordered
    <3> QED  BY <2>4, <3>1, <3>3
  <2>7. ASSUME ~r.downsampled PROVE points = w
    <3>1. c = l /\ \A n \in 1 .. l : kept[n] = n
      BY <1>5, <2>2, <2>c, <2>7
    <3>2. points = [n \in 1 .. l |-> w[n]]
      BY <2>3, <3>1
    <3>3. w = [n \in 1 .. l |-> w[n]]
      BY <1>3, <1>l
    <3> QED  BY <3>2, <3>3
  <2> QED  BY <1>5, <2>1, <2>c, <2>4, <2>5, <2>6, <2>7
<1> QED  BY <1>6, <1>7

-----------------------------------------------------------------------------
(***************************************************************************)
(* The scan for stops: the stops found rest on the first a locations of    *)
(* the window w, and the points collected are those after it, up to k.     *)
(***************************************************************************)
Period == [start_time: Nat, end_time: Nat]

StopsTo(stops, w, a) ==
  /\ stops \in Seq(Period)
  /\ \A n \in 1 .. Len(stops) :
       /\ stops[n].end_time - stops[n].start_time >= StopTime
       /\ \E i \in 1 .. a : stops[n].start_time = w[i].ts
       /\ \E i \in 1 .. a : stops[n].end_time = w[i].ts
  /\ \A n \in 2 .. Len(stops) : stops[n - 1].end_time <= stops[n].start_time

Stands(w, n, m) ==
  \A k \in n .. m : w[k].speed < StopSpeed /\ w[k].pos = w[n].pos

StoppedFor(stops, x, y) ==
  \E k \in 1 .. Len(stops) : stops[k].start_time <= x /\ y <= stops[k].end_time

\* No standstill among the first a locations is missed.
Covered(stops, w, a) ==
  \A n, m \in 1 .. a :
    n < m /\ Stands(w, n, m) /\ w[m].ts - w[n].ts >= StopTime
      => StoppedFor(stops, w[n].ts, w[m].ts)

Collects(points, w, a, k) ==
  /\ points = [i \in 1 .. k - a |-> w[a + i]]
  /\ \A i \in a + 1 .. k : /\ w[i].speed < StopSpeed
                           /\ Distance(w[a + 1].pos, w[i].pos) < StableDist

\* No standstill goes on from location a to the next.
Parted(w, a, k) ==
  a >= 1 => \/ ~(w[a].speed < StopSpeed)
            \/ a < k /\ w[a + 1].pos # w[a].pos

Scanned(stops, points, w, a, k) ==
  /\ StopsTo(stops, w, a) /\ Covered(stops, w, a)
  /\ Collects(points, w, a, k) /\ Parted(w, a, k)

LEMMA AddStopKeeps ==
  ASSUME NEW w \in Seq(Observed), Ordered(w), NEW k \in 0 .. Len(w), NEW a \in 0 .. k,
         NEW stops, NEW points, Scanned(stops, points, w, a, k),
         NEW new, new = AddStop(stops, points)
  PROVE  StopsTo(new, w, k) /\ Covered(new, w, k)
<1>l. PICK l \in Nat : l = Len(w) /\ DOMAIN w = 1 .. l
  OBVIOUS
<1>0. k \in Nat /\ k <= l /\ a \in Nat /\ a <= k
  BY <1>l
<1>t. \A i \in 1 .. l : w[i].ts \in Nat
  BY <1>l, ObservedType
<1>o. \A i, j \in 1 .. l : i <= j => w[i].ts <= w[j].ts
  BY <1>l DEF Ordered
<1>c. PICK c \in Nat : c = Len(stops) /\ DOMAIN stops = 1 .. c
  BY DEF Scanned, StopsTo
<1>1. /\ stops \in Seq(Period)
      /\ \A n \in 1 .. c :
           /\ stops[n].end_time - stops[n].start_time >= StopTime
           /\ \E i \in 1 .. a : stops[n].start_time = w[i].ts
           /\ \E i \in 1 .. a : stops[n].end_time = w[i].ts
      /\ \A n \in 2 .. c : stops[n - 1].end_time <= stops[n].start_time
  BY <1>c DEF Scanned, StopsTo
<1>2. points = [i \in 1 .. k - a |-> w[a + i]]
  BY DEF Scanned, Collects
<1>3. /\ Len(points) = k - a
      /\ k - a >= 1 => points[1] = w[a + 1] /\ Last(points) = w[k]
  <2>1. Len(points) = k - a
    BY <1>0, <1>2
  <2>2. ASSUME k - a >= 1 PROVE points[1] = w[a + 1] /\ points[k - a] = w[k]
    <3>1. 1 \in 1 .. k - a /\ k - a \in 1 .. k - a /\ a + (k - a) = k
      BY <1>0, <2>2
    <3> QED  BY <1>2, <3>1
  <2> QED  BY <2>1, <2>2 DEF Last
<1>m. \A n, m \in 1 .. a :
        n < m /\ Stands(w, n, m) /\ w[m].ts - w[n].ts >= StopTime
          => StoppedFor(stops, w[n].ts, w[m].ts)
  BY DEF Scanned, Covered
\* A standstill does not go on across a.
<1>4. ASSUME NEW n \in 1 .. k, NEW m \in 1 .. k, n <= a, a < m, Stands(w, n, m) PROVE FALSE
  <2>1. a \in n .. m /\ a + 1 \in n .. m /\ a >= 1 /\ a < k
    BY <1>0, <1>4
  <2>2. w[a].speed < StopSpeed /\ w[a].pos = w[n].pos /\ w[a + 1].pos = w[n].pos
    BY <1>4, <2>1 DEF Stands
  <2> QED  BY <2>1, <2>2 DEF Scanned, Parted
<1>5. CASE Len(points) >= 2 /\ Last(points).ts - points[1].ts >= StopTime
  <2>s. PICK stop : stop = [start_time |-> points[1].ts, end_time |-> Last(points).ts]
    OBVIOUS
  <2>1. new = Append(stops, stop)
    BY <1>5, <2>s DEF AddStop
  <2>2. k - a >= 2 /\ a + 1 \in 1 .. l /\ k \in 1 .. l
    BY <1>0, <1>3, <1>5
  <2>3. /\ stop \in Period /\ stop.start_time = w[a + 1].ts /\ stop.end_time = w[k].ts
        /\ stop.end_time - stop.start_time >= StopTime
    BY <1>t, <1>3, <1>5, <2>s, <2>2 DEF Period
  <2>4. /\ new \in Seq(Period) /\ Len(new) = c + 1
        /\ \A n \in 1 .. c : new[n] = stops[n]
        /\ new[c + 1] = stop
    BY <1>c, <1>1, <2>1, <2>3
  <2>5. ASSUME NEW n \in 1 .. c + 1
        PROVE  /\ new[n].end_time - new[n].start_time >= StopTime
               /\ \E i \in 1 .. k : new[n].start_time = w[i].ts
               /\ \E i \in 1 .. k : new[n].end_time = w[i].ts
    <3>1. CASE n = c + 1
      <4>1. a + 1 \in 1 .. k /\ k \in 1 .. k
        BY <1>0, <2>2
      <4> QED  BY <2>3, <2>4, <3>1, <4>1
    <3>2. CASE n # c + 1
      <4>1. n \in 1 .. c
        BY <3>2
      <4>2. \A i \in 1 .. a : i \in 1 .. k
        BY <1>0
      <4> QED  BY <1>1, <2>4, <4>1, <4>2
    <3> QED  BY <3>1, <3>2
  <2>6. ASSUME NEW n \in 2 .. c + 1 PROVE new[n - 1].end_time <= new[n].start_time
    <3>1. CASE n = c + 1
      <4>1. c \in 1 .. c /\ n - 1 = c
        BY <3>1
      <4>2. PICK i \in 1 .. a : stops[c].end_time = w[i].ts
        BY <1>1, <4>1
      <4>3. i \in 1 .. l /\ i <= a + 1
        BY <1>0
      <4>4. w[i].ts <= w[a + 1].ts
        BY <1>o, <2>2, <4>3
      <4> QED  BY <2>3, <2>4, <3>1, <4>1, <4>2, <4>4
    <3>2. CASE n # c + 1
      <4>1. n \in 2 .. c /\ n \in 1 .. c /\ n - 1 \in 1 .. c
        BY <3>2
      <4> QED  BY <1>1, <2>4, <4>1
    <3> QED  BY <3>1, <3>2
  <2>7. StopsTo(new, w, k)
    BY <2>4, <2>5, <2>6 DEF StopsTo
  <2>8. ASSUME NEW n \in 1 .. k, NEW m \in 1 .. k, n < m, Stands(w, n, m),
               w[m].ts - w[n].ts >= StopTime
        PROVE  StoppedFor(new, w[n].ts, w[m].ts)
    <3>1. CASE m <= a
      <4>1. n \in 1 .. a /\ m \in 1 .. a
        BY <1>0, <2>8, <3>1
      <4>2. PICK j \in 1 .. c : stops[j].start_time <= w[n].ts /\ w[m].ts <= stops[j].end_time
        BY <1>c, <1>m, <2>8, <4>1 DEF StoppedFor
      <4>3. j \in 1 .. c + 1 /\ new[j] = stops[j]
        BY <2>4
      <4> QED  BY <2>4, <4>2, <4>3 DEF StoppedFor
    <3>2. CASE a < m /\ n <= a
      BY <1>4, <2>8, <3>2
    <3>3. CASE a < n
      <4>1. n \in 1 .. l /\ m \in 1 .. l /\ a + 1 <= n /\ m <= k
        BY <1>0, <3>3
      <4>2. w[a + 1].ts <= w[n].ts /\ w[m].ts <= w[k].ts
        BY <1>o, <2>2, <4>1
      <4>3. c + 1 \in 1 .. c + 1
        OBVIOUS
      <4> QED  BY <2>3, <2>4, <4>2, <4>3 DEF StoppedFor
    <3> QED  BY <1>0, <3>1, <3>2, <3>3
  <2> QED  BY <2>7, <2>8 DEF Covered
<1>6. CASE ~(Len(points) >= 2 /\ Last(points).ts - points[1].ts >= StopTime)
  <2>1. new = stops
    BY <1>6, Zenon DEF AddStop
  <2>2. StopsTo(new, w, k)
    <3>1. \A i \in 1 .. a : i \in 1 .. k
      BY <1>0
    <3> QED  BY <1>c, <1>1, <2>1, <3>1 DEF StopsTo
  <2>3. ASSUME NEW n \in 1 .. k, NEW m \in 1 .. k, n < m, Stands(w, n, m),
               w[m].ts - w[n].ts >= StopTime
        PROVE  StoppedFor(new, w[n].ts, w[m].ts)
    <3>1. CASE m <= a
      <4>1. n \in 1 .. a /\ m \in 1 .. a
        BY <1>0, <2>3, <3>1
      <4> QED  BY <1>m, <2>1, <2>3, <4>1
    <3>2. CASE a < m /\ n <= a
      BY <1>4, <2>3, <3>2
    <3>3. CASE a < n
      <4>1. /\ n \in 1 .. l /\ m \in 1 .. l /\ k \in 1 .. l /\ a + 1 \in 1 .. l
            /\ a + 1 <= n /\ m <= k /\ k - a >= 2
        BY <1>0, <2>3, <3>3
      <4>2. w[a + 1].ts <= w[n].ts /\ w[m].ts <= w[k].ts
        BY <1>o, <4>1
      <4>3. StopTime \in Nat
        BY SummaryConstants
      <4>4. w[k].ts - w[a + 1].ts >= StopTime
        BY <1>t, <2>3, <4>1, <4>2, <4>3, SMTT(30)
      <4>5. Len(points) >= 2 /\ Last(points).ts - points[1].ts >= StopTime
        BY <1>0, <1>3, <4>1, <4>4
      <4> QED  BY <1>6, <4>5
    <3> QED  BY <1>0, <3>1, <3>2, <3>3
  <2> QED  BY <2>2, <2>3 DEF Covered
<1> QED  BY <1>5, <1>6

ScanOK(acc, w, k) ==
  /\ acc = [stops |-> acc.stops, points |-> acc.points]
  /\ \E a \in 0 .. k : Scanned(acc.stops, acc.points, w, a, k)

LEMMA NoDistance == \A x \in Int : Distance(x, x) = 0
BY DEF Distance

LEMMA ScanStopKeeps ==
  ASSUME NEW w \in Seq(Observed), Ordered(w), NEW k \in 1 .. Len(w),
         NEW acc, ScanOK(acc, w, k - 1),
         NEW new, new = ScanStop(acc, w[k])
  PROVE  ScanOK(new, w, k)
<1>l. PICK l \in Nat : l = Len(w) /\ DOMAIN w = 1 .. l
  OBVIOUS
<1>0. k \in Nat /\ k - 1 \in Nat /\ k \in 1 .. l /\ k - 1 \in 0 .. l
  BY <1>l
<1>s. PICK stops : stops = acc.stops
  OBVIOUS
<1>p. PICK points : points = acc.points
  OBVIOUS
<1>1. acc = [stops |-> stops, points |-> points]
  BY <1>s, <1>p DEF ScanOK
<1>2. PICK a \in 0 .. k - 1 : Scanned(stops, points, w, a, k - 1)
  BY <1>s, <1>p DEF ScanOK
<1>q. PICK q : q = w[k]
  OBVIOUS
<1>z. StableDist \in Nat \ {0} /\ 0 < StableDist
  <2>1. StableDist \in Nat \ {0}
    BY SummaryConstants
  <2> QED  BY <2>1
<1>t. \A i \in 1 .. l : w[i].pos \in Int
  BY <1>l, ObservedType
<1>3. /\ points = [i \in 1 .. k - 1 - a |-> w[a + i]]
      /\ \A i \in a + 1 .. k - 1 : /\ w[i].speed < StopSpeed
                                   /\ Distance(w[a + 1].pos, w[i].pos) < StableDist
      /\ Parted(w, a, k - 1) /\ StopsTo(stops, w, a) /\ Covered(stops, w, a)
  BY <1>2 DEF Scanned, Collects
<1>n. PICK b \in Nat : b = k - 1 - a
  BY <1>0
<1>4. points = [i \in 1 .. b |-> w[a + i]] /\ (b = 0 <=> points = <<>>)
      /\ (b >= 1 => points[1] = w[a + 1])
  <2>1. points = [i \in 1 .. b |-> w[a + i]]
    BY <1>3, <1>n
  <2>2. b = 0 => points = <<>>
    BY <2>1
  <2>3. b >= 1 => points # <<>> /\ points[1] = w[a + 1]
    <3>1. Len(points) = b
      BY <2>1
    <3>2. Len(<<>>) = 0
      OBVIOUS
    <3>3. b >= 1 => 1 \in 1 .. b
      OBVIOUS
    <3> QED  BY <2>1, <3>1, <3>2, <3>3
  <2> QED  BY <2>1, <2>2, <2>3
\* The stop goes on, or one may begin.
<1>5. CASE q.speed < StopSpeed /\ (points # <<>> => Distance(points[1].pos, q.pos) < StableDist)
  <2>m. PICK more : more = Append(points, q)
    OBVIOUS
  <2>1. new = [stops |-> stops, points |-> more]
    <3>1. new = [acc EXCEPT !.points = Append(@, q)]
      BY <1>1, <1>5, <1>q DEF ScanStop
    <3> QED  BY <1>1, <2>m, <3>1
  <2>2. more = [i \in 1 .. b + 1 |-> w[a + i]]
    <3>1. a + (b + 1) = k
      BY <1>0, <1>n
    <3>2. points \in Seq(Observed) /\ Len(points) = b
      <4>1. \A i \in 1 .. b : a + i \in 1 .. l
        BY <1>0, <1>n
      <4>2. \A i \in 1 .. b : w[a + i] \in Observed
        BY <1>l, <4>1, SMTT(30)
      <4>3. points \in [1 .. b -> Observed]
        BY <1>4, <4>2
      <4> QED  BY <4>3
    <3>3. q \in Observed
      BY <1>0, <1>l, <1>q
    <3>4. /\ more \in Seq(Observed) /\ Len(more) = b + 1
          /\ \A i \in 1 .. b : more[i] = points[i]
          /\ more[b + 1] = q
      BY <2>m, <3>2, <3>3
    <3>5. \A i \in 1 .. b + 1 : more[i] = w[a + i]
      <4>1. ASSUME NEW i \in 1 .. b + 1 PROVE more[i] = w[a + i]
        <5>1. CASE i = b + 1
          BY <1>q, <3>1, <3>4, <5>1
        <5>2. CASE i # b + 1
          <6>1. i \in 1 .. b
            BY <5>2
          <6> QED  BY <1>4, <3>4, <6>1
        <5> QED  BY <5>1, <5>2
      <4> QED  BY <4>1
    <3>6. more = [i \in 1 .. b + 1 |-> more[i]]
      BY <3>4
    <3> QED  BY <3>5, <3>6
  <2>3. ASSUME NEW i \in a + 1 .. k
        PROVE  w[i].speed < StopSpeed /\ Distance(w[a + 1].pos, w[i].pos) < StableDist
    <3>1. CASE i # k
      <4>1. i \in a + 1 .. k - 1
        BY <1>0, <3>1
      <4> QED  BY <1>3, <4>1
    <3>2. CASE i = k /\ b >= 1
      <4>1. points # <<>> /\ points[1] = w[a + 1]
        BY <1>4, <3>2
      <4>2. q.speed < StopSpeed /\ Distance(points[1].pos, q.pos) < StableDist
        BY <1>5, <4>1
      <4> QED  BY <1>q, <3>2, <4>1, <4>2
    <3>3. CASE i = k /\ b = 0
      <4>1. a + 1 = k
        <5>1. b = 0 /\ a \in Int /\ k \in Int
          BY <1>0, <3>3
        <5> QED  BY <1>n, <5>1
      <4>p. w[k].pos \in Int
        BY <1>0, <1>t
      <4>2. Distance(w[k].pos, w[k].pos) = 0 /\ 0 < StableDist
        BY <1>z, <4>p, NoDistance
      <4> QED  BY <1>5, <1>q, <3>3, <4>1, <4>2
    <3> QED  BY <3>1, <3>2, <3>3
  <2>4. Collects(more, w, a, k)
    <3>1. b + 1 = k - a
      BY <1>0, <1>n
    <3>2. more = [i \in 1 .. k - a |-> w[a + i]]
      BY <2>2, <3>1
    <3> QED  BY <2>3, <3>2 DEF Collects
  <2>5. Parted(w, a, k) /\ a \in 0 .. k
    BY <1>0, <1>3 DEF Parted
  <2>6. Scanned(stops, more, w, a, k)
    BY <1>3, <2>4, <2>5 DEF Scanned
  <2> QED  BY <2>1, <2>5, <2>6 DEF ScanOK
<1>6. CASE ~(q.speed < StopSpeed /\ (points # <<>> => Distance(points[1].pos, q.pos) < StableDist))
  <2>s. PICK found : found = AddStop(stops, points)
    OBVIOUS
  <2>1. StopsTo(found, w, k - 1) /\ Covered(found, w, k - 1)
    <3>1. k - 1 \in 0 .. Len(w)
      BY <1>0, <1>l
    <3> QED  BY <1>2, <2>s, <3>1, AddStopKeeps
  <2>2. CASE q.speed < StopSpeed
    <3>r. PICK rest : rest = <<q>>
      OBVIOUS
    <3>1. new = [stops |-> found, points |-> rest]
      BY <1>1, <1>6, <1>q, <2>2, <2>s, <3>r DEF ScanStop
    <3>2. Collects(rest, w, k - 1, k)
      <4>1. k - (k - 1) = 1 /\ k - 1 + 1 = k
        BY <1>0
      <4>2. rest = [i \in 1 .. 1 |-> w[k - 1 + i]]
        <5>1. \A i \in 1 .. 1 : i = 1
          OBVIOUS
        <5>2. [i \in 1 .. 1 |-> w[k - 1 + i]] = [i \in 1 .. 1 |-> q]
          BY <1>q, <4>1, <5>1
        <5>3. rest = [i \in 1 .. 1 |-> q]
          BY <3>r
        <5> QED  BY <5>2, <5>3
      <4>3. Distance(w[k].pos, w[k].pos) < StableDist
        <5>1. w[k].pos \in Int
          BY <1>0, <1>t
        <5>2. Distance(w[k].pos, w[k].pos) = 0
          BY <5>1, NoDistance
        <5> QED  BY <1>z, <5>2
      <4>4. \A i \in k .. k : i = k
        BY <1>0
      <4>5. \A i \in k - 1 + 1 .. k : w[i].speed < StopSpeed
                                      /\ Distance(w[k - 1 + 1].pos, w[i].pos) < StableDist
        BY <1>q, <2>2, <4>1, <4>3, <4>4
      <4> QED  BY <4>1, <4>2, <4>5 DEF Collects
    <3>3. Parted(w, k - 1, k)
      <4>1. b >= 1 /\ ~(Distance(w[a + 1].pos, w[k].pos) < StableDist)
        <5>1. points # <<>> /\ ~(Distance(points[1].pos, q.pos) < StableDist)
          BY <1>6, <2>2
        <5> QED  BY <1>4, <1>q, <5>1
      <4>2. k - 1 \in a + 1 .. k - 1
        BY <1>0, <1>n, <4>1
      <4>3. Distance(w[a + 1].pos, w[k - 1].pos) < StableDist
        BY <1>3, <4>2
      <4>4. w[k].pos # w[k - 1].pos
        BY <4>1, <4>3
      <4>5. k - 1 + 1 = k /\ k - 1 < k
        BY <1>0
      <4> QED  BY <4>4, <4>5 DEF Parted
    <3>4. k - 1 \in 0 .. k
      BY <1>0
    <3>5. Scanned(found, rest, w, k - 1, k)
      BY <2>1, <3>2, <3>3 DEF Scanned
    <3> QED  BY <3>1, <3>4, <3>5 DEF ScanOK
  <2>3. CASE ~(q.speed < StopSpeed)
    <3>r. PICK rest : rest = <<>>
      OBVIOUS
    <3>1. new = [stops |-> found, points |-> rest]
      BY <1>1, <1>6, <1>q, <2>3, <2>s, <3>r DEF ScanStop
    <3>2. Collects(rest, w, k, k)
      <4>1. k - k = 0 /\ k + 1 .. k = {}
        BY <1>0
      <4>2. rest = [i \in 1 .. 0 |-> w[k + i]]
        BY <3>r
      <4> QED  BY <4>1, <4>2 DEF Collects
    <3>3. Parted(w, k, k)
      BY <1>q, <2>3 DEF Parted
    <3>4. StopsTo(found, w, k)
      <4>1. \A i \in 1 .. k - 1 : i \in 1 .. k
        BY <1>0
      <4> QED  BY <2>1, <4>1 DEF StopsTo
    <3>5. ASSUME NEW n \in 1 .. k, NEW m \in 1 .. k, n < m, Stands(w, n, m),
                 w[m].ts - w[n].ts >= StopTime
          PROVE  StoppedFor(found, w[n].ts, w[m].ts)
      <4>1. m # k
        <5>1. m \in n .. m
          BY <3>5
        <5>2. w[m].speed < StopSpeed
          BY <3>5, <5>1 DEF Stands
        <5> QED  BY <1>q, <2>3, <5>2
      <4>2. n \in 1 .. k - 1 /\ m \in 1 .. k - 1
        BY <1>0, <3>5, <4>1
      <4> QED  BY <2>1, <3>5, <4>2 DEF Covered
    <3>6. Scanned(found, rest, w, k, k)
      BY <3>2, <3>3, <3>4, <3>5 DEF Scanned, Covered
    <3>7. k \in 0 .. k
      BY <1>0
    <3> QED  BY <3>1, <3>6, <3>7 DEF ScanOK
  <2> QED  BY <2>2, <2>3
<1> QED  BY <1>5, <1>6

LEMMA StopsAreFound ==
  ASSUME NEW w \in Seq(Observed), Ordered(w)
  PROVE  StopsTo(Stops(w), w, Len(w)) /\ Covered(Stops(w), w, Len(w))
<1>l. PICK l \in Nat : l = Len(w) /\ DOMAIN w = 1 .. l
  OBVIOUS
<1>b. PICK b : b = [stops |-> <<>>, points |-> <<>>]
  OBVIOUS
<1>1. PICK acc : /\ acc[0] = b
                 /\ \A k \in 1 .. l : acc[k] = ScanStop(acc[k - 1], w[k])
                 /\ FoldLeft(ScanStop, b, w) = acc[l]
  <2>1. l \in Nat /\ DOMAIN w = 1 .. l
    BY <1>l
  <2>2. PICK acc : ScanValues(acc, b, w, l)
    BY <2>1, ScanFold
  <2> QED  BY <2>2, Zenon DEF ScanValues
<1>2. ScanOK(acc[0], w, 0)
  <2>1. Scanned(<<>>, <<>>, w, 0, 0)
    <3>1. StopsTo(<<>>, w, 0)
      BY DEF StopsTo
    <3>2. Covered(<<>>, w, 0)
      BY DEF Covered
    <3>3. Collects(<<>>, w, 0, 0)
      <4>1. <<>> = [i \in 1 .. 0 |-> w[0 + i]] /\ 0 + 1 .. 0 = {}
        OBVIOUS
      <4> QED  BY <4>1 DEF Collects
    <3>4. Parted(w, 0, 0)
      BY DEF Parted
    <3> QED  BY <3>1, <3>2, <3>3, <3>4 DEF Scanned
  <2>2. b.stops = <<>> /\ b.points = <<>> /\ 0 \in 0 .. 0
    BY <1>b
  <2>3. ScanOK(b, w, 0)
    BY <1>b, <2>1, <2>2 DEF ScanOK
  <2> QED  BY <1>1, <2>3
<1>d. PICK Bad : Bad = {k \in 0 .. l : ~ScanOK(acc[k], w, k)}
  OBVIOUS
<1>3. ASSUME NEW k \in Bad PROVE k - 1 \in Bad
  <2>1. k \in 1 .. l /\ ~ScanOK(acc[k], w, k) /\ k - 1 \in 0 .. l /\ k \in 1 .. Len(w)
    <3>1. k \in 0 .. l /\ ~ScanOK(acc[k], w, k)
      BY <1>d
    <3>2. k # 0
      BY <1>2, <3>1
    <3> QED  BY <1>l, <3>1, <3>2
  <2>2. acc[k] = ScanStop(acc[k - 1], w[k])
    BY <1>1, <2>1
  <2>3. ~ScanOK(acc[k - 1], w, k - 1)
    BY <2>1, <2>2, ScanStopKeeps
  <2> QED  BY <1>d, <2>1, <2>3
<1>4. Bad = {}
  <2>1. Bad \subseteq Nat /\ 0 \notin Bad
    BY <1>2, <1>d
  <2> QED  BY <1>3, <2>1, NoFirstCounterexample
<1>5. ScanOK(acc[l], w, l)
  BY <1>4, <1>d
<1>6. PICK a \in 0 .. l : Scanned(acc[l].stops, acc[l].points, w, a, l)
  BY <1>5 DEF ScanOK
<1>7. Stops(w) = AddStop(acc[l].stops, acc[l].points)
  BY <1>1, <1>b, Zenon DEF Stops
<1>8. StopsTo(Stops(w), w, l) /\ Covered(Stops(w), w, l)
  <2>1. l \in 0 .. Len(w)
    BY <1>l
  <2> QED  BY <1>6, <1>7, <2>1, AddStopKeeps
<1> QED  BY <1>8, <1>l

Totals(total, stops) == total = FoldLeft(+, 0, Lengths(stops))

\* Stops that follow each other last no longer than from the first to the last.
LEMMA StopsTotal ==
  ASSUME NEW w, NEW a, NEW stops, StopsTo(stops, w, a),
         NEW total, Totals(total, stops)
  PROVE  /\ total \in Nat /\ (Len(stops) = 0 => total = 0)
         /\ Len(stops) >= 1 =>
              total <= stops[Len(stops)].end_time - stops[1].start_time
<1>c. PICK c \in Nat : c = Len(stops) /\ DOMAIN stops = 1 .. c
  BY DEF StopsTo
<1>1. /\ \A n \in 1 .. c : /\ stops[n].start_time \in Nat /\ stops[n].end_time \in Nat
                           /\ stops[n].end_time - stops[n].start_time >= StopTime
      /\ \A n \in 2 .. c : stops[n - 1].end_time <= stops[n].start_time
  <2>1. \A n \in 1 .. c : stops[n] \in Period
    BY <1>c DEF StopsTo
  <2>2. \A n \in 1 .. c : stops[n].start_time \in Nat /\ stops[n].end_time \in Nat
    BY <2>1 DEF Period
  <2> QED  BY <1>c, <2>2 DEF StopsTo
<1>s. PICK s : s = Lengths(stops)
  OBVIOUS
<1>2. DOMAIN s = 1 .. c /\ \A n \in 1 .. c : s[n] = stops[n].end_time - stops[n].start_time
  BY <1>c, <1>s DEF Lengths
<1>3. PICK acc : SumValues(acc, s, c)
  BY <1>2, SumFold
<1>4. /\ acc[0] = 0
      /\ \A k \in 1 .. c : acc[k] = acc[k - 1] + s[k]
  BY <1>3, Zenon DEF SumValues
<1>5. total = acc[c]
  <2>1. FoldLeft(+, 0, s) = acc[c]
    BY <1>3, Zenon DEF SumValues
  <2> QED  BY <1>s, <2>1, Zenon DEF Totals
<1> DEFINE Bounded(k) ==
      acc[k] \in Nat /\ (k >= 1 => acc[k] <= stops[k].end_time - stops[1].start_time)
<1>d. PICK Bad : Bad = {k \in 0 .. c : ~Bounded(k)}
  OBVIOUS
<1>6. Bounded(0)
  BY <1>4
<1>t. StopTime \in Nat
  BY SummaryConstants
<1>7. ASSUME NEW k \in 1 .. c, Bounded(k - 1) PROVE Bounded(k)
  <2>1. /\ stops[k].start_time \in Nat /\ stops[k].end_time \in Nat
        /\ stops[1].start_time \in Nat
        /\ stops[k].end_time - stops[k].start_time >= StopTime
    <3>1. 1 \in 1 .. c
      OBVIOUS
    <3> QED  BY <1>1, <3>1
  <2>2. acc[k] = acc[k - 1] + (stops[k].end_time - stops[k].start_time)
    BY <1>2, <1>4
  <2>3. acc[k - 1] \in Nat /\ acc[k] \in Nat
    BY <1>t, <1>7, <2>1, <2>2
  <2>4. acc[k] <= stops[k].end_time - stops[1].start_time
    <3>1. CASE k = 1
      BY <1>4, <2>1, <2>2, <3>1
    <3>2. CASE k # 1
      <4>1. k \in 2 .. c /\ k - 1 \in 1 .. c /\ k - 1 >= 1
        BY <3>2
      <4>2. /\ stops[k - 1].end_time <= stops[k].start_time
            /\ stops[k - 1].end_time \in Nat
            /\ acc[k - 1] <= stops[k - 1].end_time - stops[1].start_time
        BY <1>1, <1>7, <4>1
      <4> QED  BY <2>1, <2>2, <2>3, <4>2
    <3> QED  BY <3>1, <3>2
  <2> QED  BY <2>3, <2>4
<1>8. Bad = {}
  <2>1. Bad \subseteq Nat /\ 0 \notin Bad
    BY <1>6, <1>d
  <2>2. ASSUME NEW k \in Bad PROVE k - 1 \in Bad
    <3>1. k \in 0 .. c /\ ~Bounded(k)
      BY <1>d
    <3>2. k \in 1 .. c /\ k - 1 \in 0 .. c
      BY <1>6, <3>1
    <3>3. ~Bounded(k - 1)
      BY <1>7, <3>1, <3>2
    <3> HIDE DEF Bounded
    <3> QED  BY <1>d, <3>2, <3>3
  <2> QED  BY <2>1, <2>2, NoFirstCounterexample
<1>9. Bounded(c)
  BY <1>8, <1>d
<1> QED  BY <1>4, <1>5, <1>9, <1>c

LEMMA InvariantStops == SummaryIInv => StopsAreTrue
<1> SUFFICES ASSUME SummaryIInv, NEW w, w = Window(track, trip), Len(w) >= 2,
                    NEW stops, stops = Stops(w)
             PROVE  /\ \A n \in DOMAIN stops :
                         /\ stops[n].end_time - stops[n].start_time >= StopTime
                         /\ trip.start_time <= stops[n].start_time
                         /\ stops[n].end_time <= trip.end_time
                         /\ n > 1 => stops[n - 1].end_time <= stops[n].start_time
                    /\ LET s == Summary(track, trip)
                       IN  s.moving_time + FoldLeft(+, 0, Lengths(stops)) = s.duration
                    /\ \A n, m \in DOMAIN w :
                         /\ n < m
                         /\ \A k \in n .. m : /\ w[k].speed < StopSpeed
                                              /\ w[k].pos = w[n].pos
                         /\ w[m].ts - w[n].ts >= StopTime
                         => \E k \in DOMAIN stops : /\ stops[k].start_time <= w[n].ts
                                                    /\ w[m].ts <= stops[k].end_time
  BY Zenon DEF StopsAreTrue
<1>0. trip \in Trip /\ track \in Seq(Observed) /\ Ordered(track)
  BY DEF SummaryIInv, SummaryTypeOK
<1>1. trip.start_time \in Nat /\ trip.end_time \in Nat
  BY <1>0 DEF Trip
<1>2. PICK a \in 0 .. Len(track) : Frames(w, track, a, trip.start_time, trip.end_time)
  BY <1>0, <1>1, WindowFrames
<1>3. w \in Seq(Observed) /\ Ordered(w)
  BY <1>2 DEF Frames
<1>l. PICK l \in Nat : l = Len(w) /\ DOMAIN w = 1 .. l
  BY <1>3
<1>4. \A n \in 1 .. l : w[n].ts \in Nat /\ trip.start_time <= w[n].ts /\ w[n].ts <= trip.end_time
  BY <1>2, <1>l DEF Frames
<1>5. StopsTo(stops, w, l) /\ Covered(stops, w, l)
  BY <1>3, <1>l, StopsAreFound
<1>c. PICK c \in Nat : c = Len(stops) /\ DOMAIN stops = 1 .. c
  BY <1>5 DEF StopsTo
<1>6. ASSUME NEW n \in 1 .. c
      PROVE  /\ stops[n].end_time - stops[n].start_time >= StopTime
             /\ trip.start_time <= stops[n].start_time /\ stops[n].start_time \in Nat
             /\ stops[n].end_time <= trip.end_time /\ stops[n].end_time \in Nat
             /\ n > 1 => stops[n - 1].end_time <= stops[n].start_time
  <2>1. PICK i \in 1 .. l : stops[n].start_time = w[i].ts
    BY <1>5, <1>c DEF StopsTo
  <2>2. PICK j \in 1 .. l : stops[n].end_time = w[j].ts
    BY <1>5, <1>c DEF StopsTo
  <2>3. stops[n].end_time - stops[n].start_time >= StopTime
    BY <1>5, <1>c DEF StopsTo
  <2>4. ASSUME n > 1 PROVE stops[n - 1].end_time <= stops[n].start_time
    <3>1. n \in 2 .. c
      BY <2>4
    <3> QED  BY <1>5, <1>c, <3>1 DEF StopsTo
  <2> QED  BY <1>4, <2>1, <2>2, <2>3, <2>4
<1>s. PICK s : s = Summary(track, trip)
  OBVIOUS
<1>t. PICK total : total = FoldLeft(+, 0, Lengths(stops))
  OBVIOUS
<1>p. PICK span : span = trip.end_time - trip.start_time
  OBVIOUS
<1>8. s.moving_time = Max({0, span - total}) /\ s.duration = span
  <2>1. ~(Len(w) < 2)
    BY <1>l
  <2>2. \E packets, longest, over, score :
          s = [duration |-> span, moving_time |-> Max({0, span - total}),
               packet_count |-> packets, stops |-> stops, longest_stop |-> longest,
               overspeed_count |-> over, driving_score |-> score]
    BY <1>s, <1>t, <1>p, <2>1, Zenon DEF Summary
  <2> QED  BY <2>2
<1>9. total \in Nat /\ total <= span /\ span \in Nat
  <2>1. /\ total \in Nat /\ (c = 0 => total = 0)
        /\ c >= 1 => total <= stops[c].end_time - stops[1].start_time
    <3>1. /\ total \in Nat /\ (Len(stops) = 0 => total = 0)
          /\ Len(stops) >= 1 => total <= stops[Len(stops)].end_time - stops[1].start_time
      <4>1. Totals(total, stops)
        BY <1>t, Zenon DEF Totals
      <4> QED  BY <1>5, <4>1, StopsTotal
    <3> QED  BY <1>c, <3>1
  <2>2. span \in Nat
    <3>1. 1 \in 1 .. l
      BY <1>l
    <3>2. trip.start_time <= w[1].ts /\ w[1].ts <= trip.end_time /\ w[1].ts \in Nat
      BY <1>4, <3>1
    <3> QED  BY <1>1, <1>p, <3>2
  <2>3. CASE c = 0
    BY <2>1, <2>2, <2>3
  <2>4. CASE c # 0
    <3>1. 1 \in 1 .. c /\ c \in 1 .. c /\ c >= 1
      BY <2>4
    <3>2. /\ trip.start_time <= stops[1].start_time /\ stops[1].start_time \in Nat
          /\ stops[c].end_time <= trip.end_time /\ stops[c].end_time \in Nat
      BY <1>6, <3>1
    <3> QED  BY <1>1, <1>p, <2>1, <2>2, <3>1, <3>2
  <2> QED  BY <2>3, <2>4
<1>10. s.moving_time + total = s.duration
  <2>m. PICK high : high = Max({0, span - total})
    OBVIOUS
  <2>1. \E x \in {0, span - total} : \A y \in {0, span - total} : x >= y
    BY <1>9
  <2>2. high \in {0, span - total} /\ \A y \in {0, span - total} : high >= y
    BY <2>m, <2>1, Zenon DEF Max
  <2>3. high = span - total
    BY <1>9, <2>2
  <2> QED  BY <1>8, <1>9, <2>m, <2>3
<1>11. LET sum == Summary(track, trip)
       IN  sum.moving_time + FoldLeft(+, 0, Lengths(stops)) = sum.duration
  BY <1>10, <1>s, <1>t, Zenon
<1>12. \A n \in DOMAIN stops :
         /\ stops[n].end_time - stops[n].start_time >= StopTime
         /\ trip.start_time <= stops[n].start_time
         /\ stops[n].end_time <= trip.end_time
         /\ n > 1 => stops[n - 1].end_time <= stops[n].start_time
  BY <1>6, <1>c
<1>13. \A n, m \in DOMAIN w :
         /\ n < m
         /\ \A k \in n .. m : /\ w[k].speed < StopSpeed
                              /\ w[k].pos = w[n].pos
         /\ w[m].ts - w[n].ts >= StopTime
         => \E k \in DOMAIN stops : /\ stops[k].start_time <= w[n].ts
                                    /\ w[m].ts <= stops[k].end_time
  <2> SUFFICES ASSUME NEW n \in DOMAIN w, NEW m \in DOMAIN w, n < m,
                      \A k \in n .. m : w[k].speed < StopSpeed /\ w[k].pos = w[n].pos,
                      w[m].ts - w[n].ts >= StopTime
               PROVE  \E k \in DOMAIN stops : /\ stops[k].start_time <= w[n].ts
                                              /\ w[m].ts <= stops[k].end_time
    BY ZenonT(30)
  <2>1. Stands(w, n, m)
    BY DEF Stands
  <2>2. n \in 1 .. l /\ m \in 1 .. l
    BY <1>l
  <2>3. StoppedFor(stops, w[n].ts, w[m].ts)
    BY <1>5, <2>1, <2>2 DEF Covered
  <2> QED  BY <1>c, <2>3 DEF StoppedFor
<1> QED  BY <1>11, <1>12, <1>13, Zenon

\* The three subsystems share no variables: a step of another one leaves the
\* summary as it is.
LEMMA SummarySteps == MCInit => SummaryIInv
BY SummaryInitHolds DEF MCInit

LEMMA SummaryStepsKeep ==
  SummaryIInv /\ [MCNext]_<<vars, jobVars, summaryVars, focus>> => SummaryIInv'
<1> SUFFICES ASSUME SummaryIInv, [MCNext]_<<vars, jobVars, summaryVars, focus>>
             PROVE  SummaryIInv'
  OBVIOUS
<1>1. CASE SummaryNext
  <2>1. PICK p \in Observed : \E n \in TrackPlaces(p), flushed, done \in BOOLEAN :
                                Observe(p, n, flushed, done)
    BY <1>1 DEF SummaryNext
  <2> QED  BY <2>1, ObserveKeeps
<1>2. CASE UNCHANGED summaryVars
  <2>1. trip' = trip /\ track' = track
    BY <1>2 DEF summaryVars
  <2> QED  BY <2>1 DEF SummaryIInv, SummaryTypeOK, Ordered, CountsLocations, Fast, Slow, Inside
<1> QED  BY <1>1, <1>2 DEF MCNext

(***************************************************************************)
(* What a summary and a replay tell of a trip is true for any locations,   *)
(* in order or late, and agrees with what the engine counted: the stops    *)
(* and the moving time of calculate_trip_summary, its counters and score,  *)
(* and the points of get_trip_replay_points.                               *)
(***************************************************************************)
THEOREM SummariesTellTheTruth == MCSpec => []SummariesAgree
<1>1. SummaryIInv => SummariesAgree
  BY InvariantStops, InvariantCounts, InvariantReplays DEF SummaryIInv, SummariesAgree
<1> QED  BY <1>1, SummarySteps, SummaryStepsKeep, PTL DEF MCSpec
=============================================================================
