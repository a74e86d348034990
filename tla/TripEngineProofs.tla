-------------------------- MODULE TripEngineProofs --------------------------
(***************************************************************************)
(* The safety properties of TripEngine for every set of timestamps, speeds *)
(* and positions and every value of the thresholds.                        *)
(***************************************************************************)
EXTENDS TripEngine, TLAPS

USE TripConstants, CancelWindowBelowIdleTimeout, EngineConstants

-----------------------------------------------------------------------------
(***************************************************************************)
(* The inductive invariant.  What the checked invariants lack is that the  *)
(* active trip is the newest one, so that a coordinate touches no other,   *)
(* and how the trips and the moving locations lie to the newest timestamp. *)
(***************************************************************************)
GoodTrip(t) ==
  /\ t \in Trip
  /\ t.is_active <=> t.status = "ACTIVE"
  /\ t.idle_time <= t.duration
  /\ t.overspeed_count <= t.packet_count
  /\ t.is_active => t.duration = t.end_time - t.start_time

TripsGood ==
  /\ trips \in Seq(Trip)
  /\ \A i \in 1 .. Len(trips) : GoodTrip(trips[i])
  /\ \A i \in 1 .. Len(trips) : trips[i].is_active => i = Len(trips)

ClockOK ==
  /\ moving \subseteq Times
  /\ newest \in Nat \cup {-1}
  /\ inOrder \in BOOLEAN
  /\ stored \in Nat
  /\ \A m \in moving : m <= newest

Chronicle ==
  inOrder =>
    /\ \A i \in 1 .. Len(trips) :
         /\ trips[i].start_time <= trips[i].end_time
         /\ trips[i].end_time <= newest
    /\ \A i, j \in 1 .. Len(trips) :
         i < j => trips[i].end_time <= trips[j].start_time
    /\ \A m \in moving : \E i \in 1 .. Len(trips) :
         trips[i].start_time <= m /\ m <= trips[i].end_time

IInv == TripsGood /\ ClockOK /\ Chronicle

LEMMA InvariantImplies ==
  IInv => /\ TypeOK
          /\ SingleActiveTrip
          /\ TripClock
          /\ TripsDisjoint
          /\ MovementIsInATrip
<1> SUFFICES ASSUME IInv
             PROVE  /\ TypeOK
                    /\ SingleActiveTrip
                    /\ TripClock
                    /\ TripsDisjoint
                    /\ MovementIsInATrip
  OBVIOUS
<1>1. DOMAIN trips = 1 .. Len(trips)
  BY DEF IInv, TripsGood
<1>2. TypeOK
  BY DEF IInv, TripsGood, ClockOK, TypeOK
<1>3. SingleActiveTrip
  BY <1>1 DEF IInv, TripsGood, GoodTrip, SingleActiveTrip, ActiveIn
<1>4. TripClock
  BY <1>1 DEF IInv, TripsGood, GoodTrip, TripClock
<1>5. TripsDisjoint /\ MovementIsInATrip
  BY <1>1 DEF IInv, Chronicle, TripsDisjoint, MovementIsInATrip
<1> QED
  BY <1>2, <1>3, <1>4, <1>5

-----------------------------------------------------------------------------
(***************************************************************************)
(* What the rules do to one trip.                                          *)
(***************************************************************************)
LEMMA CoordinateType ==
  ASSUME NEW p \in Coordinate
  PROVE  /\ p.ts \in Nat /\ p.ts \in Times
         /\ p.speed \in Nat
         /\ p.pos \in Int
         /\ p.ign \in Ignition
BY DEF Coordinate

LEMMA NewTripIsGood ==
  ASSUME NEW p \in Coordinate
  PROVE  /\ GoodTrip(NewTrip(p))
         /\ NewTrip(p).is_active
         /\ NewTrip(p).start_time = p.ts
         /\ NewTrip(p).end_time = p.ts
<1>1. Overspeed(p) \in {0, 1}
  BY CoordinateType DEF Overspeed
<1> QED
  BY <1>1, CoordinateType DEF GoodTrip, NewTrip, Trip, TripStatus

LEMMA CloseKeepsGood ==
  ASSUME NEW t, GoodTrip(t), NEW st \in {"COMPLETED", "CANCELLED"}
  PROVE  /\ GoodTrip(Close(t, st))
         /\ ~Close(t, st).is_active
         /\ Close(t, st).start_time = t.start_time
         /\ Close(t, st).end_time = t.end_time
         /\ Close(t, st).status = st
         /\ Close(t, st).duration = t.duration
BY DEF GoodTrip, Close, Trip, TripStatus

LEMMA RouteCloseKeepsGood ==
  ASSUME NEW t, GoodTrip(t), NEW p \in Coordinate, NEW done \in BOOLEAN
  PROVE  /\ GoodTrip(RouteClose(t, p, done))
         /\ RouteClose(t, p, done).start_time = t.start_time
         /\ RouteClose(t, p, done).end_time = IF done THEN p.ts ELSE t.end_time
         /\ RouteClose(t, p, done).is_active => ~done /\ t.is_active
         /\ RouteClose(t, p, done).status =
              IF done THEN "COMPLETED" ELSE t.status
<1>1. CASE done
  BY <1>1, CloseKeepsGood, CoordinateType
  DEF RouteClose, GoodTrip, Trip, TripStatus, Close
<1>2. CASE ~done
  BY <1>2 DEF RouteClose
<1> QED
  BY <1>1, <1>2

LEMMA ExtendKeepsGood ==
  ASSUME NEW t, GoodTrip(t), t.is_active, NEW p \in Coordinate, InTime(t, p)
  PROVE  /\ GoodTrip(Extend(t, p))
         /\ Extend(t, p).is_active
         /\ Extend(t, p).start_time = t.start_time
         /\ Extend(t, p).end_time = p.ts
         /\ Extend(t, p).duration = p.ts - t.start_time
<1>1. Overspeed(p) \in {0, 1}
  BY CoordinateType DEF Overspeed
<1>2. Travelled(t, p) \in Nat
  BY CoordinateType DEF Travelled, Distance, GoodTrip, Trip
<1>3. p.ts > t.end_time
  BY CoordinateType DEF InTime, Late, GoodTrip, Trip
<1>4. /\ t.start_time \in Nat /\ t.end_time \in Nat /\ t.duration \in Int
      /\ t.distance \in Nat /\ t.idle_time \in Nat /\ t.packet_count \in Nat
      /\ t.overspeed_count \in Nat
      /\ t.duration = t.end_time - t.start_time
  BY DEF GoodTrip, Trip
<1> DEFINE idle == IF p.speed <= IdleSpeed THEN p.ts - t.end_time ELSE 0
<1>5. idle \in Nat /\ idle <= p.ts - t.end_time
  BY <1>3, <1>4, CoordinateType
<1>6. t \in Trip
  BY DEF GoodTrip
<1>7. /\ Extend(t, p).start_time = t.start_time
      /\ Extend(t, p).end_time = p.ts
      /\ Extend(t, p).duration = p.ts - t.start_time
      /\ Extend(t, p).idle_time = t.idle_time + idle
      /\ Extend(t, p).packet_count = t.packet_count + 1
      /\ Extend(t, p).overspeed_count = t.overspeed_count + Overspeed(p)
      /\ Extend(t, p).status = t.status
      /\ Extend(t, p).is_active = t.is_active
  BY <1>6 DEF Extend, Trip
<1> HIDE DEF idle
<1>8. /\ p.ts \in Nat /\ p.pos \in Int
      /\ t.distance + Travelled(t, p) \in Nat
      /\ t.packet_count + 1 \in Nat
      /\ t.overspeed_count + Overspeed(p) \in Nat
      /\ p.ts - t.start_time \in Int
      /\ t.idle_time + idle \in Nat
  BY <1>1, <1>2, <1>4, <1>5, CoordinateType
<1>9. Extend(t, p) \in Trip
  BY <1>6, <1>8 DEF Extend, Trip, idle
<1> QED
  BY <1>1, <1>4, <1>5, <1>7, <1>8, <1>9 DEF GoodTrip

LEMMA UpdateKeepsGood ==
  ASSUME NEW t, GoodTrip(t), t.is_active, NEW p \in Coordinate, InTime(t, p),
         NEW seen \in SUBSET Nat
  PROVE  /\ GoodTrip(Update(t, p, seen))
         /\ Update(t, p, seen).start_time = t.start_time
         /\ Update(t, p, seen).end_time = p.ts
         /\ Update(t, p, seen).status = "CANCELLED" => p.ign = "off"
<1> DEFINE e == Extend(t, p)
<1>1. /\ GoodTrip(e) /\ e.is_active /\ e.start_time = t.start_time
      /\ e.end_time = p.ts /\ e.duration = p.ts - t.start_time
  BY ExtendKeepsGood
<1> HIDE DEF e
<1>2. EndStatus(e) \in {"COMPLETED", "CANCELLED"}
  BY DEF EndStatus
<1>3. Update(t, p, seen) =
        IF p.ign = "off" \/ (p.ign = "none" /\ IdleTooLong(e, p, seen))
        THEN Close(e, EndStatus(e)) ELSE e
  BY DEF Update, e
<1>4. IdleTooLong(e, p, seen) => EndStatus(e) = "COMPLETED"
  <2> SUFFICES ASSUME IdleTooLong(e, p, seen) PROVE ~TooShort(e)
    BY DEF EndStatus
  <2>1. e.duration > EndTimeout
    BY <1>1 DEF IdleTooLong
  <2> QED
    BY <2>1, <1>1 DEF TooShort, GoodTrip, Trip
<1>5. CASE p.ign = "off" \/ (p.ign = "none" /\ IdleTooLong(e, p, seen))
  <2>1. Update(t, p, seen) = Close(e, EndStatus(e))
    BY <1>3, <1>5
  <2>2. /\ GoodTrip(Close(e, EndStatus(e)))
        /\ Close(e, EndStatus(e)).start_time = e.start_time
        /\ Close(e, EndStatus(e)).end_time = e.end_time
        /\ Close(e, EndStatus(e)).status = EndStatus(e)
    BY <1>1, <1>2, CloseKeepsGood
  <2> QED
    BY <1>1, <1>4, <1>5, <2>1, <2>2
<1>6. CASE ~(p.ign = "off" \/ (p.ign = "none" /\ IdleTooLong(e, p, seen)))
  <2>1. Update(t, p, seen) = e
    BY <1>3, <1>6
  <2> QED
    BY <1>1, <2>1 DEF GoodTrip
<1> QED
  BY <1>5, <1>6

-----------------------------------------------------------------------------
(***************************************************************************)
(* What a step does to the table: it replaces the active trip, adds a      *)
(* trip, or both.                                                          *)
(***************************************************************************)
LEMMA ReplaceActive ==
  ASSUME TripsGood, NEW i \in 1 .. Len(trips), trips[i].is_active,
         NEW x, GoodTrip(x), trips' = [trips EXCEPT ![i] = x]
  PROVE  /\ TripsGood'
         /\ i = Len(trips)
         /\ Len(trips') = Len(trips)
         /\ trips'[i] = x
         /\ \A k \in 1 .. Len(trips) : k # i => trips'[k] = trips[k]
<1>1. i = Len(trips)
  BY DEF TripsGood
<1>2. x \in Trip /\ trips \in Seq(Trip)
  BY DEF GoodTrip, TripsGood
<1>3. /\ trips' \in Seq(Trip)
      /\ Len(trips') = Len(trips)
      /\ trips'[i] = x
      /\ \A k \in 1 .. Len(trips) : k # i => trips'[k] = trips[k]
  BY <1>2
<1>4. \A k \in 1 .. Len(trips') : GoodTrip(trips'[k])
  BY <1>3 DEF TripsGood
<1>5. \A k \in 1 .. Len(trips') : trips'[k].is_active => k = Len(trips')
  BY <1>1, <1>3 DEF TripsGood
<1> QED
  BY <1>1, <1>3, <1>4, <1>5 DEF TripsGood

LEMMA AppendTrip ==
  ASSUME NEW s \in Seq(Trip), NEW y, GoodTrip(y),
         \A k \in 1 .. Len(s) : GoodTrip(s[k]) /\ ~s[k].is_active,
         trips' = Append(s, y)
  PROVE  /\ TripsGood'
         /\ Len(trips') = Len(s) + 1
         /\ trips'[Len(s) + 1] = y
         /\ \A k \in 1 .. Len(s) : trips'[k] = s[k]
<1>1. y \in Trip
  BY DEF GoodTrip
<1>2. /\ trips' \in Seq(Trip)
      /\ Len(trips') = Len(s) + 1
      /\ trips'[Len(s) + 1] = y
      /\ \A k \in 1 .. Len(s) : trips'[k] = s[k]
  BY <1>1
<1>3. \A k \in 1 .. Len(trips') : GoodTrip(trips'[k])
  BY <1>2
<1>4. \A k \in 1 .. Len(trips') : trips'[k].is_active => k = Len(trips')
  BY <1>2
<1> QED
  BY <1>2, <1>3, <1>4 DEF TripsGood

(***************************************************************************)
(* The clock, and the chronicle through both kinds of step.                *)
(***************************************************************************)
LEMMA StoreKeepsClock ==
  ASSUME ClockOK, NEW p \in Coordinate, Store(p)
  PROVE  /\ ClockOK'
         /\ newest <= newest'
         /\ inOrder' => inOrder /\ newest <= p.ts /\ newest' = p.ts
         /\ \A m \in moving' : m \in moving \/ (m = p.ts /\ p.speed >= StartSpeed)
<1>1. p.ts \in Nat /\ p.ts \in Times
  BY CoordinateType
<1>2. /\ moving' = moving \cup Moves(p)
      /\ newest' = IF p.ts > newest THEN p.ts ELSE newest
      /\ inOrder' = (inOrder /\ p.ts >= newest)
      /\ stored' = stored + 1
  BY DEF Store
<1>3. \A m \in Moves(p) : m = p.ts /\ p.speed >= StartSpeed
  BY DEF Moves
<1>4. \A m \in moving' : m \in moving \/ (m = p.ts /\ p.speed >= StartSpeed)
  BY <1>2, <1>3
<1>5. newest' \in Nat \cup {-1} /\ newest <= newest' /\ p.ts <= newest'
  BY <1>1, <1>2 DEF ClockOK
<1>6. \A m \in moving' : m \in Times /\ m <= newest'
  <2> SUFFICES ASSUME NEW m \in moving' PROVE m \in Times /\ m <= newest'
    OBVIOUS
  <2>1. CASE m \in moving
    <3>1. m \in Nat /\ m <= newest /\ newest \in Int /\ newest' \in Int
      BY <2>1, <1>5 DEF ClockOK
    <3> QED
      BY <3>1, <2>1, <1>5 DEF ClockOK
  <2>2. CASE m = p.ts
    BY <2>2, <1>1, <1>5
  <2> QED
    BY <2>1, <2>2, <1>4
<1>7. inOrder' \in BOOLEAN /\ stored' \in Nat
  BY <1>2 DEF ClockOK
<1>8. inOrder' => inOrder /\ newest <= p.ts /\ newest' = p.ts
  <2> SUFFICES ASSUME inOrder' PROVE inOrder /\ newest <= p.ts /\ newest' = p.ts
    OBVIOUS
  <2>1. inOrder
    BY <1>2, Zenon
  <2>2. p.ts >= newest
    BY <1>2, Zenon
  <2>3. newest \in Int
    BY DEF ClockOK
  <2> QED
    BY <2>1, <2>2, <2>3, <1>1, <1>2
<1> QED
  BY <1>4, <1>5, <1>6, <1>7, <1>8 DEF ClockOK

LEMMA ReplaceKeepsChronicle ==
  ASSUME IInv, NEW p \in Coordinate, Store(p), NEW i \in 1 .. Len(trips),
         trips[i].is_active, NEW x, GoodTrip(x), trips' = [trips EXCEPT ![i] = x],
         x.start_time = trips[i].start_time,
         inOrder' => /\ trips[i].end_time <= x.end_time
                     /\ x.end_time <= p.ts
                     /\ p.speed >= StartSpeed => x.end_time = p.ts
  PROVE  IInv'
<1>1. /\ TripsGood'
      /\ i = Len(trips)
      /\ Len(trips') = Len(trips)
      /\ trips'[i] = x
      /\ \A k \in 1 .. Len(trips) : k # i => trips'[k] = trips[k]
  BY ReplaceActive DEF IInv
<1>2. /\ ClockOK'
      /\ newest <= newest'
      /\ inOrder' => inOrder /\ newest <= p.ts /\ newest' = p.ts
      /\ \A m \in moving' : m \in moving \/ (m = p.ts /\ p.speed >= StartSpeed)
  BY StoreKeepsClock DEF IInv
<1>3. \A k \in 1 .. Len(trips) : /\ trips[k].start_time \in Nat
                                 /\ trips[k].end_time \in Nat
  BY DEF IInv, TripsGood, GoodTrip, Trip
<1>4. x.end_time \in Nat /\ x.start_time \in Nat /\ p.ts \in Nat
  BY CoordinateType DEF GoodTrip, Trip
<1>5. newest \in Int /\ \A m \in moving : m \in Nat
  BY DEF IInv, ClockOK
<1> SUFFICES ASSUME inOrder' PROVE Chronicle'
  BY <1>1, <1>2 DEF IInv, Chronicle
<1>6. inOrder /\ newest <= p.ts /\ newest' = p.ts
  BY <1>2
<1>7. /\ \A k \in 1 .. Len(trips) :
           /\ trips[k].start_time <= trips[k].end_time
           /\ trips[k].end_time <= newest
      /\ \A k, l \in 1 .. Len(trips) :
           k < l => trips[k].end_time <= trips[l].start_time
      /\ \A m \in moving : \E k \in 1 .. Len(trips) :
           trips[k].start_time <= m /\ m <= trips[k].end_time
  BY <1>6 DEF IInv, Chronicle
<1>8. \A k \in 1 .. Len(trips) : /\ trips'[k].start_time = trips[k].start_time
                                 /\ trips[k].end_time <= trips'[k].end_time
                                 /\ trips'[k].end_time <= p.ts
                                 /\ trips'[k].end_time \in Nat
                                 /\ k # i => trips'[k] = trips[k]
  <2> SUFFICES ASSUME NEW k \in 1 .. Len(trips)
               PROVE  /\ trips'[k].start_time = trips[k].start_time
                      /\ trips[k].end_time <= trips'[k].end_time
                      /\ trips'[k].end_time <= p.ts
                      /\ trips'[k].end_time \in Nat
                      /\ k # i => trips'[k] = trips[k]
    OBVIOUS
  <2>1. CASE k = i
    BY <2>1, <1>1, <1>4
  <2>2. CASE k # i
    BY <2>2, <1>1, <1>3, <1>4, <1>5, <1>6, <1>7, SMTT(30)
  <2> QED
    BY <2>1, <2>2
<1>9. \A k \in 1 .. Len(trips') : /\ trips'[k].start_time <= trips'[k].end_time
                                  /\ trips'[k].end_time <= newest'
  BY <1>1, <1>3, <1>6, <1>7, <1>8
<1>10. \A k, l \in 1 .. Len(trips') :
         k < l => trips'[k].end_time <= trips'[l].start_time
  <2> SUFFICES ASSUME NEW k \in 1 .. Len(trips'), NEW l \in 1 .. Len(trips'), k < l
               PROVE  trips'[k].end_time <= trips'[l].start_time
    OBVIOUS
  <2>1. k # i
    BY <1>1
  <2> QED
    BY <2>1, <1>1, <1>7, <1>8
<1>11. \A m \in moving' : \E k \in 1 .. Len(trips') :
         trips'[k].start_time <= m /\ m <= trips'[k].end_time
  <2> SUFFICES ASSUME NEW m \in moving'
               PROVE  \E k \in 1 .. Len(trips') :
                        trips'[k].start_time <= m /\ m <= trips'[k].end_time
    OBVIOUS
  <2>1. CASE m \in moving
    <3>1. PICK k \in 1 .. Len(trips) :
             trips[k].start_time <= m /\ m <= trips[k].end_time
      BY <2>1, <1>7
    <3> QED
      BY <3>1, <2>1, <1>1, <1>3, <1>5, <1>8
  <2>2. CASE m = p.ts /\ p.speed >= StartSpeed
    BY <2>2, <1>1, <1>4, <1>9
  <2> QED
    BY <2>1, <2>2, <1>2
<1> QED
  BY <1>9, <1>10, <1>11 DEF Chronicle

LEMMA AppendKeepsChronicle ==
  ASSUME IInv, NEW p \in Coordinate, Store(p),
         NEW s \in Seq(Trip), Len(s) = Len(trips),
         \A k \in 1 .. Len(trips) : /\ GoodTrip(s[k])
                                    /\ ~s[k].is_active
                                    /\ s[k].start_time = trips[k].start_time
                                    /\ s[k].end_time = trips[k].end_time,
         NEW y, GoodTrip(y), y.start_time = p.ts, y.end_time = p.ts,
         trips' = Append(s, y)
  PROVE  IInv'
<1> DEFINE n == Len(trips)
<1>1. /\ TripsGood'
      /\ Len(trips') = n + 1
      /\ trips'[n + 1] = y
      /\ \A k \in 1 .. n : trips'[k] = s[k]
  BY AppendTrip, ZenonT(30)
<1>2. /\ ClockOK'
      /\ newest <= newest'
      /\ inOrder' => inOrder /\ newest <= p.ts /\ newest' = p.ts
      /\ \A m \in moving' : m \in moving \/ (m = p.ts /\ p.speed >= StartSpeed)
  BY StoreKeepsClock DEF IInv
<1>3. \A k \in 1 .. n : /\ trips[k].start_time \in Nat
                        /\ trips[k].end_time \in Nat
  BY DEF IInv, TripsGood, GoodTrip, Trip
<1>4. p.ts \in Nat /\ newest \in Int /\ n \in Nat /\ \A m \in moving : m \in Nat
  BY CoordinateType DEF IInv, ClockOK, TripsGood
<1> SUFFICES ASSUME inOrder' PROVE Chronicle'
  BY <1>1, <1>2 DEF IInv, Chronicle
<1>5. inOrder /\ newest <= p.ts /\ newest' = p.ts
  BY <1>2
<1>6. /\ \A k \in 1 .. n : /\ trips[k].start_time <= trips[k].end_time
                           /\ trips[k].end_time <= newest
      /\ \A k, l \in 1 .. n : k < l => trips[k].end_time <= trips[l].start_time
      /\ \A m \in moving : \E k \in 1 .. n :
           trips[k].start_time <= m /\ m <= trips[k].end_time
  BY <1>5 DEF IInv, Chronicle
<1>7. \A k \in 1 .. n : /\ trips'[k].start_time = trips[k].start_time
                        /\ trips'[k].end_time = trips[k].end_time
                        /\ trips'[k].end_time <= p.ts
  BY <1>1, <1>3, <1>4, <1>5, <1>6, SMTT(30)
<1>8. trips'[n + 1].start_time = p.ts /\ trips'[n + 1].end_time = p.ts
  BY <1>1
<1> HIDE DEF n
<1>9. \A k \in 1 .. Len(trips') : k \in 1 .. n \/ k = n + 1
  BY <1>1, <1>4
<1>10. \A k \in 1 .. Len(trips') : /\ trips'[k].start_time <= trips'[k].end_time
                                   /\ trips'[k].end_time <= newest'
  <2> SUFFICES ASSUME NEW k \in 1 .. Len(trips')
               PROVE  /\ trips'[k].start_time <= trips'[k].end_time
                      /\ trips'[k].end_time <= newest'
    OBVIOUS
  <2>1. CASE k \in 1 .. n
    BY <2>1, <1>5, <1>6, <1>7
  <2>2. CASE k = n + 1
    BY <2>2, <1>4, <1>5, <1>8
  <2> QED
    BY <2>1, <2>2, <1>9
<1>11. \A k, l \in 1 .. Len(trips') :
         k < l => trips'[k].end_time <= trips'[l].start_time
  <2> SUFFICES ASSUME NEW k \in 1 .. Len(trips'), NEW l \in 1 .. Len(trips'), k < l
               PROVE  trips'[k].end_time <= trips'[l].start_time
    OBVIOUS
  <2>1. k \in 1 .. n
    BY <1>1, <1>4
  <2>2. CASE l = n + 1
    BY <2>1, <2>2, <1>7, <1>8
  <2>3. CASE l \in 1 .. n
    BY <2>1, <2>3, <1>6, <1>7
  <2> QED
    BY <2>2, <2>3, <1>9
<1>12. \A m \in moving' : \E k \in 1 .. Len(trips') :
         trips'[k].start_time <= m /\ m <= trips'[k].end_time
  <2> SUFFICES ASSUME NEW m \in moving'
               PROVE  \E k \in 1 .. Len(trips') :
                        trips'[k].start_time <= m /\ m <= trips'[k].end_time
    OBVIOUS
  <2>1. CASE m \in moving
    <3>1. PICK k \in 1 .. n : trips[k].start_time <= m /\ m <= trips[k].end_time
      BY <2>1, <1>6
    <3>2. k \in 1 .. Len(trips')
      BY <1>1, <1>4
    <3>3. trips'[k].start_time <= m /\ m <= trips'[k].end_time
      BY <3>1, <1>7
    <3> QED
      BY <3>2, <3>3
  <2>2. CASE m = p.ts
    BY <2>2, <1>1, <1>4, <1>8
  <2> QED
    BY <2>1, <2>2, <1>2
<1> QED
  BY <1>10, <1>11, <1>12 DEF Chronicle

-----------------------------------------------------------------------------
(***************************************************************************)
(* One lemma per kind of step.                                             *)
(***************************************************************************)
LEMMA ActiveIsLast ==
  ASSUME IInv, NEW i \in ActiveIn(trips)
  PROVE  /\ i \in 1 .. Len(trips)
         /\ i = Len(trips)
         /\ trips[i].is_active
         /\ GoodTrip(trips[i])
         /\ trips[i].start_time \in Nat
         /\ trips[i].end_time \in Nat
<1>1. i \in 1 .. Len(trips) /\ trips[i].is_active
  BY DEF IInv, TripsGood, ActiveIn
<1>2. i = Len(trips) /\ GoodTrip(trips[i])
  BY <1>1 DEF IInv, TripsGood
<1> QED
  BY <1>1, <1>2 DEF GoodTrip, Trip

LEMMA StayParkedStep ==
  ASSUME IInv, NEW p \in Coordinate, StayParked(p)
  PROVE  IInv'
<1>1. Store(p) /\ trips' = trips /\ ~Starts(p)
  BY DEF StayParked
<1>2. /\ ClockOK'
      /\ newest <= newest'
      /\ inOrder' => inOrder
      /\ \A m \in moving' : m \in moving \/ (m = p.ts /\ p.speed >= StartSpeed)
  BY <1>1, StoreKeepsClock DEF IInv
<1>3. ~(p.speed >= StartSpeed)
  BY <1>1 DEF Starts
<1>4. TripsGood'
  BY <1>1 DEF IInv, TripsGood
<1>5. newest \in Int /\ newest' \in Int
  BY <1>2 DEF IInv, ClockOK
<1>6. ASSUME inOrder, NEW k \in 1 .. Len(trips)
      PROVE  trips[k].end_time <= newest'
  <2>1. trips[k].end_time \in Nat /\ trips[k].end_time <= newest
    BY <1>6 DEF IInv, Chronicle, TripsGood, GoodTrip, Trip
  <2> QED
    BY <2>1, <1>2, <1>5
<1>7. Chronicle'
  BY <1>1, <1>2, <1>3, <1>6 DEF IInv, Chronicle
<1> QED
  BY <1>2, <1>4, <1>7 DEF IInv

LEMMA StartTripStep ==
  ASSUME IInv, NEW p \in Coordinate, NEW done \in BOOLEAN, StartTrip(p, done)
  PROVE  IInv'
<1> DEFINE y == RouteClose(NewTrip(p), p, done)
<1>1. GoodTrip(y) /\ y.start_time = p.ts /\ y.end_time = p.ts
  BY NewTripIsGood, RouteCloseKeepsGood
<1> HIDE DEF y
<1>2. Store(p) /\ trips' = Append(trips, y) /\ ActiveIn(trips) = {}
  BY DEF StartTrip, y
<1>3. trips \in Seq(Trip)
  BY DEF IInv, TripsGood
<1>4. \A k \in 1 .. Len(trips) : GoodTrip(trips[k]) /\ ~trips[k].is_active
  BY <1>2, <1>3 DEF IInv, TripsGood, ActiveIn
<1> QED
  BY <1>1, <1>2, <1>3, <1>4, AppendKeepsChronicle

LEMMA IgnoreLateStep ==
  ASSUME IInv, NEW i \in ActiveIn(trips), NEW p \in Coordinate,
         NEW done \in BOOLEAN, IgnoreLate(i, p, done)
  PROVE  IInv'
<1> DEFINE x == RouteClose(trips[i], p, done)
<1>1. /\ GoodTrip(x) /\ x.start_time = trips[i].start_time
      /\ x.end_time = IF done THEN p.ts ELSE trips[i].end_time
  BY ActiveIsLast, RouteCloseKeepsGood
<1> HIDE DEF x
<1>2. Store(p) /\ trips' = [trips EXCEPT ![i] = x] /\ p.ts <= trips[i].end_time
  BY DEF IgnoreLate, Late, x
<1>3. ASSUME inOrder'
      PROVE  /\ trips[i].end_time <= x.end_time
             /\ x.end_time <= p.ts
             /\ x.end_time = p.ts
  <2>1. inOrder /\ newest <= p.ts
    BY <1>2, <1>3, StoreKeepsClock DEF IInv
  <2>2. trips[i].end_time <= newest /\ newest \in Int
    BY <2>1, ActiveIsLast, SMTT(30) DEF IInv, Chronicle, ClockOK
  <2> QED
    BY <1>1, <1>2, <2>1, <2>2, ActiveIsLast, CoordinateType, SMTT(30)
<1> QED
  BY <1>1, <1>2, <1>3, ActiveIsLast, ReplaceKeepsChronicle

LEMMA CloseOnGapStep ==
  ASSUME IInv, NEW i \in ActiveIn(trips), NEW p \in Coordinate,
         NEW done \in BOOLEAN, CloseOnGap(i, p, done)
  PROVE  IInv'
<1> DEFINE c == Close(trips[i], "COMPLETED")
           x == RouteClose(c, p, done)
<1>1. GoodTrip(c) /\ c.start_time = trips[i].start_time /\ c.end_time = trips[i].end_time
  BY ActiveIsLast, CloseKeepsGood
<1> HIDE DEF c
<1>2. /\ GoodTrip(x) /\ x.start_time = trips[i].start_time
      /\ x.end_time = IF done THEN p.ts ELSE trips[i].end_time
  BY <1>1, RouteCloseKeepsGood
<1> HIDE DEF x
<1>3. /\ Store(p) /\ trips' = [trips EXCEPT ![i] = x]
      /\ p.ts - trips[i].end_time > GapTimeout
      /\ ~Starts(p)
  BY DEF CloseOnGap, AfterGap, c, x
<1>4. ~(p.speed >= StartSpeed)
  BY <1>3 DEF Starts
<1>5. trips[i].end_time <= x.end_time /\ x.end_time <= p.ts
  BY <1>2, <1>3, ActiveIsLast, CoordinateType
<1> QED
  BY <1>2, <1>3, <1>4, <1>5, ActiveIsLast, ReplaceKeepsChronicle

LEMMA RestartOnGapStep ==
  ASSUME IInv, NEW i \in ActiveIn(trips), NEW p \in Coordinate,
         NEW done \in BOOLEAN, RestartOnGap(i, p, done)
  PROVE  IInv'
<1> DEFINE c == Close(trips[i], "COMPLETED")
           s == [trips EXCEPT ![i] = c]
           y == RouteClose(NewTrip(p), p, done)
<1>1. /\ GoodTrip(c) /\ ~c.is_active
      /\ c.start_time = trips[i].start_time /\ c.end_time = trips[i].end_time
  BY ActiveIsLast, CloseKeepsGood
<1>2. GoodTrip(y) /\ y.start_time = p.ts /\ y.end_time = p.ts
  BY NewTripIsGood, RouteCloseKeepsGood
<1>3. Store(p) /\ trips' = Append(s, y)
  BY DEF RestartOnGap
<1> HIDE DEF c, y
<1>4. /\ trips \in Seq(Trip) /\ c \in Trip
      /\ \A k \in 1 .. Len(trips) : /\ GoodTrip(trips[k])
                                    /\ trips[k].is_active => k = Len(trips)
  BY <1>1 DEF IInv, TripsGood, GoodTrip
<1>5. /\ s \in Seq(Trip) /\ Len(s) = Len(trips) /\ s[i] = c
      /\ \A k \in 1 .. Len(trips) : k # i => s[k] = trips[k]
  BY <1>4, ActiveIsLast
<1> HIDE DEF s
<1>6. \A k \in 1 .. Len(trips) : /\ GoodTrip(s[k])
                                 /\ ~s[k].is_active
                                 /\ s[k].start_time = trips[k].start_time
                                 /\ s[k].end_time = trips[k].end_time
  BY <1>1, <1>4, <1>5, ActiveIsLast
<1> QED
  BY <1>2, <1>3, <1>5, <1>6, AppendKeepsChronicle

LEMMA UpdateTripStep ==
  ASSUME IInv, NEW i \in ActiveIn(trips), NEW p \in Coordinate,
         NEW flushed \in BOOLEAN, NEW done \in BOOLEAN,
         UpdateTrip(i, p, flushed, done)
  PROVE  /\ IInv'
         /\ trips'[i].status = "CANCELLED" => p.ign = "off"
<1> DEFINE u == Update(trips[i], p, Visible(p, flushed))
           x == RouteClose(u, p, done)
<1>1. Visible(p, flushed) \in SUBSET Nat
  BY CoordinateType DEF Visible, Moves, IInv, ClockOK
<1>2. /\ Store(p) /\ trips' = [trips EXCEPT ![i] = x] /\ InTime(trips[i], p)
  BY DEF UpdateTrip
<1>3. /\ GoodTrip(u) /\ u.start_time = trips[i].start_time
      /\ u.end_time = p.ts
      /\ u.status = "CANCELLED" => p.ign = "off"
  BY <1>1, <1>2, ActiveIsLast, UpdateKeepsGood
<1> HIDE DEF u
<1>4. /\ GoodTrip(x) /\ x.start_time = trips[i].start_time
      /\ x.end_time = p.ts
      /\ x.status = "CANCELLED" => p.ign = "off"
  BY <1>3, RouteCloseKeepsGood
<1> HIDE DEF x
<1>5. trips[i].end_time <= x.end_time /\ x.end_time <= p.ts
  BY <1>2, <1>4, ActiveIsLast, CoordinateType DEF InTime, Late
<1>6. IInv'
  BY <1>2, <1>4, <1>5, ActiveIsLast, ReplaceKeepsChronicle
<1>7. trips'[i] = x
  BY <1>2, <1>4, ActiveIsLast, ReplaceActive DEF IInv
<1> QED
  BY <1>4, <1>6, <1>7

LEMMA EvaluateStep ==
  ASSUME IInv, NEW i \in ActiveIn(trips), NEW p \in Coordinate, Evaluate(i, p)
  PROVE  IInv'
<1> SUFFICES ASSUME NEW done \in BOOLEAN,
                    \/ IgnoreLate(i, p, done)
                    \/ CloseOnGap(i, p, done)
                    \/ RestartOnGap(i, p, done)
                    \/ \E flushed \in BOOLEAN : UpdateTrip(i, p, flushed, done)
             PROVE  IInv'
  BY DEF Evaluate
<1> QED
  BY IgnoreLateStep, CloseOnGapStep, RestartOnGapStep, UpdateTripStep

\* Only the update of a trip can cancel it.
LEMMA EvaluateCancels ==
  ASSUME IInv, NEW i \in ActiveIn(trips), NEW p \in Coordinate, Evaluate(i, p),
         trips'[i].status = "CANCELLED"
  PROVE  p.ign = "off"
<1> DEFINE c == Close(trips[i], "COMPLETED")
<1>1. /\ trips \in Seq(Trip) /\ i \in 1 .. Len(trips)
      /\ GoodTrip(trips[i]) /\ trips[i].status = "ACTIVE"
  BY ActiveIsLast DEF IInv, TripsGood, GoodTrip
<1>2. GoodTrip(c) /\ c.status = "COMPLETED"
  BY <1>1, CloseKeepsGood
<1> SUFFICES ASSUME NEW done \in BOOLEAN,
                    \/ IgnoreLate(i, p, done)
                    \/ CloseOnGap(i, p, done)
                    \/ RestartOnGap(i, p, done)
                    \/ \E flushed \in BOOLEAN : UpdateTrip(i, p, flushed, done)
             PROVE  p.ign = "off"
  BY DEF Evaluate
<1>3. CASE IgnoreLate(i, p, done)
  <2>1. trips'[i] = RouteClose(trips[i], p, done)
    BY <1>1, <1>3 DEF IgnoreLate
  <2> QED
    BY <1>1, <2>1, RouteCloseKeepsGood
<1>4. CASE CloseOnGap(i, p, done)
  <2>1. trips'[i] = RouteClose(c, p, done)
    BY <1>1, <1>4 DEF CloseOnGap
  <2> QED
    BY <1>2, <2>1, RouteCloseKeepsGood
<1>5. CASE RestartOnGap(i, p, done)
  <2> DEFINE s == [trips EXCEPT ![i] = c]
             y == RouteClose(NewTrip(p), p, done)
  <2>1. trips' = Append(s, y)
    BY <1>5 DEF RestartOnGap
  <2>2. y \in Trip /\ c \in Trip
    BY <1>2, NewTripIsGood, RouteCloseKeepsGood DEF GoodTrip
  <2> HIDE DEF c, y
  <2>3. s \in Seq(Trip) /\ Len(s) = Len(trips) /\ s[i] = c
    BY <1>1, <2>2
  <2> HIDE DEF s
  <2>4. trips'[i] = c
    BY <1>1, <2>1, <2>2, <2>3
  <2> QED
    BY <1>2, <2>4
<1>6. CASE \E flushed \in BOOLEAN : UpdateTrip(i, p, flushed, done)
  BY <1>6, UpdateTripStep
<1> QED
  BY <1>3, <1>4, <1>5, <1>6

\* An evaluation touches the active trip and no other.
LEMMA EvaluateKeepsHistory ==
  ASSUME IInv, NEW i \in ActiveIn(trips), NEW p \in Coordinate, Evaluate(i, p),
         NEW k \in 1 .. Len(trips), k # i
  PROVE  k \in DOMAIN trips' /\ trips'[k] = trips[k]
<1>1. trips \in Seq(Trip) /\ i \in 1 .. Len(trips)
  BY ActiveIsLast DEF IInv, TripsGood
<1>2. ASSUME NEW x, trips' = [trips EXCEPT ![i] = x]
      PROVE  k \in DOMAIN trips' /\ trips'[k] = trips[k]
  BY <1>1, <1>2
<1>3. ASSUME NEW x \in Trip, NEW y \in Trip,
             trips' = Append([trips EXCEPT ![i] = x], y)
      PROVE  k \in DOMAIN trips' /\ trips'[k] = trips[k]
  <2> DEFINE s == [trips EXCEPT ![i] = x]
  <2>1. s \in Seq(Trip) /\ Len(s) = Len(trips) /\ s[k] = trips[k]
    BY <1>1
  <2>2. trips' = Append(s, y)
    BY <1>3
  <2> HIDE DEF s
  <2> QED
    BY <2>1, <2>2
<1> SUFFICES ASSUME NEW done \in BOOLEAN,
                    \/ IgnoreLate(i, p, done)
                    \/ CloseOnGap(i, p, done)
                    \/ RestartOnGap(i, p, done)
                    \/ \E flushed \in BOOLEAN : UpdateTrip(i, p, flushed, done)
             PROVE  k \in DOMAIN trips' /\ trips'[k] = trips[k]
  BY DEF Evaluate
<1>4. CASE RestartOnGap(i, p, done)
  <2>1. /\ Close(trips[i], "COMPLETED") \in Trip
        /\ RouteClose(NewTrip(p), p, done) \in Trip
    BY ActiveIsLast, CloseKeepsGood, NewTripIsGood, RouteCloseKeepsGood, SMTT(30) DEF GoodTrip
  <2> QED
    BY <2>1, <1>3, <1>4 DEF RestartOnGap
<1> QED
  BY <1>2, <1>4 DEF IgnoreLate, CloseOnGap, UpdateTrip

-----------------------------------------------------------------------------
LEMMA InitEstablishes == Init => IInv
<1> SUFFICES ASSUME Init PROVE IInv
  OBVIOUS
<1>1. trips = <<>> /\ moving = {} /\ newest = -1 /\ inOrder = TRUE /\ stored = 0
  BY DEF Init
<1>2. trips \in Seq(Trip) /\ Len(trips) = 0
  BY <1>1
<1> QED
  BY <1>1, <1>2 DEF IInv, TripsGood, ClockOK, Chronicle

LEMMA NextPreserves == IInv /\ [Next]_vars => IInv'
<1> SUFFICES ASSUME IInv, [Next]_vars PROVE IInv'
  OBVIOUS
<1>1. CASE Next
  <2> SUFFICES ASSUME NEW p \in Coordinate,
                      \/ StayParked(p)
                      \/ \E done \in RouteReports : StartTrip(p, done)
                      \/ \E i \in ActiveIn(trips) : Evaluate(i, p)
               PROVE  IInv'
    BY <1>1 DEF Next
  <2> QED
    BY StayParkedStep, StartTripStep, EvaluateStep
<1>2. CASE UNCHANGED vars
  BY <1>2 DEF vars, IInv, TripsGood, ClockOK, Chronicle
<1> QED
  BY <1>1, <1>2

THEOREM Invariance == Spec => []IInv
BY InitEstablishes, NextPreserves, PTL DEF Spec

\* The rows of the table have the types of the columns.
THEOREM TypeCorrect == Spec => []TypeOK
BY Invariance, InvariantImplies, PTL

\* Coordinates that are committed one at a time never leave two trips open.
THEOREM OneOpenTrip == Spec => []SingleActiveTrip
BY Invariance, InvariantImplies, PTL

\* The incremental counters agree after any sequence of coordinates.
THEOREM CountersAgree == Spec => []TripClock
BY Invariance, InvariantImplies, PTL

\* Coordinates stored in order never make two trips overlap.
THEOREM NoOverlap == Spec => []TripsDisjoint
BY Invariance, InvariantImplies, PTL

\* Coordinates stored in order leave no movement outside the trips.
THEOREM NoMovementLost == Spec => []MovementIsInATrip
BY Invariance, InvariantImplies, PTL

LEMMA FrozenStep ==
  IInv /\ [Next]_vars =>
    [\A i \in DOMAIN trips :
       ~trips[i].is_active => i \in DOMAIN trips' /\ trips'[i] = trips[i]]_vars
<1> SUFFICES ASSUME IInv, Next, NEW k \in DOMAIN trips, ~trips[k].is_active
             PROVE  k \in DOMAIN trips' /\ trips'[k] = trips[k]
  OBVIOUS
<1>1. trips \in Seq(Trip) /\ k \in 1 .. Len(trips)
  BY DEF IInv, TripsGood
<1>2. PICK p \in Coordinate : \/ StayParked(p)
                              \/ \E done \in RouteReports : StartTrip(p, done)
                              \/ \E i \in ActiveIn(trips) : Evaluate(i, p)
  BY DEF Next
<1>3. CASE StayParked(p)
  BY <1>3 DEF StayParked
<1>4. ASSUME NEW done \in RouteReports, StartTrip(p, done)
      PROVE  k \in DOMAIN trips' /\ trips'[k] = trips[k]
  <2> DEFINE y == RouteClose(NewTrip(p), p, done)
  <2>1. y \in Trip
    BY NewTripIsGood, RouteCloseKeepsGood DEF GoodTrip
  <2>2. trips' = Append(trips, y)
    BY <1>4 DEF StartTrip
  <2> HIDE DEF y
  <2> QED
    BY <1>1, <2>1, <2>2
<1>5. ASSUME NEW i \in ActiveIn(trips), Evaluate(i, p)
      PROVE  k \in DOMAIN trips' /\ trips'[k] = trips[k]
  BY <1>1, <1>5, ActiveIsLast, EvaluateKeepsHistory
<1> QED
  BY <1>2, <1>3, <1>4, <1>5

\* No step, in order or not, rewrites a trip that was closed before it.
THEOREM HistoryIsFrozen == Spec => ClosedTripsFrozen
BY Invariance, FrozenStep, PTL DEF Spec, ClosedTripsFrozen

LEMMA CancelStep ==
  IInv /\ [Next]_vars =>
    [\A i \in ActiveIn(trips) :
       trips'[i].status = "CANCELLED" =>
         \A p \in Coordinate : p.ign # "off" => ~Evaluate(i, p)]_vars
BY EvaluateCancels

\* For every value of the timeouts the idle branch cancels nothing.
THEOREM IdleBranchNeverCancels == Spec => OnlyIgnitionOffCancels
BY Invariance, CancelStep, PTL DEF Spec, OnlyIgnitionOffCancels
=============================================================================
