---------------------------- MODULE DailyReports ----------------------------
(***************************************************************************)
(* What readers get from the daily summaries: the report builders of       *)
(* services/reports.  Each one is a query on the committed rows between    *)
(* two days; titles, charts and advice are left out.                       *)
(***************************************************************************)
EXTENDS DailyStats

Between(rows, from, to) == {d \in Days : from <= d /\ d <= to /\ rows[d] # NoRow}

Share(a, b, none) == IF b > 0 THEN a \div b ELSE none

\* The totals of rows over a set of days.
Totals(rows, D) ==
  LET sum(f) == Total(LAMBDA d : rows[d][f], D)
  IN  [dist |-> sum("dist"), fuel |-> sum("fuel"), engine |-> sum("engine"),
       idle |-> sum("idle"), max |-> Max({rows[d].max : d \in D} \cup {0}),
       economy |-> Share(sum("dist"), sum("fuel"), 0),
       idling |-> Share(100 * sum("idle"), sum("engine"), 0)]

DailyFleet(from, to) == Totals(tables.fleet, Between(tables.fleet, from, to))

VehiclePerformance(v, from, to) ==
  Totals(tables.vehicle[v], Between(tables.vehicle[v], from, to))

\* One row per vehicle that has a summary in the period.
FuelConsumption(from, to) ==
  LET V == {v \in Vehicles : Between(tables.vehicle[v], from, to) # {}}
  IN  [v \in V |-> VehiclePerformance(v, from, to)]

DriverPerformance(d, from, to) ==
  LET D == Between(tables.driver[d], from, to)
      sum(f) == Total(LAMBDA k : tables.driver[d][k][f], D)
  IN  [dist |-> sum("dist"), fuel |-> sum("fuel"), overspeed |-> sum("overspeed"),
       safety |-> Share(sum("safety"), Cardinality(D), 10000),
       eco |-> Share(sum("eco"), Cardinality(D), 10000)]

MaintenanceReport(V, from, to) ==
  LET rows == {x \in V \X Days : x[2] \in Between(tables.maintenance[x[1]], from, to)}
      row(x) == tables.maintenance[x[1]][x[2]]
  IN  [due |-> Cardinality({x \in rows : row(x).remaining < 1000000}),
       oil |-> Share(Total(LAMBDA x : row(x).oil, rows), Cardinality(rows), 10000)]

FleetHealth(d) ==
  LET V == {v \in Vehicles : tables.maintenance[v][d] # NoRow}
      score(v) == tables.maintenance[v][d].overall
  IN  [average |-> Share(Total(score, V), Cardinality(V), 10000),
       critical |-> {v \in V : score(v) < 7000},
       warning |-> {v \in V : score(v) >= 7000 /\ score(v) < 8500}]

EventSummary(V, from, to) ==
  LET S == {l \in locations : l.vehicle \in V /\ from <= DayOf(l) /\ DayOf(l) <= to}
  IN  [total |-> Total(LAMBDA l : Cardinality(l.alerts), S),
       critical |-> Alerts(S, Critical)]

-----------------------------------------------------------------------------
\* The reports on the fleet, on each vehicle and on fuel agree for every period.
ReportsAgree ==
  \A from, to \in Days :
    LET fuel == FuelConsumption(from, to)
        fleet == DailyFleet(from, to)
    IN  \A f \in {"dist", "fuel", "engine", "idle"} :
          /\ fleet[f] = Total(LAMBDA v : fuel[v][f], DOMAIN fuel)
          /\ fleet[f] = Total(LAMBDA v : VehiclePerformance(v, from, to)[f], Vehicles)

\* What a vehicle drove over a set of its locations, step by step: by its odometer
\* where both ends tell it, by the positions where not.
Span(a, b) == Larger(a - b, b - a)

Mileage(S) ==
  Total(LAMBDA s : IF s[1].odo # None /\ s[2].odo # None
                   THEN Span(s[1].odo, s[2].odo) ELSE Span(s[1].pos, s[2].pos),
        Steps(S))

\* A kilometre is nobody's twice: the drivers who handed vehicles over to each
\* other have no more of them than the vehicles drove, if the devices send their
\* odometers always or never and these do not start again.
HandoversAddUp ==
  \A d \in Days :
    Total(LAMBDA k : DriverPerformance(k, d, d).dist, Drivers)
      <= Total(LAMBDA v : Mileage({l \in locations : l.vehicle = v /\ DayOf(l) = d}),
               Vehicles)

\* Vehicles in the critical band of the health report of the last day, or due
\* for service in its maintenance report, are those dispatchers are told of.
DispatchersAreTold ==
  tables.ops # NoRow =>
    \A v \in Vehicles :
      LET days == {d \in Days : tables.maintenance[v][d] # NoRow}
      IN  \/ v \in FleetHealth(Max(days)).critical
          \/ MaintenanceReport({v}, Max(days), Max(days)).due > 0
          => tables.ops[v].flags # {} \/ tables.ops[v].health < 7000

DailyFiguresAddUp ==
  CountedOnce /\ ReportsAgree /\ HandoversAddUp /\ DispatchersAreTold
=============================================================================
