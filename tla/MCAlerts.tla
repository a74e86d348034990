------------------------------ MODULE MCAlerts ------------------------------
(***************************************************************************)
(* Two components that look whether a row exists and then insert it while  *)
(* others do the same: the events and alerts of telemetry jobs, and the    *)
(* cache of snapped routes.  They share no state, so that a behaviour      *)
(* exercises one of them, which focus names.                               *)
(***************************************************************************)
EXTENDS Alerts, RouteCache, TLC

VARIABLE focus

Cruise == [speed |-> 300, ign |-> 1, dir |-> 60, main |-> 1, volt |-> 40,
           pct |-> 500, fuel |-> 300, fix |-> "V", temp |-> 800, odo |-> 0,
           txn |-> "-", firmware |-> "F1", hardware |-> "H1"]

\* Cruising without a fix, and speeding with one after a sharp turn, reported
\* with B; the counter of the device comes back to 1.
MCPackets ==
  { [at |-> t, msgid |-> IF t = 3 THEN None ELSE 1, reading |-> r] :
      t \in {0, 3, 5},
      r \in {Cruise, [Cruise EXCEPT !.dir = 350, !.speed = 1100, !.txn = "B",
                          !.fix = "A"]} }

MCConfigs == { NoConfig, [firmware |-> "F1", hardware |-> "H2", limit |-> 250] }

MCTimes == {0, 5}

\* Two trips between the same places, and a path of way points.
MCAsks == { [kind |-> "trip", key |-> "k1", trip |-> "t1"],
            [kind |-> "trip", key |-> "k1", trip |-> "t2"],
            [kind |-> "snap", key |-> "k2", trip |-> NoTrip] }

Sym == Permutations(Jobs) \cup Permutations(Requests)

MCInit ==
  /\ Init /\ RouteInit /\ focus \in {"alerts", "routes"}
  /\ focus = "alerts" => enabled /\ config # NoConfig
  /\ focus = "routes" => config = NoConfig

MCNext ==
  \/ focus = "alerts" /\ Next /\ UNCHANGED <<routeVars, focus>>
  \/ focus = "routes" /\ RouteNext /\ UNCHANGED <<vars, focus>>

MCSpec == MCInit /\ [][MCNext]_<<vars, routeVars, focus>>

MCTypeOK == TypeOK /\ RouteTypeOK
=============================================================================
