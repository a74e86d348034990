----------------------------- MODULE MCGateway -----------------------------
(***************************************************************************)
(* What has to go on while telemetry comes in: the answers to the devices, *)
(* the messages of the websocket hub, and the route that a simulated       *)
(* vehicle drives.  The three share no state here, so that a behaviour     *)
(* exercises one of them, which focus names; each starts in one of its     *)
(* initial states, the other two in a fixed one.                           *)
(***************************************************************************)
EXTENDS MCTelemetryIngest, WebSocketHub, MCRouteDriving

VARIABLE focus

MCInit ==
  /\ Init /\ HubInit /\ DriveInit /\ focus \in {"telemetry", "hub", "routes"}
  /\ focus # "telemetry" => vehicles = {} /\ body = [r \in Requests |-> Numbered]

MCNext ==
  \/ focus = "telemetry" /\ Next /\ UNCHANGED <<hubVars, driveVars, focus>>
  \/ focus = "hub" /\ HubNext /\ UNCHANGED <<vars, driveVars, focus>>
  \/ focus = "routes" /\ DriveNext /\ UNCHANGED <<vars, hubVars, focus>>

MCSpec ==
  /\ MCInit /\ [][MCNext]_<<vars, hubVars, driveVars, focus>>
  /\ Fairness /\ HubFairness /\ DriveFairness
=============================================================================
