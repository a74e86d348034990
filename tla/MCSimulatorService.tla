------------------------- MODULE MCSimulatorService -------------------------
(***************************************************************************)
(* Instances of SimulatorService for TLC.                                  *)
(***************************************************************************)
EXTENDS SimulatorService

CONSTANTS u1, l1

\* One twin: twins share nothing but the service that starts and stops them.
OneUid  == <<u1>>
OneLoop == [u \in {u1} |-> l1]
=============================================================================
