-------------------------- MODULE MCDeviceCommands --------------------------
(***************************************************************************)
(* An instance of DeviceCommands for TLC.  Any two of the packets, their   *)
(* tasks and the API calls run at the same time, one of them ending before *)
(* a third begins.                                                         *)
(***************************************************************************)
EXTENDS DeviceCommands

CONSTANT Busy     \* bound on the packets, tasks and calls under way

Few ==
  Cardinality({k \in Calls : call[k] # NoCall}) +
  Cardinality({p \in Packets : packet[p] # Quiet}) <= Busy

MCSpec == Init /\ [][Next /\ Few']_vars /\ Fairness
=============================================================================
