------------------------- MODULE MCTelemetryIngest -------------------------
(***************************************************************************)
(* Instances of TelemetryIngest for TLC.                                   *)
(***************************************************************************)
EXTENDS TelemetryIngest

(***************************************************************************)
(* Each request carries any of these: a packet, a packet with the same     *)
(* msgid and other contents (the device was rebooted), a packet without    *)
(* msgid, and one that is rejected.                                        *)
(***************************************************************************)
Numbered   == [msgid |-> 1, data |-> "a"]
Renumbered == [msgid |-> 1, data |-> "b"]
Unnumbered == [msgid |-> NoMsgId, data |-> "a"]
Invalid    == [msgid |-> 2, data |-> "bad"]
SmallPackets == {Numbered, Renumbered, Unnumbered, Invalid}
BadPackets   == {Invalid}
=============================================================================
