---------------------------- MODULE MCTripRebuild ----------------------------
(***************************************************************************)
(* Instances of TripRebuild for TLC.                                       *)
(***************************************************************************)
EXTENDS TripRebuild

(***************************************************************************)
(* Instants with gaps on both sides of every timeout; parked, starting and *)
(* faster.  One position: distances only matter to the cancellation, which *)
(* the duration decides then.                                              *)
(***************************************************************************)
SmallTimes     == {0, 1, 3, 7}
SmallSpeeds    == {0, 5}
FastSpeeds     == {0, 5, 6}
SmallPositions == {0}
=============================================================================
