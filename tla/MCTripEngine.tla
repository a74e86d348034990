---------------------------- MODULE MCTripEngine ----------------------------
(***************************************************************************)
(* Instances of TripEngine for TLC.                                        *)
(***************************************************************************)
EXTENDS TripEngine

(***************************************************************************)
(* Five instants: gaps on both sides of every timeout, and a trip after a  *)
(* gap.  The speeds stand for parked, creeping and driving above the       *)
(* limit; the two positions are less than DriftDist apart.                 *)
(***************************************************************************)
SmallTimes     == {0, 1, 3, 4, 5}
SmallSpeeds    == {0, 1, 5}
SmallPositions == {0, 1}
=============================================================================
