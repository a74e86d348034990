--------------------------- MODULE MCRouteDriving ---------------------------
(***************************************************************************)
(* Instances of RouteDriving for TLC.                                      *)
(***************************************************************************)
EXTENDS RouteDriving

\* A route of two segments; the other paths are short.
MCMarks ==
  [p \in {"route", "own", "custom"} |-> IF p = "route" THEN <<0, 1, 2>> ELSE <<0, 1>>]

\* Short paths, for more requests.
MCShortMarks == [p \in {"route", "own", "custom"} |-> <<0, 1>>]

\* Beyond the end of the route, and of what was reported of it.
MCProgresses == {[idx |-> 9, pct |-> 50, last |-> 0]}
=============================================================================
