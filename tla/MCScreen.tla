------------------------------ MODULE MCScreen ------------------------------
(***************************************************************************)
(* MapScreen for TLC: a closed ride and an open one; the road is longer    *)
(* than the line through the waypoints, shorter, or has a corner twice.    *)
(***************************************************************************)
EXTENDS MapScreen, TLC

CONSTANTS loop, rajpath

TwoRides == [r \in SimRoutes |-> IF r = loop THEN <<2, 1>> ELSE <<1, 3>>]
SomeRoads == {<<1, 0, 2, 2>>, <<3>>}

Symmetry == Permutations(Dests) \cup Permutations(Positions)

=============================================================================
