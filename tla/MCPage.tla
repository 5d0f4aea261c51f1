------------------------------- MODULE MCPage -------------------------------
(* PageSession for TLC: a page that moves between rooms. *)
EXTENDS PageSession, TLC

Symmetry == Permutations(TripIds) \cup Permutations(Sockets)

=============================================================================
