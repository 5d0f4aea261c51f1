------------------------------- MODULE MCMap -------------------------------
(* MapView for TLC: a map under a user who changes styles. *)
EXTENDS MapView, TLC

Symmetry == Permutations(Styles) \cup Permutations(Data) \cup Permutations(Spots)

=============================================================================
