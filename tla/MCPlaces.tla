------------------------------ MODULE MCPlaces ------------------------------
(***************************************************************************)
(* Values for TLC: which cache keys requests may have.                     *)
(***************************************************************************)
EXTENDS Places, TLC

CONSTANTS k1, k2, k3, k4

\* Places by name and routes; nobody searches for blanks.
NamesAndRoutes == [s \in Services |-> IF s = "search" THEN {k1} ELSE {k2, k3, k4}]

EntrySymmetry == Permutations(Entries)
=============================================================================
