------------------------------ MODULE MCServer ------------------------------
(***************************************************************************)
(* Values for TLC: up to three clients. In most configurations c1 and c2   *)
(* are sockets of one user, c3 is of another, and everyone is in the same  *)
(* group; in the one with two groups every client is a user of its own.    *)
(* What each browser may send is a named bound.                            *)
(***************************************************************************)
EXTENDS Server

CONSTANTS c1, c2, c3, u1, u2, u3, g1, g2

TwoSockets    == [c \in Clients |-> IF c = c3 THEN u2 ELSE u1]
OwnUsers      == [c \in Clients |-> CASE c = c1 -> u1 [] c = c2 -> u2 [] OTHER -> u3]
OneGroup      == [c \in Clients |-> g1]
TwoGroups     == [c \in Clients |-> IF c = c3 THEN g2 ELSE g1]

Locations   == [c \in Clients |-> {"location"}]
OneListens  == [c \in Clients |-> IF c = c2 THEN {} ELSE {"location"}]
AndOthers   == [c \in Clients |-> {"location", "other"}]
TripTalk    == [c \in Clients |-> MessageTypes \ {"location", "other"}]
\* c1 leads trips, the others ride along.
LeaderTalk  == [c \in Clients |-> IF c = c1
                                  THEN {"trip_create", "trip_start", "trip_end"}
                                  ELSE {"trip_join", "trip_leave"}]
\* c3, alone in a group of its own, only listens.
StoreTalk   == [c \in Clients |-> CASE c = c1 -> {"location", "trip_create"}
                                    [] c = c2 -> {"trip_join"}
                                    [] OTHER  -> {}]

TripIdSymmetry == Permutations(TripIds)
=============================================================================
