------------------------------- MODULE Rooms -------------------------------
(***************************************************************************)
(* What the hub promises about membership, with no channels, goroutines or *)
(* replay: a client is outside, inside or gone. It is let in only while    *)
(* its group has room, turned away only when it has none; once gone it     *)
(* does not come back, except as a new client.                             *)
(***************************************************************************)
EXTENDS Naturals, FiniteSets

CONSTANTS Clients, Groups, GroupOf, MaxGroupSize

VARIABLE status     \* "out", "in" or "gone"

Inside(g) == {c \in Clients : GroupOf[c] = g /\ status[c] = "in"}

Init == status = [c \in Clients |-> "out"]

Becomes(c, from, to) ==
    /\ status[c] = from
    /\ status' = [status EXCEPT ![c] = to]

Admit(c) ==
    /\ Cardinality(Inside(GroupOf[c])) < MaxGroupSize
    /\ Becomes(c, "out", "in")

TurnAway(c) ==
    /\ Cardinality(Inside(GroupOf[c])) = MaxGroupSize
    /\ Becomes(c, "out", "gone")

Leave(c) == Becomes(c, "in", "gone")

Forget(c) == Becomes(c, "gone", "out")

Next == \E c \in Clients : Admit(c) \/ TurnAway(c) \/ Leave(c) \/ Forget(c)

Spec == Init /\ [][Next]_status

\* No group ever has more members than the limit.
WithinLimit == \A g \in Groups : Cardinality(Inside(g)) <= MaxGroupSize
=============================================================================
