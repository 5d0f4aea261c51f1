---------------------------- MODULE HttpRequests ----------------------------
(***************************************************************************)
(* What the REST side of the server has in common: one goroutine per HTTP  *)
(* request, at a stage of its way through middleware and handler, and the  *)
(* clock they all read. Requests are slots: one that has been answered is  *)
(* "idle" and stands for the next request of the same browser.             *)
(***************************************************************************)
EXTENDS Integers, FiniteSets

CONSTANTS
    Requests,       \* request goroutines that may run at once
    None            \* no entry

VARIABLES
    now,            \* time.Now(), in ticks
    stage           \* how far each request has got

Stages == {"idle", "found", "missing", "holding", "allowed", "turn", "waiting",
           "asking"}

RequestsTypeOK ==
    /\ now \in Nat
    /\ stage \in [Requests -> Stages]

RequestsInit ==
    /\ now = 0
    /\ stage = [r \in Requests |-> "idle"]

\* Request r goes on from one stage to another.
Goes(r, from, to) ==
    /\ stage[r] = from
    /\ stage' = [stage EXCEPT ![r] = to]
    /\ UNCHANGED now
=============================================================================
