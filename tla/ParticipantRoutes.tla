-------------------------- MODULE ParticipantRoutes --------------------------
(***************************************************************************)
(* The routes of the riders of a trip to its destination (App.tsx): an     *)
(* effect that runs whenever the trip or a position changes asks for a     *)
(* route where one is due, answers come in any order, and the legend hides *)
(* and shows what is drawn.                                                *)
(*                                                                         *)
(* Positions more than ROUTE_FETCH_MIN_DISTANCE_METERS apart are distinct, *)
(* closer ones are the same.                                               *)
(***************************************************************************)
EXTENDS Integers

CONSTANTS
    Riders,     \* participants other than the trip's creator
    Dests,      \* destinations of trips
    Positions,
    None,
    MaxAsked    \* bound: equal requests under way

ASSUME RoutesAssumption == None \notin Dests \cup Positions /\ MaxAsked \in Nat

VARIABLES
    trip,       \* store: trip, by its destination
    where,      \* participantRouteLocations: listed riders with a fresh position
    entry,      \* participantRouteStateRef
    routes,     \* participantRoutes
    asked,      \* requests to /api/route that are not answered
    hidden      \* hiddenParticipantRouteIds

routeVars == <<trip, where, entry, routes, asked, hidden>>

Route == [from : Positions, to : Dests]
Request == [rider : Riders, from : Positions, to : Dests]
Entry == [busy : BOOLEAN, recent : BOOLEAN, origin : Positions \cup {None}, dest : Dests]

ASSUME RecordAssumption == None \notin Entry \cup Route

Nobody == [p \in Riders |-> None]

RoutesInit ==
    /\ trip = None /\ where = Nobody /\ entry = Nobody /\ routes = Nobody
    /\ asked = [q \in Request |-> 0]
    /\ hidden = {}

-----------------------------------------------------------------------------

AskedFor(p) == {q \in Request : q.rider = p /\ asked[q] > 0}

\* Mutant: a new destination does not make the last route a thing of the past.
AimedOnly(p, d) ==
    IF entry[p] = None THEN [busy |-> FALSE, recent |-> FALSE, origin |-> None, dest |-> d]
    ELSE [entry[p] EXCEPT !.dest = d]

\* The entry of a listed rider, made if missing, started over for another
\* destination. A request under way is not forgotten with that.
Aimed(p, d) ==
    IF entry[p] = None THEN [busy |-> FALSE, recent |-> FALSE, origin |-> None, dest |-> d]
    ELSE IF entry[p].dest = d THEN entry[p]
    ELSE [entry[p] EXCEPT !.recent = FALSE, !.origin = None, !.dest = d]

\* A route is asked for unless one is under way, the last came less than
\* ROUTE_FETCH_MIN_INTERVAL_MS ago, or is from where the rider still is.
Due(e, x) == ~e.busy /\ ~e.recent /\ e.origin # x

\* The effect on participantRoutes. Riders that are not listed are forgotten.
RouteEffect(d, at) ==
    IF d = None
    THEN routes' = Nobody /\ entry' = Nobody /\ UNCHANGED asked
    ELSE LET Active == {p \in Riders : at[p] # None}
             Asks == {p \in Active : Due(Aimed(p, d), at[p])} IN
         /\ routes' = [p \in Riders |-> IF p \in Active THEN routes[p] ELSE None]
         /\ entry' = [p \in Riders |-> IF p \notin Active THEN None
                                       ELSE [Aimed(p, d) EXCEPT !.busy = @ \/ p \in Asks]]
         /\ asked' = [q \in Request |->
                        IF q.rider \in Asks /\ q.from = at[q.rider] /\ q.to = d
                        THEN asked[q] + 1 ELSE asked[q]]
         /\ \A q \in Request : asked'[q] <= MaxAsked

\* A trip is created, replaced or shown to have other riders; or it ends.
SetTrip(d, at) ==
    /\ d = None => at = Nobody
    /\ trip' = d /\ where' = at
    /\ RouteEffect(d, at)
    /\ UNCHANGED hidden

\* Mutant: positions make riders without a trip.
HearAnyway(p, x) ==
    /\ where' = [where EXCEPT ![p] = x]
    /\ RouteEffect(trip, where')
    /\ UNCHANGED <<trip, hidden>>

\* Somebody is heard of: a rider moves or turns up, or one that was not heard
\* of for a minute, or left, is no longer listed.
Hear(p, x) ==
    /\ trip # None
    /\ where' = [where EXCEPT ![p] = x]
    /\ RouteEffect(trip, where')
    /\ UNCHANGED <<trip, hidden>>

\* Time passes since the last answer for a rider.
IntervalEnds(p) ==
    /\ entry[p] # None
    /\ entry[p].recent
    /\ entry' = [entry EXCEPT ![p].recent = FALSE]
    /\ UNCHANGED <<trip, where, routes, asked, hidden>>

\* A request is over, for whatever entry there is by now.
Over(q, e) ==
    /\ asked[q] > 0
    /\ asked' = [asked EXCEPT ![q] = @ - 1]
    /\ entry' = [entry EXCEPT ![q.rider] = IF @ = None THEN None ELSE e]
    /\ UNCHANGED <<trip, where, hidden>>

RouteAnswers(q) ==
    /\ Over(q, [busy |-> FALSE, recent |-> TRUE, origin |-> q.from, dest |-> q.to])
    /\ routes' = [routes EXCEPT ![q.rider] = [from |-> q.from, to |-> q.to]]

\* Mutant: only an answer frees the entry.
RouteFailsBusy(q) ==
    /\ Over(q, entry[q.rider])
    /\ UNCHANGED routes

RouteFails(q) ==
    /\ Over(q, [entry[q.rider] EXCEPT !.busy = FALSE])
    /\ UNCHANGED routes

-----------------------------------------------------------------------------
(* The legend. *)

Legend == {p \in Riders : where[p] # None}

\* The box of one rider, ...
ToggleRider(p) ==
    /\ p \in Legend
    /\ hidden' = IF p \in hidden THEN hidden \ {p} ELSE hidden \cup {p}
    /\ UNCHANGED <<trip, where, entry, routes, asked>>

\* ... and that of all, which is checked while nothing is hidden.
ToggleAll ==
    /\ trip # None
    /\ hidden' = IF hidden = {} THEN Legend ELSE {}
    /\ UNCHANGED <<trip, where, entry, routes, asked>>

Drawn == {p \in Legend : routes[p] # None /\ p \notin hidden}

RoutesNext ==
    \/ \E d \in Dests \cup {None} : \E at \in [Riders -> Positions \cup {None}] : SetTrip(d, at)
    \/ \E p \in Riders, x \in Positions \cup {None} : Hear(p, x)
    \/ \E p \in Riders : IntervalEnds(p) \/ ToggleRider(p)
    \/ \E q \in Request : RouteAnswers(q) \/ RouteFails(q)
    \/ ToggleAll

-----------------------------------------------------------------------------
(* Properties. *)

RoutesTypeOK ==
    /\ trip \in Dests \cup {None}
    /\ where \in [Riders -> Positions \cup {None}]
    /\ entry \in [Riders -> Entry \cup {None}]
    /\ routes \in [Riders -> Route \cup {None}]
    /\ asked \in [Request -> 0 .. MaxAsked]
    /\ hidden \subseteq Riders
    /\ trip = None => where = Nobody /\ entry = Nobody

\* What the effect remembers of a rider's last route is the route on the map:
\* a rider who is not asked for again is shown the way from there to this
\* trip's destination, whatever answers come late, from an older trip or for a
\* rider who was gone meanwhile (App.tsx 743-799).
RoutesFollowTrip ==
    \A p \in Legend :
        /\ entry[p] # None
        /\ entry[p].dest = trip /\ entry[p].origin # None =>
              routes[p] = [from |-> entry[p].origin, to |-> trip]

\* A rider whose entry is busy has a request under way that will free it,
\* though an entry may be dropped and made anew around it (App.tsx 793-798).
NoRiderIsStuck ==
    \A p \in Riders : entry[p] # None => (entry[p].busy => AskedFor(p) # {})

=============================================================================
