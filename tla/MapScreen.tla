------------------------------ MODULE MapScreen ------------------------------
(***************************************************************************)
(* The map screen of App.tsx while it is mounted and on its way out: the   *)
(* routes of the riders, and this user's own position, from the device or  *)
(* from a simulated ride along a route. The ride starts on the straight    *)
(* line through the waypoints and goes over to the road once it is known.  *)
(*                                                                         *)
(* A line is the sequence of the lengths of its segments, and a place on   *)
(* it is the distance from its start; distances are whole numbers.         *)
(***************************************************************************)
EXTENDS ParticipantRoutes, SequencesExt

CONSTANTS
    SimRoutes,  \* SIM_ROUTES
    Waypoints,  \* their lines through the waypoints
    Roads,      \* lines the road service may answer with
    Pace,       \* distancePerTick
    Elsewhere   \* a place that is not one along the line shown

Lines == {Waypoints[r] : r \in SimRoutes} \cup Roads

ASSUME RideAssumption ==
    /\ None \notin SimRoutes /\ {None, Elsewhere} \cap Nat = {}
    /\ Pace \in Nat \ {0}
    /\ Lines \subseteq Seq(Nat)
    /\ \A line \in Lines : \E i \in DOMAIN line : line[i] > 0

VARIABLES
    mounted, leaving,
    sim,        \* store: sim.route; None: not active
    progress,   \* store: sim.progress
    path,       \* routePath, and the route it was asked for
    shown,      \* routeLine of the last render, which the timer goes by
    roadAsked,  \* requests of fetchRoadRoute that are not answered
    stale,      \* those whose effect has been cleaned up
    location    \* store: location, as the distance along the line shown

rideVars == <<sim, progress, path, shown, roadAsked, stale, location>>
vars == <<routeVars, mounted, leaving, rideVars>>

NoPath == [of |-> None, line |-> <<>>]

Init ==
    /\ RoutesInit
    /\ mounted = FALSE /\ leaving = FALSE
    /\ sim = None /\ progress = 0 /\ path = NoPath /\ shown = <<>>
    /\ roadAsked = {} /\ stale = {}
    /\ location = None

-----------------------------------------------------------------------------
(* Distances along a line. *)

Sum(s) == FoldLeft(LAMBDA a, b : a + b, 0, s)

\* getLineLengthMeters
LineLength(line) == Sum(line)

\* What is left of a distance at the start of segment i.
Remaining(line, d, i) == d - Sum(SubSeq(line, 1, i - 1))

\* The segments at which the loops may stop for that distance.
Stops(line, d) == {i \in DOMAIN line : Remaining(line, d, i) <= line[i]}

\* A place on segment i, at its end if the distance leads beyond.
OnSegment(line, d, i) ==
    Sum(SubSeq(line, 1, i - 1)) + Min({Remaining(line, d, i), line[i]})

\* getLinePosition: the first such segment, or the last of the line.
LinePosition(line, d) == OnSegment(line, d, Min(Stops(line, d) \cup {Len(line)}))

\* sliceLineByDistance: the corners passed, then the place itself.
Corners(line, n) == [i \in 1 .. n |-> Sum(SubSeq(line, 1, i - 1))]

\* Mutant: the distance is not reduced by the segments passed.
SliceLineFromStart(line, d) ==
    IF d <= 0 THEN <<0>>
    ELSE IF d >= LineLength(line) THEN Corners(line, Len(line) + 1)
    ELSE LET i == Min({j \in DOMAIN line : d <= line[j]} \cup {Len(line)}) IN
         Append(Corners(line, i), Sum(SubSeq(line, 1, i - 1)) + Min({d, line[i]}))

SliceLine(line, d) ==
    IF d <= 0 THEN <<0>>
    ELSE IF d >= LineLength(line) THEN Corners(line, Len(line) + 1)
    ELSE LET i == Min(Stops(line, d)) IN Append(Corners(line, i), OnSegment(line, d, i))

-----------------------------------------------------------------------------
(* The simulated ride. *)

RouteLine(r, p) == IF p.line # <<>> THEN p.line ELSE Waypoints[r]

\* The effects of another sim: the path is cleared and, with a route, asked
\* for; the timer goes by the waypoints.
SimEffects(r) ==
    /\ path' = NoPath
    /\ stale' = stale \cup roadAsked
    /\ roadAsked' = IF r = None THEN {} ELSE {r}
    /\ shown' = IF r = None THEN <<>> ELSE Waypoints[r]

\* A place along another line is not one along this.
Away(x) == IF x = None THEN None ELSE Elsewhere

\* toggleSimulate, and the button of the top bar.
StartSim(r) ==
    /\ mounted /\ sim = None
    /\ sim' = r /\ progress' = 0
    /\ SimEffects(r)
    /\ location' = Away(location)
    /\ UNCHANGED <<routeVars, mounted, leaving>>

StopSim ==
    /\ mounted /\ sim # None
    /\ sim' = None /\ progress' = 0
    /\ SimEffects(None)
    /\ location' = Away(location)
    /\ UNCHANGED <<routeVars, mounted, leaving>>

\* The road arrives: it is rendered later. An answer to an effect that has
\* been cleaned up is not looked at.
RoadAnswers(r) ==
    /\ r \in roadAsked
    /\ roadAsked' = roadAsked \ {r}
    /\ \E road \in Roads : path' = [of |-> r, line |-> road]
    /\ UNCHANGED <<routeVars, mounted, leaving, sim, progress, shown, stale, location>>

\* It cannot be had, or not in ROUTE_FETCH_TIMEOUT_MS.
RoadFails(r) ==
    /\ r \in roadAsked
    /\ roadAsked' = roadAsked \ {r}
    /\ path' = NoPath
    /\ UNCHANGED <<routeVars, mounted, leaving, sim, progress, shown, stale, location>>

\* Mutant: isStale is not looked at.
StaleRoadApplies(r) ==
    /\ r \in stale
    /\ stale' = stale \ {r}
    /\ \E road \in Roads : path' = [of |-> r, line |-> road]
    /\ UNCHANGED <<routeVars, mounted, leaving, sim, progress, shown, roadAsked, location>>

StaleRoadAnswers(r) ==
    /\ r \in stale
    /\ stale' = stale \ {r}
    /\ UNCHANGED <<routeVars, mounted, leaving, sim, progress, path, shown, roadAsked, location>>

\* The screen is rendered with a new line, and the timer set for it.
RenderLine ==
    /\ sim # None /\ mounted
    /\ shown # RouteLine(sim, path)
    /\ shown' = RouteLine(sim, path)
    /\ location' = Away(location)
    /\ UNCHANGED <<routeVars, mounted, leaving, sim, progress, path, roadAsked, stale>>

\* The timer: on along the line, from the start again once it is done.
Tick ==
    /\ mounted /\ sim # None
    /\ progress' = IF progress + Pace >= LineLength(shown) THEN 0 ELSE progress + Pace
    /\ location' = LinePosition(shown, progress')
    /\ UNCHANGED <<routeVars, mounted, leaving, sim, path, shown, roadAsked, stale>>

\* watchPosition calls back, while nothing is simulated.
Geolocation ==
    /\ mounted /\ sim = None
    /\ location' = Elsewhere
    /\ UNCHANGED <<routeVars, mounted, leaving, sim, progress, path, shown, roadAsked, stale>>

-----------------------------------------------------------------------------
(* The screen. *)

\* A screen that is mounted finds the store as others left it.
Enter ==
    /\ ~mounted
    /\ mounted' = TRUE
    /\ SimEffects(sim)
    /\ \E at \in [Riders -> Positions \cup {None}] :
          /\ trip = None => at = Nobody
          /\ where' = at
          /\ RouteEffect(trip, at)
    /\ UNCHANGED <<leaving, trip, hidden, sim, progress, location>>

\* Leave: the ride stops, clearLiveData; the screen fades.
Leave ==
    /\ mounted
    /\ leaving' = TRUE
    /\ sim' = None /\ progress' = 0
    /\ IF sim = None THEN UNCHANGED <<path, shown, roadAsked, stale>> ELSE SimEffects(None)
    /\ location' = None
    /\ trip' = None /\ where' = Nobody
    /\ RouteEffect(None, Nobody)
    /\ UNCHANGED <<mounted, hidden>>

\* The map is asked for again before it has gone.
Return ==
    /\ leaving
    /\ leaving' = FALSE
    /\ UNCHANGED <<routeVars, mounted, rideVars>>

\* Answers to what it has asked for reach nobody, but the store is not emptied.
Unmount ==
    /\ mounted /\ leaving
    /\ mounted' = FALSE /\ leaving' = FALSE
    /\ path' = NoPath /\ shown' = <<>>
    /\ roadAsked' = {} /\ stale' = {}
    /\ location' = Away(location)
    /\ where' = Nobody /\ entry' = Nobody /\ routes' = Nobody
    /\ asked' = [q \in Request |-> 0]
    /\ hidden' = {}
    /\ UNCHANGED <<trip, sim, progress>>

Next ==
    \/ mounted /\ RoutesNext /\ UNCHANGED <<mounted, leaving, rideVars>>
    \/ \E r \in SimRoutes : StartSim(r) \/ RoadAnswers(r) \/ RoadFails(r) \/ StaleRoadAnswers(r)
    \/ StopSim \/ RenderLine \/ Tick \/ Geolocation
    \/ Enter \/ Leave \/ Return \/ Unmount

Spec == Init /\ [][Next]_vars

-----------------------------------------------------------------------------
(* Properties. *)

\* What each variable holds.
TypeOK ==
    /\ RoutesTypeOK
    /\ mounted \in BOOLEAN /\ leaving \in BOOLEAN
    /\ sim \in SimRoutes \cup {None} /\ progress \in Nat
    /\ path \in [of : SimRoutes \cup {None}, line : Roads \cup {<<>>}]
    /\ shown \in Lines \cup {<<>>}
    /\ roadAsked \subseteq {sim} \ {None} /\ stale \subseteq SimRoutes
    /\ location \in Nat \cup {None, Elsewhere}

\* The road on the map, and under the ride, is of the route that is simulated,
\* though answers to earlier rides come late (App.tsx 559-587).
RoadIsOfThisRoute ==
    /\ path.of \in {None, sim}
    /\ mounted /\ sim # None => shown \in {Waypoints[sim], path.line}

\* The line of what is done ends at the marker, and runs along the line that
\* is shown - unless the line has changed since the last step of the ride
\* (App.tsx 212-282, 803-851).
DoneEndsAtMarker ==
    sim # None /\ location \in Nat =>
        LET done == SliceLine(shown, progress) IN
        /\ Last(done) = location
        /\ progress < LineLength(shown)
        /\ \A i \in DOMAIN done \ {Len(done)} :
              done[i] <= done[i + 1] /\ done[i + 1] - done[i] <= shown[i]

=============================================================================
